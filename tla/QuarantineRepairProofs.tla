----------------------- MODULE QuarantineRepairProofs -----------------------
(***************************************************************************)
(* Theorems about QuarantineRepair, for any vaults, any number of blobs and *)
(* any number of quarantine objects: a repair implements the hand-over of   *)
(* Custody, loses no source, moves no asset that nobody asked to move, and  *)
(* leaves one vault.                                                        *)
(*                                                                          *)
(* The argument.  While a record names a quarantine object, that object can *)
(* be read or the owner has the bytes; without a record the source is whole *)
(* or the owner has them (Keeper).  Each stage of a handler knows what the  *)
(* steps before it made durable (Stage); the service runs one handler at a  *)
(* time, so nothing else takes it away before the next step or a crash.     *)
(***************************************************************************)
EXTENDS QuarantineRepair, FiniteSetTheorems, TLAPS

\* The committed rows say that the vault has a blob, and its files are there.
Kept(v) == \E b \in rows.blobs : b.vault = v /\ b.id \in store.files

\* Somebody has the bytes, and the rows say who.
Keeper ==
    /\ rows.record # 0 => Readable(rows.record, store) \/ Kept(rows.owner)
    /\ rows.record = 0 => store.plain = "whole" \/ Kept(rows.owner)

\* The blob the repair works on is live and verifies.
Placed == \E b \in rows.blobs : /\ b.id = job.id /\ b.vault = job.vault /\ b.live
                                /\ b.id \in store.files

Alone(v) == /\ rows.owner = v /\ rows.uploads = {}
            /\ EntryVaults(rows) = {v}
            /\ \A b \in rows.blobs : b.live => b.id = job.id

Stage ==
    /\ job.at = "sealed" => /\ store.plain = "whole" /\ rows.record = 0
                            /\ job.id \in Objects /\ Readable(job.id, store)
    /\ job.at = "recorded" => rows.record # 0 /\ Readable(rows.record, store)
    /\ job.at \in {"resealed", "placed", "named", "retired", "keyless"} =>
          rows.record # 0 /\ job.vault \in LiveVaults
    /\ job.at = "resealed" => /\ Readable(rows.record, store)
                              /\ job.id \in store.files
                              /\ \A b \in rows.blobs : b.id # job.id
    /\ job.at \in {"placed", "named", "retired", "keyless"} => Placed
    /\ job.at \in {"named", "retired", "keyless"} => Alone(job.vault)

\* Ids of blobs are handed out once.
FreshIds ==
    /\ \A b \in rows.blobs : b.id <= issued.blobs
    /\ \A n \in store.files : n <= issued.blobs

\* The inductive invariant.
RepairInv == RepairTypeOK /\ FreshIds /\ Keeper /\ Stage /\ RepairedIsOneVault

-----------------------------------------------------------------------------
(* Row helpers. *)

SameButEntries(q, r) ==
    /\ q \in Rows
    /\ q.owner = r.owner /\ q.blobs = r.blobs /\ q.uploads = r.uploads
    /\ q.record = r.record /\ q.sourceRemoved = r.sourceRemoved

\* A set with one member is not empty.
LEMMA Singleton ==
  ASSUME NEW S, IsFiniteSet(S), Cardinality(S) = 1
  PROVE  \E x : S = {x}
<1>1. S # {}
  BY FS_EmptySet
<1>2. PICK x \in S : TRUE
  BY <1>1
<1>3. Cardinality(S \ {x}) = 0 /\ IsFiniteSet(S \ {x})
  BY FS_RemoveElement
<1>4. S \ {x} = {}
  BY <1>3, FS_EmptySet
<1> QED BY <1>2, <1>4

\* The live vaults an asset is associated with are finitely many.
LEMMA LiveFinite ==
  IsFiniteSet(LiveVaults) /\ \A S : IsFiniteSet(S \cap LiveVaults)
<1>1. IsFiniteSet(LiveVaults)
  BY RepairAssumption, FS_Subset
<1>2. \A S : S \cap LiveVaults \subseteq LiveVaults
  OBVIOUS
<1> QED BY <1>1, <1>2, FS_Subset

\* target_vault_for_asset answers with a vault that exists, or with none.
LEMMA TargetIsLive ==
  ASSUME NEW r \in Rows
  PROVE  TargetVault(r) \in LiveVaults \cup {NoVault}
<1>1. OwnedTarget(r) \in LiveVaults \cup {NoVault}
  BY DEF OwnedTarget
<1>2. UnownedTarget(r) \in LiveVaults \cup {NoVault}
  <2>1. Cardinality(LiveVaults) = 1 => (CHOOSE v \in LiveVaults : TRUE) \in LiveVaults
    BY LiveFinite, Singleton
  <2> DEFINE live == Associated(r) \cap LiveVaults
  <2>2. Cardinality(live) = 1 => (CHOOSE v \in live : TRUE) \in LiveVaults
    <3>1. Cardinality(live) = 1 => \E x : live = {x}
      BY LiveFinite, Singleton
    <3> QED BY <3>1
  <2> QED BY <2>1, <2>2 DEF UnownedTarget
<1> QED BY <1>1, <1>2 DEF TargetVault

\* ensure_file_namespace_defaults touches nothing but entries.
LEMMA DefaultsChangeEntries ==
  ASSUME NEW r \in Rows
  PROVE  SameButEntries(WithDefaults(r), r)
  BY DEF SameButEntries, WithDefaults, Rows

\* ensure_single_live_asset_entry leaves one live entry and touches nothing else.
LEMMA OneEntryLeaves ==
  ASSUME NEW r \in Rows, NEW v \in Vaults
  PROVE  SameButEntries(OneEntry(r, v), r) /\ EntryVaults(OneEntry(r, v)) = {v}
<1> DEFINE e == [w \in Vaults |-> IF w = v THEN "live"
                          ELSE IF WithDefaults(r).entries[w] = "live" THEN "trashed"
                          ELSE WithDefaults(r).entries[w]]
<1>1. WithDefaults(r) \in Rows
  BY DefaultsChangeEntries DEF SameButEntries
<1>2. e \in [Vaults -> {"none", "live", "trashed"}]
  BY <1>1 DEF Rows
<1>3. OneEntry(r, v) = [WithDefaults(r) EXCEPT !.entries = e]
  BY DEF OneEntry
<1> HIDE DEF e
<1>4. SameButEntries(OneEntry(r, v), r) /\ OneEntry(r, v).entries = e
  BY <1>1, <1>2, <1>3, DefaultsChangeEntries DEF SameButEntries, Rows
<1>5. EntryVaults(OneEntry(r, v)) = {v}
  BY <1>4 DEF e, EntryVaults
<1> QED BY <1>4, <1>5

\* The rows before a save: at most one blob more, a placeholder of a new id.
LEMMA SettledAddsOneBlob ==
  ASSUME RepairTypeOK, Settle
  PROVE  /\ Settled(rows) \in Rows
         /\ Settled(rows).owner = rows.owner /\ Settled(rows).uploads = rows.uploads
         /\ Settled(rows).record = rows.record
         /\ issued' \in [blobs : 0 .. MaxBlobs, objects : 0 .. MaxObjects]
         /\ \/ Settled(rows).blobs = rows.blobs /\ issued' = issued
            \/ /\ issued' = [issued EXCEPT !.blobs = @ + 1]
               /\ TargetVault(rows) \in LiveVaults
               /\ Settled(rows).blobs =
                     rows.blobs \cup {[id |-> issued.blobs + 1, vault |-> TargetVault(rows), live |-> TRUE]}
<1> DEFINE r == RowAfterRefresh(rows, issued.blobs + 1)
<1>1. rows \in Rows /\ issued \in [blobs : 0 .. MaxBlobs, objects : 0 .. MaxObjects]
  BY DEF RepairTypeOK
<1>2. CASE TargetVault(rows) = NoVault \/ \E b \in rows.blobs : b.vault = TargetVault(rows)
  <2>1. r = rows /\ ~NeedsPlaceholder(rows)
    BY <1>2 DEF RowAfterRefresh, NeedsPlaceholder
  <2>2. issued' = issued
    BY <2>1 DEF Settle
  <2> QED BY <1>1, <2>1, <2>2, DefaultsChangeEntries DEF Settled, SameButEntries
<1>3. CASE ~(TargetVault(rows) = NoVault \/ \E b \in rows.blobs : b.vault = TargetVault(rows))
  <2> DEFINE new(id) == [id |-> id, vault |-> TargetVault(rows), live |-> TRUE]
             blobs == rows.blobs \cup {new(issued.blobs + 1)}
  <2>1. TargetVault(rows) \in LiveVaults /\ TargetVault(rows) \in Vaults
    BY <1>1, <1>3, TargetIsLive, RepairAssumption
  <2>2. NeedsPlaceholder(rows)
    <3>1. new(0).vault = TargetVault(rows)
      OBVIOUS
    <3>2. new(0) \notin rows.blobs
      BY <3>1, <1>3
    <3>3. RowAfterRefresh(rows, 0).blobs = rows.blobs \cup {new(0)}
      BY <1>1, <1>3 DEF RowAfterRefresh, Rows
    <3> QED BY <3>2, <3>3 DEF NeedsPlaceholder
  <2>3. issued' = [issued EXCEPT !.blobs = @ + 1] /\ issued.blobs < MaxBlobs
    BY <2>2 DEF Settle
  <2>4. new(issued.blobs + 1) \in BlobRecord
    BY <1>1, <2>1, <2>3, RepairAssumption DEF BlobRecord, BlobIds
  <2>5. blobs \in SUBSET BlobRecord
    BY <1>1, <2>4 DEF Rows
  <2>6. r = [rows EXCEPT !.blobs = blobs]
    BY <1>3 DEF RowAfterRefresh
  <2> HIDE DEF blobs
  <2>7. r \in Rows /\ r.blobs = blobs /\ r.owner = rows.owner /\ r.uploads = rows.uploads
        /\ r.record = rows.record
    BY <1>1, <2>5, <2>6 DEF Rows
  <2> HIDE DEF r
  <2>8. SameButEntries(WithDefaults(r), r)
    BY <2>7, DefaultsChangeEntries
  <2>9. Settled(rows) = WithDefaults(r)
    BY DEF Settled, r
  <2>10. issued' \in [blobs : 0 .. MaxBlobs, objects : 0 .. MaxObjects]
    BY <1>1, <2>3, RepairAssumption
  <2> QED BY <2>1, <2>3, <2>7, <2>8, <2>9, <2>10 DEF SameButEntries, blobs
<1> QED BY <1>2, <1>3

-----------------------------------------------------------------------------
(* The invariant is inductive. *)

\* A job at a stage, and a job that has ended with a reply.
LEMMA Jobs ==
  /\ \A at \in Stages : At(at) \in Job /\ At(at).at = at /\ At(at).reply = "none"
  /\ \A reply \in {"repaired", "already", "error"}, v \in LiveVaults :
        /\ Reported(reply, v) \in Job /\ Reported(reply, v).at = "idle"
        /\ Reported(reply, v).reply = reply /\ Reported(reply, v).vault = v
<1>1. 0 \in 0 .. MaxBlobs + MaxObjects /\ LiveVaults \subseteq Vaults
  BY RepairAssumption
<1> QED BY <1>1 DEF At, Reported, Job, Stages

\* The invariant holds when the daemon first finds the unresolved original.
LEMMA InitEstablishes == RepairInit => RepairInv
<1> SUFFICES ASSUME RepairInit PROVE RepairInv
  OBVIOUS
<1> DEFINE first == {{[id |-> 1, vault |-> v, live |-> TRUE]} : v \in Vaults}
<1>1. rows \in [owner : Vaults \cup {NoVault}, blobs : {{}} \cup first,
                uploads : SUBSET Vaults, entries : [Vaults -> {"none", "live", "trashed"}],
                record : {0}, sourceRemoved : {FALSE}]
  BY DEF RepairInit
<1>2. job = At("down") /\ store.plain = "whole"
  BY DEF RepairInit
<1>3. \/ rows.blobs = {} /\ Cardinality(rows.blobs) = 0
      \/ /\ \E v \in Vaults : rows.blobs = {[id |-> 1, vault |-> v, live |-> TRUE]}
         /\ Cardinality(rows.blobs) = 1
  <2>1. rows.blobs \in {{}} \cup first
    BY <1>1
  <2> QED BY <2>1, FS_EmptySet, FS_Singleton
<1>4. issued = [blobs |-> Cardinality(rows.blobs), objects |-> 0]
  BY DEF RepairInit
<1>5. rows.blobs \in SUBSET BlobRecord
  <2>1. \A v \in Vaults : [id |-> 1, vault |-> v, live |-> TRUE] \in BlobRecord
    BY RepairAssumption DEF BlobRecord, BlobIds
  <2> QED BY <1>3, <2>1
<1>6. rows \in Rows
  <2>1. 0 \in 0 .. MaxObjects
    BY RepairAssumption
  <2> QED BY <1>1, <1>5, <2>1 DEF Rows
<1>7. store \in Store /\ \A n \in store.files : n <= issued.blobs
  <2>1. {b.id : b \in rows.blobs} \subseteq 1 .. Cardinality(rows.blobs)
    BY <1>3
  <2>2. Cardinality(rows.blobs) \in 0 .. 1
    BY <1>3
  <2>3. store \in [plain : {"whole"}, files : SUBSET {b.id : b \in rows.blobs},
                   objects : {{}}, keys : {{}}]
    BY DEF RepairInit
  <2>4. store.files \subseteq 1 .. Cardinality(rows.blobs)
    BY <2>1, <2>3
  <2>5. store.files \in SUBSET BlobIds
    BY <2>2, <2>4, RepairAssumption DEF BlobIds
  <2>6. store = [plain |-> "whole", files |-> store.files, objects |-> {}, keys |-> {}]
    BY <2>3
  <2> QED BY <1>4, <2>2, <2>4, <2>5, <2>6 DEF Store
<1>8. job \in Job
  BY <1>2, Jobs DEF Stages
<1>9. \A b, c \in rows.blobs : b.id = c.id => b = c
  BY <1>3
<1>10. \A b \in rows.blobs : b.id <= issued.blobs
  BY <1>3, <1>4
<1>11. issued \in [blobs : 0 .. MaxBlobs, objects : 0 .. MaxObjects]
  BY <1>3, <1>4, RepairAssumption
<1>12. rows.record = 0 /\ job.at = "down"
  BY <1>1, <1>2 DEF At
<1> QED BY <1>2, <1>6, <1>7, <1>8, <1>9, <1>10, <1>11, <1>12
      DEF RepairInv, RepairTypeOK, FreshIds, Keeper, Stage, RepairedIsOneVault

\* What a step keeps of the rows is enough for the bytes to have a keeper.
LEMMA KeeperKept ==
  ASSUME Keeper, rows'.record = rows.record, rows'.owner = rows.owner,
         store'.plain = store.plain, store'.objects = store.objects, store'.keys = store.keys,
         store.files \subseteq store'.files,
         \A b \in rows.blobs : \E c \in rows'.blobs : c.id = b.id /\ c.vault = b.vault
  PROVE  Keeper'
<1>1. ASSUME NEW v, Kept(v) PROVE Kept(v)'
  BY <1>1 DEF Kept
<1>2. Kept(rows.owner) => Kept(rows.owner)'
  BY <1>1 DEF Kept
<1> QED BY <1>2 DEF Keeper, Readable, KeyLoads

\* At the stages that know nothing the invariant is about rows and files only.
Quiet(at) == at \in {"down", "refused", "removed", "opening", "idle"}

\* A step to such a stage, without the reply "repaired", needs no more.
LEMMA QuietStage ==
  ASSUME Quiet(job'.at), job'.reply # "repaired"
  PROVE  Stage' /\ RepairedIsOneVault'
  BY DEF Quiet, Stage, RepairedIsOneVault

\* reconcile_unresolved_managed_originals.
LEMMA StartPreserves ==
  ASSUME RepairInv,
         \/ StartResolved \/ StartSeal \/ SaveRecord \/ StartVerify
         \/ RemoveSource \/ MarkRemoved
  PROVE  RepairInv'
<1> USE DEF RepairInv
<1>0. /\ At("opening") \in Job /\ At("opening").at = "opening" /\ At("opening").reply = "none"
      /\ At("down") \in Job /\ At("down").at = "down" /\ At("down").reply = "none"
      /\ At("refused") \in Job /\ At("refused").at = "refused" /\ At("refused").reply = "none"
      /\ At("removed") \in Job /\ At("removed").at = "removed" /\ At("removed").reply = "none"
      /\ At("sealed") \in Job /\ At("sealed").at = "sealed" /\ At("sealed").reply = "none"
      /\ At("recorded") \in Job /\ At("recorded").at = "recorded" /\ At("recorded").reply = "none"
  BY Jobs DEF Stages
<1>1. CASE StartResolved
  <2>1. RepairTypeOK' /\ FreshIds'
    BY <1>0, <1>1 DEF StartResolved, RepairTypeOK, FreshIds
  <2> QED BY <1>0, <1>1, <2>1, QuietStage DEF StartResolved, Keeper, Kept, Readable, KeyLoads, Quiet
<1>2. CASE StartSeal
  <2>1. CASE UNCHANGED <<store, job, issued>>
    BY <1>2, <2>1 DEF StartSeal, RepairTypeOK, FreshIds, Keeper, Kept, Stage, RepairedIsOneVault,
          Readable, KeyLoads, Placed, Alone, EntryVaults, TargetVault, OwnedTarget, UnownedTarget,
          Associated, BlobVaults, LiveBlobs, VerifiedBlobs, BlobOf
  <2>2. CASE ~UNCHANGED <<store, job, issued>>
    <3> DEFINE o == issued.objects + 1
    <3>1. /\ store.plain = "whole" /\ issued.objects < MaxObjects /\ rows.record = 0
          /\ issued' = [issued EXCEPT !.objects = o]
          /\ store' = [store EXCEPT !.objects = @ \cup {o}, !.keys = @ \cup {o}]
          /\ job' = [At("sealed") EXCEPT !.id = o]
          /\ rows' = rows
      BY <1>2, <2>2 DEF StartSeal, ObjectSealed
    <3>2. o \in Objects /\ o \in 0 .. MaxBlobs + MaxObjects
      BY <3>1, RepairAssumption DEF RepairTypeOK, Objects
    <3>3. store' \in Store /\ store'.plain = "whole" /\ store'.files = store.files
          /\ o \in store'.objects /\ o \in store'.keys
      BY <3>1, <3>2 DEF RepairTypeOK, Store
    <3>4. RepairTypeOK' /\ FreshIds'
      <4>1. job' \in Job /\ job'.reply = "none"
        BY <1>0, <3>1, <3>2 DEF Job, Stages
      <4>2. issued' \in [blobs : 0 .. MaxBlobs, objects : 0 .. MaxObjects]
            /\ issued'.blobs = issued.blobs
        BY <3>1, <3>2 DEF RepairTypeOK, Objects
      <4> QED BY <3>1, <3>3, <4>1, <4>2 DEF RepairTypeOK, FreshIds
    <3>5. Keeper'
      BY <3>1, <3>3 DEF Keeper
    <3>6. Stage' /\ RepairedIsOneVault'
      <4>1. job'.at = "sealed" /\ job'.id = o /\ job'.reply = "none"
        BY <1>0, <3>1 DEF At
      <4> QED BY <3>1, <3>2, <3>3, <4>1 DEF Stage, Readable, KeyLoads, RepairedIsOneVault
    <3> QED BY <3>4, <3>5, <3>6
  <2> QED BY <2>1, <2>2
<1>3. CASE SaveRecord
  <2>1. CASE rows' = rows
    <3>1. /\ job' = At("down") /\ UNCHANGED issued /\ rows.record = 0
          /\ store' \in {store, [store EXCEPT !.objects = @ \ {job.id}]}
      <4>1. job.at = "sealed" /\ rows.record = 0 /\ job.id # 0
        BY <1>3 DEF SaveRecord, Stage, Objects
      <4>2. rows # [rows EXCEPT !.record = job.id, !.sourceRemoved = FALSE]
        BY <4>1 DEF RepairTypeOK, Rows
      <4> QED BY <1>3, <2>1, <4>1, <4>2 DEF SaveRecord
    <3>2. store' \in Store /\ store'.plain = store.plain /\ store'.files = store.files
      BY <3>1 DEF RepairTypeOK, Store
    <3>3. RepairTypeOK' /\ FreshIds'
      BY <1>0, <2>1, <3>1, <3>2 DEF RepairTypeOK, FreshIds
    <3>4. Keeper'
      BY <2>1, <3>1, <3>2 DEF Keeper, Kept
    <3> QED BY <1>0, <3>1, <3>3, <3>4, QuietStage DEF Quiet
  <2>2. CASE rows' # rows
    <3>1. /\ job.at = "sealed" /\ job' = At("recorded") /\ UNCHANGED <<issued, store>>
          /\ rows' = [rows EXCEPT !.record = job.id, !.sourceRemoved = FALSE]
      BY <1>3, <2>2 DEF SaveRecord
    <3>2. job.id \in Objects /\ Readable(job.id, store)
      BY <3>1 DEF Stage
    <3>3. rows' \in Rows /\ rows'.record = job.id /\ rows'.blobs = rows.blobs /\ job.id # 0
      <4>1. job.id \in 0 .. MaxObjects /\ job.id # 0
        BY <3>2, RepairAssumption DEF Objects
      <4> QED BY <3>1, <4>1 DEF RepairTypeOK, Rows
    <3>4. RepairTypeOK' /\ FreshIds'
      BY <1>0, <3>1, <3>3 DEF RepairTypeOK, FreshIds
    <3> QED BY <1>0, <3>1, <3>2, <3>3, <3>4 DEF Keeper, Stage, RepairedIsOneVault, Readable, KeyLoads
  <2> QED BY <2>1, <2>2
<1>4. CASE StartVerify
  <2>1. RepairTypeOK' /\ FreshIds'
    BY <1>0, <1>4 DEF StartVerify, RepairTypeOK, FreshIds
  <2>2. Keeper'
    BY <1>4 DEF StartVerify, Keeper, Kept, Readable, KeyLoads
  <2> QED BY <1>0, <1>4, <2>1, <2>2 DEF StartVerify, Stage, RepairedIsOneVault, Readable, KeyLoads
<1>5. CASE RemoveSource
  <2>1. rows' = rows /\ issued' = issued /\ rows.record # 0 /\ Readable(rows.record, store)
    BY <1>5 DEF RemoveSource, Stage
  <2>2. Quiet(job'.at) /\ job' \in Job /\ job'.reply # "repaired"
    BY <1>0, <1>5 DEF RemoveSource, Quiet
  <2>3. store' \in {store, [store EXCEPT !.plain = "gone"]}
    BY <1>5 DEF RemoveSource
  <2>4. /\ store' \in Store /\ store'.files = store.files
        /\ store'.objects = store.objects /\ store'.keys = store.keys
    BY <2>3 DEF RepairTypeOK, Store
  <2>5. RepairTypeOK' /\ FreshIds' /\ Keeper'
    BY <2>1, <2>2, <2>4 DEF RepairTypeOK, FreshIds, Keeper, Readable, KeyLoads
  <2> QED BY <2>2, <2>5, QuietStage
<1>6. CASE MarkRemoved
  <2>1. /\ UNCHANGED <<store, issued>> /\ Quiet(job'.at) /\ job' \in Job /\ job'.reply # "repaired"
        /\ rows' \in {rows, [rows EXCEPT !.sourceRemoved = TRUE]}
    BY <1>0, <1>6 DEF MarkRemoved, Quiet
  <2>2. rows' \in Rows /\ rows'.blobs = rows.blobs /\ rows'.owner = rows.owner
        /\ rows'.record = rows.record
    BY <2>1 DEF RepairTypeOK, Rows
  <2>3. RepairTypeOK' /\ FreshIds' /\ Keeper'
    BY <2>1, <2>2, KeeperKept DEF RepairTypeOK, FreshIds
  <2> QED BY <2>1, <2>3, QuietStage
<1> QED BY <1>1, <1>2, <1>3, <1>4, <1>5, <1>6

\* Rows that are settled before a save keep every blob and take fresh ids.
LEMMA SettledKeeps ==
  ASSUME RepairTypeOK, FreshIds, Settle, UNCHANGED store,
         rows' \in Rows, rows'.blobs = Settled(rows).blobs, rows'.owner = rows.owner,
         rows'.record = rows.record, job' \in Job, Keeper
  PROVE  RepairTypeOK' /\ FreshIds' /\ Keeper'
<1> USE SettledAddsOneBlob
<1>1. CASE rows'.blobs = rows.blobs /\ issued' = issued
  BY <1>1, KeeperKept DEF RepairTypeOK, FreshIds
<1>2. CASE ~(rows'.blobs = rows.blobs /\ issued' = issued)
  <2> DEFINE new == [id |-> issued.blobs + 1, vault |-> TargetVault(rows), live |-> TRUE]
  <2>1. /\ issued' = [issued EXCEPT !.blobs = @ + 1]
        /\ rows'.blobs = rows.blobs \cup {new}
    BY <1>2
  <2>2. issued'.blobs = issued.blobs + 1 /\ issued.blobs \in Nat /\ store.files \subseteq Nat
    BY <2>1 DEF RepairTypeOK, Store, BlobIds
  <2>3. \A b \in rows.blobs : b.id \in Nat /\ b.id # new.id
    BY <2>2 DEF RepairTypeOK, FreshIds, Rows, BlobRecord, BlobIds
  <2>4. FreshIds'
    BY <2>1, <2>2, <2>3 DEF FreshIds
  <2>5. RepairTypeOK'
    BY <2>1, <2>3 DEF RepairTypeOK
  <2>6. Keeper'
    BY <2>1, KeeperKept
  <2> QED BY <2>4, <2>5, <2>6
<1> QED BY <1>1, <1>2

\* The end of the start, and a tree entry that is trashed or restored.
LEMMA SettlingPreserves ==
  ASSUME RepairInv,
         OpenService \/ \E v \in LiveVaults : TrashEntry(v) \/ RestoreEntry(v)
  PROVE  RepairInv'
<1> USE DEF RepairInv
<1>0. /\ At("down") \in Job /\ At("down").at = "down" /\ At("down").reply = "none"
      /\ At("idle") \in Job /\ At("idle").at = "idle" /\ At("idle").reply = "none"
  BY Jobs DEF Stages
<1>1. CASE OpenService /\ job' = At("down")
  BY <1>0, <1>1, QuietStage, KeeperKept DEF OpenService, RepairTypeOK, FreshIds, Quiet, At
<1>2. CASE OpenService /\ job' # At("down")
  <2>1. Settle /\ rows' = Settled(rows) /\ job' = At("idle") /\ UNCHANGED store
    BY <1>2 DEF OpenService
  <2>2. RepairTypeOK' /\ FreshIds' /\ Keeper'
    BY <1>0, <2>1, SettledAddsOneBlob, SettledKeeps
  <2> QED BY <1>0, <2>1, <2>2, QuietStage DEF Quiet
<1>3. ASSUME NEW v \in LiveVaults, TrashEntry(v) \/ RestoreEntry(v) PROVE RepairInv'
  <2>1. PICK to \in {"live", "trashed"} :
          /\ Settle /\ UNCHANGED store /\ job' = At("idle")
          /\ rows' = [Settled(rows) EXCEPT !.entries[v] = to]
    BY <1>3 DEF TrashEntry, RestoreEntry, SetTrashed
  <2>2. Settled(rows) \in Rows
    BY <2>1, SettledAddsOneBlob
  <2>3. SameButEntries(rows', Settled(rows))
    BY <2>1, <2>2 DEF SameButEntries, Rows
  <2>4. rows' \in Rows /\ rows'.blobs = Settled(rows).blobs /\ rows'.owner = rows.owner
        /\ rows'.record = rows.record
    BY <2>1, <2>3, SettledAddsOneBlob DEF SameButEntries
  <2>5. RepairTypeOK' /\ FreshIds' /\ Keeper'
    BY <1>0, <2>1, <2>4, SettledKeeps
  <2> QED BY <1>0, <2>1, <2>5, QuietStage DEF Quiet
<1> QED BY <1>1, <1>2, <1>3

\* A peer's blob, an edit of the source while the daemon is down, and a crash.
LEMMA OthersPreserve ==
  ASSUME RepairInv, EditSource \/ RepairCrash \/ \E v \in LiveVaults : PeerBlob(v)
  PROVE  RepairInv'
<1> USE DEF RepairInv
<1>0. /\ At("down") \in Job /\ At("down").at = "down" /\ At("down").reply = "none"
      /\ At("idle") \in Job /\ At("idle").at = "idle" /\ At("idle").reply = "none"
  BY Jobs DEF Stages
<1>1. CASE EditSource
  <2>1. /\ UNCHANGED <<rows, job, issued>> /\ rows.record # 0 /\ job.at = "down"
        /\ store' = [store EXCEPT !.plain = "changed"]
    BY <1>1 DEF EditSource
  <2>2. /\ store' \in Store /\ store'.files = store.files
        /\ store'.objects = store.objects /\ store'.keys = store.keys
    BY <2>1 DEF RepairTypeOK, Store
  <2>3. RepairTypeOK' /\ FreshIds' /\ Keeper'
    BY <2>1, <2>2 DEF RepairTypeOK, FreshIds, Keeper, Kept, Readable, KeyLoads
  <2> QED BY <2>1, <2>3 DEF Stage, RepairedIsOneVault
<1>2. CASE RepairCrash
  <2>1. UNCHANGED <<rows, store, issued>> /\ job' = At("down")
    BY <1>2 DEF RepairCrash
  <2>2. RepairTypeOK' /\ FreshIds' /\ Keeper'
    BY <1>0, <2>1, KeeperKept DEF RepairTypeOK, FreshIds
  <2> QED BY <1>0, <2>1, <2>2, QuietStage DEF Quiet
<1>3. ASSUME NEW v \in LiveVaults, PeerBlob(v) PROVE RepairInv'
  <2> DEFINE id == issued.blobs + 1
             new == [id |-> id, vault |-> v, live |-> TRUE]
             blobs == rows.blobs \cup {new}
  <2>1. /\ issued.blobs < MaxBlobs
        /\ issued' = [issued EXCEPT !.blobs = @ + 1]
        /\ rows' = [rows EXCEPT !.blobs = blobs]
        /\ store' \in {store, [store EXCEPT !.files = @ \cup {id}]}
        /\ job' = At("idle")
    BY <1>3 DEF PeerBlob
  <2>2. id \in BlobIds /\ v \in Vaults /\ issued.blobs \in Nat
    BY <2>1, RepairAssumption DEF RepairTypeOK, BlobIds
  <2>3. blobs \in SUBSET BlobRecord
    <3>1. new \in BlobRecord
      BY <2>2 DEF BlobRecord
    <3> QED BY <3>1 DEF RepairTypeOK, Rows
  <2>4. \A b \in rows.blobs : b.id \in Nat /\ b.id # id
    BY <2>2 DEF RepairTypeOK, FreshIds, Rows, BlobRecord, BlobIds
  <2> HIDE DEF blobs
  <2>5. rows' \in Rows /\ rows'.blobs = blobs /\ rows'.owner = rows.owner
        /\ rows'.record = rows.record
    BY <2>1, <2>3 DEF RepairTypeOK, Rows
  <2> USE DEF blobs
  <2>6. /\ store' \in Store /\ store'.plain = store.plain
        /\ store.files \subseteq store'.files /\ store'.files \subseteq store.files \cup {id}
        /\ store'.objects = store.objects /\ store'.keys = store.keys
    BY <2>1, <2>2 DEF RepairTypeOK, Store
  <2>7. /\ issued' \in [blobs : 0 .. MaxBlobs, objects : 0 .. MaxObjects]
        /\ issued'.blobs = issued.blobs + 1
    BY <2>1, <2>2 DEF RepairTypeOK, BlobIds
  <2>8. RepairTypeOK'
    <3>1. \A b, c \in rows'.blobs : b.id = c.id => b = c
      <4>1. \A b, c \in rows.blobs : b.id = c.id => b = c
        BY DEF RepairTypeOK
      <4>2. \A b \in rows'.blobs : b \in rows.blobs \/ b = new
        BY <2>5
      <4>3. new.id = id
        OBVIOUS
      <4> HIDE DEF new
      <4> QED BY <2>4, <4>1, <4>2, <4>3
    <3> QED BY <1>0, <2>1, <2>5, <2>6, <2>7, <3>1 DEF RepairTypeOK
  <2>9. FreshIds'
    BY <2>2, <2>4, <2>5, <2>6, <2>7 DEF RepairTypeOK, FreshIds, Store, BlobIds
  <2>10. Keeper'
    BY <2>5, <2>6, KeeperKept
  <2> QED BY <1>0, <2>1, <2>8, <2>9, <2>10, QuietStage DEF Quiet
<1> QED BY <1>1, <1>2, <1>3

\* The first steps of a repair: done already, resumed, or sealed anew.
LEMMA BeginPreserves ==
  ASSUME RepairInv,
         NEW v \in LiveVaults, RepairAgain(v) \/ RepairResume(v) \/ RepairSeal(v)
  PROVE  RepairInv'
<1> USE DEF RepairInv
<1>0. /\ Reported("error", v) \in Job /\ Reported("error", v).at = "idle"
      /\ Reported("error", v).reply = "error"
      /\ Reported("already", v) \in Job /\ Reported("already", v).at = "idle"
      /\ Reported("already", v).reply = "already"
  BY Jobs
<1>1. v \in Vaults
  BY RepairAssumption
<1>2. CASE UNCHANGED <<rows, store, issued>> /\ job' = Reported("error", v)
  <2>1. RepairTypeOK' /\ FreshIds' /\ Keeper'
    BY <1>0, <1>2, KeeperKept DEF RepairTypeOK, FreshIds
  <2> QED BY <1>0, <1>2, <2>1, QuietStage DEF Quiet
<1>3. CASE RepairAgain(v) /\ job' = Reported("already", v)
  <2>1. /\ UNCHANGED <<store, issued>>
        /\ rows' = OneEntry(rows, v) \/ rows' = rows
    BY <1>3 DEF RepairAgain
  <2>2. SameButEntries(rows', rows)
    BY <1>1, <2>1, OneEntryLeaves DEF RepairTypeOK, SameButEntries
  <2>3. RepairTypeOK' /\ FreshIds' /\ Keeper'
    BY <1>0, <1>3, <2>1, <2>2, KeeperKept DEF RepairTypeOK, FreshIds, SameButEntries
  <2> QED BY <1>0, <1>3, <2>3, QuietStage DEF Quiet
<1>4. CASE RepairResume(v)
  <2>1. PICK b \in VerifiedBlobs(v) : job' = [At("placed") EXCEPT !.vault = v, !.id = b.id]
    BY <1>4 DEF RepairResume
  <2>2. UNCHANGED <<rows, store, issued>> /\ rows.record # 0
    BY <1>4 DEF RepairResume
  <2>3. b \in rows.blobs /\ b.live /\ b.vault = v /\ b.id \in store.files
    BY <2>1 DEF VerifiedBlobs, BlobOf, LiveBlobs
  <2>4. b.id \in 0 .. MaxBlobs + MaxObjects
    BY <2>3, RepairAssumption DEF RepairTypeOK, Rows, BlobRecord, BlobIds
  <2>5. job' = [at |-> "placed", vault |-> v, id |-> b.id, reply |-> "none"]
    BY <2>1 DEF At
  <2>6. job' \in Job
    BY <1>1, <2>4, <2>5 DEF Job, Stages
  <2>7. RepairTypeOK' /\ FreshIds' /\ Keeper'
    BY <2>2, <2>6, KeeperKept DEF RepairTypeOK, FreshIds
  <2> QED BY <2>2, <2>3, <2>5, <2>7 DEF Stage, Placed, RepairedIsOneVault
<1>5. CASE RepairSeal(v) /\ ~(UNCHANGED <<rows, store, issued>> /\ job' = Reported("error", v))
  <2> DEFINE id == issued.blobs + 1
  <2>1. /\ Readable(rows.record, store) /\ issued.blobs < MaxBlobs
        /\ issued' = [issued EXCEPT !.blobs = @ + 1]
        /\ store' = [store EXCEPT !.files = @ \cup {id}]
        /\ job' = [At("resealed") EXCEPT !.vault = v, !.id = id]
        /\ rows' = rows /\ rows.record # 0
    BY <1>5 DEF RepairSeal
  <2>2. id \in BlobIds /\ issued.blobs \in Nat
    BY <2>1, RepairAssumption DEF RepairTypeOK, BlobIds
  <2>3. id \in 0 .. MaxBlobs + MaxObjects
    BY <2>1, <2>2, RepairAssumption DEF BlobIds
  <2>4. job' = [at |-> "resealed", vault |-> v, id |-> id, reply |-> "none"]
    BY <2>1 DEF At
  <2>5. job' \in Job
    BY <1>1, <2>3, <2>4 DEF Job, Stages
  <2>6. /\ store' \in Store /\ store'.plain = store.plain
        /\ store'.files = store.files \cup {id}
        /\ store'.objects = store.objects /\ store'.keys = store.keys
    BY <2>1, <2>2 DEF RepairTypeOK, Store
  <2>7. /\ issued' \in [blobs : 0 .. MaxBlobs, objects : 0 .. MaxObjects]
        /\ issued'.blobs = id
    BY <2>1, <2>2 DEF RepairTypeOK, BlobIds
  <2>8. RepairTypeOK'
    BY <2>1, <2>5, <2>6, <2>7 DEF RepairTypeOK
  <2>9. FreshIds' /\ \A b \in rows.blobs : b.id # id
    BY <2>1, <2>2, <2>6, <2>7
       DEF RepairTypeOK, FreshIds, Store, BlobIds, Rows, BlobRecord
  <2>10. Keeper'
    BY <2>1, <2>6, KeeperKept
  <2>11. Stage' /\ RepairedIsOneVault'
    <3>1. /\ job'.at = "resealed" /\ job'.vault = v /\ job'.id = id /\ job'.reply = "none"
      BY <2>4
    <3>2. Readable(rows.record, store)'
      BY <2>1, <2>6 DEF Readable, KeyLoads
    <3>3. job'.id \in store'.files
      BY <2>6, <3>1
    <3> QED BY <2>1, <2>9, <3>1, <3>2, <3>3 DEF Stage, RepairedIsOneVault
  <2> QED BY <2>8, <2>9, <2>10, <2>11
<1> QED BY <1>2, <1>3, <1>4, <1>5 DEF RepairAgain, RepairSeal

\* The step that retires the quarantine object or its key.
LEMMA RetirePreserves ==
  ASSUME RepairInv, RetireObject \/ RetireKey
  PROVE  RepairInv'
<1> USE DEF RepairInv
<1>1. /\ job.at \in {"named", "retired"} /\ UNCHANGED <<rows, issued>>
      /\ store' \in {store, [store EXCEPT !.objects = @ \ {rows.record}],
                     [store EXCEPT !.keys = @ \ {rows.record}]}
      /\ \/ job' = Reported("error", job.vault)
         \/ \E at \in {"retired", "keyless"} : job' = [job EXCEPT !.at = at]
  BY DEF RetireObject, RetireKey
<1>2. job.vault \in LiveVaults /\ rows.record # 0 /\ Placed /\ Alone(job.vault)
  BY <1>1 DEF Stage
<1>3. /\ store' \in Store /\ store'.plain = store.plain /\ store'.files = store.files
  BY <1>1 DEF RepairTypeOK, Store
<1>4. Keeper' /\ FreshIds' /\ Placed' = (\E b \in rows.blobs : /\ b.id = job'.id
        /\ b.vault = job'.vault /\ b.live /\ b.id \in store.files)
  BY <1>1, <1>2, <1>3 DEF Keeper, Kept, Alone, Placed, FreshIds
<1>5. CASE job' = Reported("error", job.vault)
  <2>1. job' \in Job /\ job'.at = "idle" /\ job'.reply = "error"
    BY <1>2, <1>5, Jobs
  <2>2. RepairTypeOK'
    BY <1>1, <1>3, <2>1 DEF RepairTypeOK
  <2> QED BY <1>4, <2>1, <2>2, QuietStage DEF Quiet
<1>6. CASE \E at \in {"retired", "keyless"} : job' = [job EXCEPT !.at = at]
  <2>1. /\ job' \in Job /\ job'.at \in {"retired", "keyless"}
        /\ job'.vault = job.vault /\ job'.id = job.id
    BY <1>6 DEF RepairTypeOK, Job, Stages
  <2>2. RepairTypeOK'
    BY <1>1, <1>3, <2>1 DEF RepairTypeOK
  <2>3. Alone(job.vault)'
    BY <1>1, <1>2, <2>1 DEF Alone, EntryVaults
  <2>4. Stage' /\ RepairedIsOneVault'
    BY <1>1, <1>2, <1>4, <2>1, <2>3 DEF Stage, Placed, RepairedIsOneVault, Alone, EntryVaults
  <2> QED BY <1>4, <2>2, <2>4
<1> QED BY <1>1, <1>5, <1>6

\* Rows that take the chosen vault: its blob is the only live one, and no
\* receipt or live entry is left elsewhere.
LEMMA TakingRows ==
  ASSUME RepairInv, job.vault \in LiveVaults,
         NEW blobs \in SUBSET BlobRecord,
         NEW uploads \in SUBSET Vaults, NEW entries \in [Vaults -> {"none", "live", "trashed"}],
         rows' = OneEntry([rows EXCEPT !.owner = job.vault, !.blobs = blobs,
                                       !.uploads = uploads, !.entries = entries], job.vault)
  PROVE  /\ rows' \in Rows /\ rows'.owner = job.vault /\ rows'.blobs = blobs
         /\ rows'.uploads = uploads /\ rows'.record = rows.record
         /\ EntryVaults(rows)' = {job.vault}
<1> DEFINE r == [rows EXCEPT !.owner = job.vault, !.blobs = blobs,
                             !.uploads = uploads, !.entries = entries]
<1>1. r \in Rows /\ r.owner = job.vault /\ r.blobs = blobs /\ r.uploads = uploads
      /\ r.record = rows.record
  BY RepairAssumption DEF RepairInv, RepairTypeOK, Rows
<1>2. job.vault \in Vaults
  BY RepairAssumption
<1> HIDE DEF r
<1>3. SameButEntries(OneEntry(r, job.vault), r) /\ EntryVaults(OneEntry(r, job.vault)) = {job.vault}
  BY <1>1, <1>2, OneEntryLeaves
<1>4. rows' = OneEntry(r, job.vault)
  BY DEF r
<1> QED BY <1>1, <1>3, <1>4 DEF SameButEntries, EntryVaults

\* A tombstone keeps the id and the vault of a blob.
LEMMA TombstonesKeep ==
  ASSUME RepairTypeOK, NEW keep
  PROVE  /\ Tombstoned(rows.blobs, keep) \in SUBSET BlobRecord
         /\ \A b \in rows.blobs : \E c \in Tombstoned(rows.blobs, keep) :
               /\ c.id = b.id /\ c.vault = b.vault
               /\ b.live /\ b.id = keep => c.live
         /\ \A c \in Tombstoned(rows.blobs, keep) :
               /\ \E b \in rows.blobs : b.id = c.id /\ b.vault = c.vault
               /\ c.live => c.id = keep
         /\ \A b, c \in Tombstoned(rows.blobs, keep) : b.id = c.id => b = c
<1> DEFINE tomb(b) == [b EXCEPT !.live = b.live /\ b.id = keep]
<1>1. Tombstoned(rows.blobs, keep) = {tomb(b) : b \in rows.blobs}
  BY DEF Tombstoned
<1>2. ASSUME NEW b \in rows.blobs
      PROVE  /\ tomb(b) \in BlobRecord /\ tomb(b).id = b.id /\ tomb(b).vault = b.vault
             /\ tomb(b).live <=> b.live /\ b.id = keep
  <2>1. b \in [id : BlobIds, vault : Vaults, live : BOOLEAN]
    BY DEF RepairTypeOK, Rows, BlobRecord
  <2>2. PICK l \in BOOLEAN : l = (b.live /\ b.id = keep)
    OBVIOUS
  <2>3. tomb(b) = [b EXCEPT !.live = l]
    BY <2>2
  <2>4. [b EXCEPT !.live = l] \in [id : BlobIds, vault : Vaults, live : BOOLEAN]
        /\ [b EXCEPT !.live = l].id = b.id /\ [b EXCEPT !.live = l].vault = b.vault
        /\ [b EXCEPT !.live = l].live = l
    BY <2>1
  <2> QED BY <2>2, <2>3, <2>4 DEF BlobRecord
<1> HIDE DEF tomb
<1>3. \A b \in rows.blobs : tomb(b) \in Tombstoned(rows.blobs, keep)
  BY <1>1
<1>4. \A c \in Tombstoned(rows.blobs, keep) : \E b \in rows.blobs : c = tomb(b)
  BY <1>1
<1>5. Tombstoned(rows.blobs, keep) \in SUBSET BlobRecord
  BY <1>2, <1>4
<1>6. \A b \in rows.blobs : \E c \in Tombstoned(rows.blobs, keep) :
               /\ c.id = b.id /\ c.vault = b.vault
               /\ b.live /\ b.id = keep => c.live
  BY <1>2, <1>3
<1>7. \A c \in Tombstoned(rows.blobs, keep) :
               /\ \E b \in rows.blobs : b.id = c.id /\ b.vault = c.vault
               /\ c.live => c.id = keep
  BY <1>2, <1>4
<1>8. \A b, c \in Tombstoned(rows.blobs, keep) : b.id = c.id => b = c
  BY <1>2, <1>4 DEF RepairTypeOK
<1> QED BY <1>5, <1>6, <1>7, <1>8

\* A save that fails leaves the rows, the files and the reply "error".
LEMMA FailingPreserves ==
  ASSUME RepairInv, job.vault \in LiveVaults, UNCHANGED <<rows, store, issued>>,
         job' = Reported("error", job.vault)
  PROVE  RepairInv'
<1>1. job' \in Job /\ job'.at = "idle" /\ job'.reply = "error"
  BY Jobs
<1>2. RepairTypeOK' /\ FreshIds' /\ Keeper'
  BY <1>1, KeeperKept DEF RepairInv, RepairTypeOK, FreshIds
<1> QED BY <1>1, <1>2, QuietStage DEF RepairInv, Quiet

\* The candidate is saved: the new blob is the only live one.
LEMMA CandidatePreserves ==
  ASSUME RepairInv, SaveCandidate
  PROVE  RepairInv'
<1> USE DEF RepairInv
<1> DEFINE v == job.vault
           new == [id |-> job.id, vault |-> v, live |-> TRUE]
           blobs == Tombstoned(rows.blobs, 0) \cup {new}
<1>1. job.at = "resealed" /\ UNCHANGED <<store, issued>>
  BY DEF SaveCandidate
<1>2. /\ rows.record # 0 /\ v \in LiveVaults /\ v \in Vaults /\ job.id \in store.files
      /\ \A b \in rows.blobs : b.id # job.id
  BY <1>1, RepairAssumption DEF Stage
<1>3. CASE job' = Reported("error", v) /\ UNCHANGED rows
  BY <1>1, <1>2, <1>3, FailingPreserves
<1>4. CASE rows' = Candidate(v, job.id) /\ job' = [job EXCEPT !.at = "placed"]
  <2>1. job.id \in BlobIds /\ job.id <= issued.blobs /\ issued.blobs \in Nat /\ 0 \notin BlobIds
    BY <1>2 DEF RepairTypeOK, FreshIds, Store, BlobIds
  <2>2. new \in BlobRecord
    BY <1>2, <2>1 DEF BlobRecord
  <2>3. blobs \in SUBSET BlobRecord
    BY <2>2, TombstonesKeep
  <2> DEFINE entries == [w \in Vaults |-> IF w # v /\ rows.entries[w] = "live"
                                          THEN "trashed" ELSE rows.entries[w]]
  <2>4. entries \in [Vaults -> {"none", "live", "trashed"}] /\ rows.uploads \cap {v} \in SUBSET Vaults
    BY DEF RepairTypeOK, Rows
  <2>5. rows' = OneEntry([rows EXCEPT !.owner = v, !.blobs = blobs,
                                      !.uploads = rows.uploads \cap {v}, !.entries = entries], v)
    BY <1>4 DEF Candidate
  <2>6. new \in blobs /\ new.id = job.id /\ new.vault = v /\ new.live
    OBVIOUS
  <2>7. \A b \in blobs : b = new \/ b \in Tombstoned(rows.blobs, 0)
    OBVIOUS
  <2> HIDE DEF blobs, entries, new
  <2>8. /\ rows' \in Rows /\ rows'.owner = v /\ rows'.blobs = blobs /\ rows'.record = rows.record
    BY <1>2, <2>3, <2>4, <2>5, TakingRows
  <2>9. job' \in Job /\ job'.at = "placed" /\ job'.vault = v /\ job'.id = job.id
    BY <1>4 DEF RepairTypeOK, Job, Stages
  <2>10. \A b \in Tombstoned(rows.blobs, 0) : b.id # job.id /\ b.id <= issued.blobs
    BY <1>2, TombstonesKeep DEF FreshIds
  <2>11. \A b, c \in blobs : b.id = c.id => b = c
    BY <2>6, <2>7, <2>10, TombstonesKeep
  <2>12. RepairTypeOK' /\ FreshIds'
    BY <1>1, <2>1, <2>6, <2>7, <2>8, <2>9, <2>10, <2>11 DEF RepairTypeOK, FreshIds
  <2>13. Placed' /\ Keeper'
    BY <1>1, <1>2, <2>6, <2>8, <2>9 DEF Placed, Keeper, Kept
  <2> QED BY <1>2, <2>8, <2>9, <2>12, <2>13 DEF Stage, RepairedIsOneVault
<1> QED BY <1>3, <1>4 DEF SaveCandidate, SaveOr

\* The namespace is saved: the chosen vault is alone in the rows.
LEMMA NamespacePreserves ==
  ASSUME RepairInv, SaveNamespace
  PROVE  RepairInv'
<1> USE DEF RepairInv
<1> DEFINE v == job.vault
           blobs == Tombstoned(rows.blobs, job.id)
<1>1. job.at = "placed" /\ UNCHANGED <<store, issued>>
  BY DEF SaveNamespace
<1>2. rows.record # 0 /\ v \in LiveVaults /\ v \in Vaults /\ Placed
  BY <1>1, RepairAssumption DEF Stage
<1>3. CASE job' = Reported("error", v) /\ UNCHANGED rows
  BY <1>1, <1>2, <1>3, FailingPreserves
<1>4. CASE rows' = Named(v, job.id) /\ job' = [job EXCEPT !.at = "named"]
  <2>1. blobs \in SUBSET BlobRecord /\ rows.entries \in [Vaults -> {"none", "live", "trashed"}]
    BY TombstonesKeep DEF RepairTypeOK, Rows
  <2>2. rows' = OneEntry([rows EXCEPT !.owner = v, !.blobs = blobs, !.uploads = {}], v)
    BY <1>4 DEF Named
  <2>3. [rows EXCEPT !.owner = v, !.blobs = blobs, !.uploads = {}] =
        [rows EXCEPT !.owner = v, !.blobs = blobs, !.uploads = {}, !.entries = rows.entries]
    <3> HIDE DEF blobs
    <3> QED BY DEF RepairTypeOK, Rows
  <2> HIDE DEF blobs
  <2>4. /\ rows' \in Rows /\ rows'.owner = v /\ rows'.blobs = blobs /\ rows'.uploads = {}
        /\ rows'.record = rows.record /\ EntryVaults(rows)' = {v}
    <3>1. {} \in SUBSET Vaults
      OBVIOUS
    <3>2. rows' = OneEntry([rows EXCEPT !.owner = v, !.blobs = blobs, !.uploads = {},
                                        !.entries = rows.entries], v)
      BY <2>2, <2>3
    <3>3. RepairInv /\ v \in LiveVaults
      BY <1>2
    <3> DEFINE uploads == {}
               entries == rows.entries
    <3>4. uploads \in SUBSET Vaults /\ entries \in [Vaults -> {"none", "live", "trashed"}]
      BY <2>1, <3>1
    <3> HIDE DEF entries, v, RepairInv
    <3> QED BY <2>1, <3>2, <3>3, <3>4, TakingRows DEF entries, v
  <2>5. job' \in Job /\ job'.at = "named" /\ job'.vault = v /\ job'.id = job.id
    BY <1>4 DEF RepairTypeOK, Job, Stages
  <2>6. /\ \A b \in blobs : b.live => b.id = job.id
        /\ \A b \in blobs : b.id <= issued.blobs
        /\ \A b, c \in blobs : b.id = c.id => b = c
    BY TombstonesKeep DEF blobs, FreshIds
  <2>7. \E b \in blobs : /\ b.id = job.id /\ b.vault = v /\ b.live /\ b.id \in store.files
    BY <1>2, TombstonesKeep DEF Placed, blobs
  <2>8. RepairTypeOK' /\ FreshIds'
    BY <1>1, <2>4, <2>5, <2>6 DEF RepairTypeOK, FreshIds
  <2>9. Placed' /\ Keeper' /\ Alone(job.vault)'
    BY <1>1, <1>2, <2>4, <2>5, <2>6, <2>7 DEF Placed, Keeper, Kept, Alone
  <2> QED BY <1>2, <2>4, <2>5, <2>8, <2>9 DEF Stage, RepairedIsOneVault
<1> QED BY <1>3, <1>4 DEF SaveNamespace, SaveOr

\* A vault that is alone in the rows, and exists, is the target.
LEMMA AloneIsOneVault ==
  ASSUME rows \in Rows, \A b, c \in rows.blobs : b.id = c.id => b = c,
         NEW v \in LiveVaults, Alone(v), Placed, job.vault = v
  PROVE  /\ TargetVault(rows) = v /\ Associated(rows) = {v} /\ EntryVaults(rows) = {v}
         /\ Cardinality(LiveBlobs(rows)) = 1 /\ VerifiedBlobs(v) # {}
<1>1. PICK b \in rows.blobs : b.id = job.id /\ b.vault = v /\ b.live /\ b.id \in store.files
  BY DEF Placed
<1>2. LiveBlobs(rows) = {b}
  BY <1>1 DEF Alone, LiveBlobs
<1>3. Cardinality(LiveBlobs(rows)) = 1
  BY <1>2, FS_Singleton
<1>4. BlobVaults(rows) = {v} /\ EntryVaults(rows) = {v} /\ rows.uploads = {}
  BY <1>1, <1>2 DEF BlobVaults, Alone
<1>5. Associated(rows) = {v}
  BY <1>4 DEF Associated
<1>6. OwnedTarget(rows) = v /\ rows.owner # NoVault
  BY <1>5, RepairAssumption DEF OwnedTarget, Alone
<1>7. b \in VerifiedBlobs(v)
  BY <1>1, <1>2 DEF VerifiedBlobs, BlobOf
<1> QED BY <1>3, <1>4, <1>5, <1>6, <1>7 DEF TargetVault

\* The record goes last: what is reported done is one vault.
LEMMA InventoryPreserves ==
  ASSUME RepairInv, SaveInventory
  PROVE  RepairInv'
<1> USE DEF RepairInv
<1> DEFINE v == job.vault
<1>1. job.at = "keyless" /\ UNCHANGED <<store, issued>>
  BY DEF SaveInventory
<1>2. rows.record # 0 /\ v \in LiveVaults /\ v \in Vaults /\ Placed /\ Alone(v)
  BY <1>1, RepairAssumption DEF Stage
<1>3. CASE job' = Reported("error", v) /\ UNCHANGED rows
  BY <1>1, <1>2, <1>3, FailingPreserves
<1>4. CASE /\ rows' = [rows EXCEPT !.record = 0, !.sourceRemoved = FALSE, !.owner = v]
           /\ job' = Reported("repaired", v)
  <2>1. 0 \in 0 .. MaxObjects
    BY RepairAssumption
  <2>2. /\ rows' \in Rows /\ rows'.owner = v /\ rows'.blobs = rows.blobs /\ rows'.record = 0
        /\ rows'.entries = rows.entries /\ rows'.uploads = rows.uploads
    BY <1>2, <1>4, <2>1 DEF RepairTypeOK, Rows
  <2>3. job' \in Job /\ job'.at = "idle" /\ job'.vault = v /\ job'.reply = "repaired"
    BY <1>2, <1>4, Jobs
  <2>4. RepairTypeOK' /\ FreshIds'
    BY <1>1, <2>2, <2>3 DEF RepairTypeOK, FreshIds
  <2>5. Keeper'
    BY <1>1, <1>2, <2>2 DEF Keeper, Kept, Placed
  <2>6. /\ TargetVault(rows) = v /\ Associated(rows) = {v} /\ EntryVaults(rows) = {v}
        /\ Cardinality(LiveBlobs(rows)) = 1 /\ VerifiedBlobs(v) # {}
    BY <1>2, AloneIsOneVault DEF RepairTypeOK
  <2>7. rows.owner = v
    BY <1>2 DEF Alone
  <2>8. EntryVaults(rows') = EntryVaults(rows) /\ LiveBlobs(rows') = LiveBlobs(rows)
    BY <2>2 DEF EntryVaults, LiveBlobs
  <2>9. BlobVaults(rows') = BlobVaults(rows)
    BY <2>8 DEF BlobVaults
  <2>10. Associated(rows') = Associated(rows)
    BY <2>2, <2>8, <2>9 DEF Associated
  <2>11. TargetVault(rows') = v
    BY <1>2, <2>2, <2>6, <2>10, RepairAssumption DEF TargetVault, OwnedTarget
  <2>12. VerifiedBlobs(v)' # {}
    BY <1>1, <2>3, <2>6, <2>8 DEF VerifiedBlobs, BlobOf
  <2>13. RepairedIsOneVault'
    BY <2>2, <2>3, <2>6, <2>8, <2>10, <2>11, <2>12 DEF RepairedIsOneVault
  <2>14. Stage'
    BY <2>3 DEF Stage
  <2> QED BY <2>4, <2>5, <2>13, <2>14
<1> QED BY <1>3, <1>4 DEF SaveInventory

\* Every step of the daemon, of a peer, of the user and every crash preserves
\* the invariant.
LEMMA NextPreserves ==
  ASSUME RepairInv, [RepairNext]_repairVars
  PROVE  RepairInv'
<1>1. CASE UNCHANGED repairVars
  BY <1>1 DEF RepairInv, RepairTypeOK, FreshIds, Keeper, Kept, Stage, RepairedIsOneVault,
        Readable, KeyLoads, Placed, Alone, EntryVaults, TargetVault, OwnedTarget, UnownedTarget,
        Associated, BlobVaults, LiveBlobs, VerifiedBlobs, BlobOf, repairVars
<1>2. CASE RepairNext
  BY <1>2, StartPreserves, SettlingPreserves, OthersPreserve, BeginPreserves, RetirePreserves,
     CandidatePreserves, NamespacePreserves, InventoryPreserves DEF RepairNext
<1> QED BY <1>1, <1>2

\* The inductive invariant holds in every state of the repair.
THEOREM RepairInvariance == RepairSpec => []RepairInv
<1>1. RepairInit => RepairInv
  BY InitEstablishes
<1>2. RepairInv /\ [RepairNext]_repairVars => RepairInv'
  BY NextPreserves
<1> QED BY <1>1, <1>2, PTL DEF RepairSpec

\* The rows, the files and the handler under way are what their types say.
THEOREM RepairTypes == RepairSpec => []RepairTypeOK
<1>1. RepairInv => RepairTypeOK
  BY DEF RepairInv
<1> QED BY <1>1, RepairInvariance, PTL

\* When repair_quarantined_original answers that it is done, the committed
\* rows name the chosen vault alone, with one live blob that verifies.
THEOREM RepairedLeavesOneVault == RepairSpec => []RepairedIsOneVault
<1>1. RepairInv => RepairedIsOneVault
  BY DEF RepairInv
<1> QED BY <1>1, RepairInvariance, PTL

-----------------------------------------------------------------------------
(* No source is lost. *)

\* reconcile_unresolved_managed_originals removes the plaintext only after it
\* has committed a record of an object that can be read, and only if the
\* plaintext still is what was sealed.
THEOREM NoSourceLost == RepairSpec => SourceLeavesQuarantined
<1> DEFINE Leaves == store.plain # "gone" /\ store'.plain = "gone" =>
                        store.plain = "whole" /\ rows.record # 0 /\ Readable(rows.record, store)
<1>1. ASSUME RepairInv, [RepairNext]_repairVars PROVE Leaves
  <2> SUFFICES ASSUME store.plain # "gone", store'.plain = "gone"
               PROVE  store.plain = "whole" /\ rows.record # 0 /\ Readable(rows.record, store)
    OBVIOUS
  <2>1. store \in Store
    BY <1>1 DEF RepairInv, RepairTypeOK
  <2>2. CASE RemoveSource
    BY <1>1, <2>2 DEF RepairInv, Stage, RemoveSource, SourceUnchanged
  <2>3. CASE ~RemoveSource
    <3>1. store'.plain \in {store.plain, "changed"}
      BY <1>1, <2>1, <2>3
         DEF RepairNext, repairVars, Store, StartResolved, StartSeal, ObjectSealed, SaveRecord,
             StartVerify, MarkRemoved, OpenService, RepairAgain, RepairResume, RepairSeal,
             SaveCandidate, SaveNamespace, RetireObject, RetireKey, SaveInventory, PeerBlob,
             TrashEntry, RestoreEntry, SetTrashed, EditSource, RepairCrash
    <3> QED BY <3>1
  <2> QED BY <2>2, <2>3
<1> QED BY <1>1, RepairInvariance, PTL DEF RepairSpec, SourceLeavesQuarantined

-----------------------------------------------------------------------------
(* No evidence moves an asset. *)

\* An owner that stays is the only vault the target can be.
LEMMA OwnerStays ==
  ASSUME NEW r, NEW q, r.owner # NoVault, q.owner = r.owner, TargetVault(r) # NoVault
  PROVE  TargetVault(q) \in {NoVault, TargetVault(r)}
  BY DEF TargetVault, OwnedTarget

\* An asset without an owner goes from one target to none when other live
\* vaults turn up, never to another one, and the same when evidence goes.
LEMMA UnownedStays ==
  ASSUME NEW r \in Rows, NEW q \in Rows, r.owner = NoVault, q.owner = NoVault,
         TargetVault(r) # NoVault,
         \/ Associated(r) \cap LiveVaults \subseteq Associated(q)
         \/ Associated(q) \cap LiveVaults \subseteq Associated(r) \cup {TargetVault(r)}
  PROVE  TargetVault(q) \in {NoVault, TargetVault(r)}
<1> DEFINE T == TargetVault(r)
           live(s) == Associated(s) \cap LiveVaults
<1>1. T \in LiveVaults /\ TargetVault(q) \in LiveVaults \cup {NoVault}
  BY TargetIsLive
<1>2. ASSUME Cardinality(LiveVaults) = 1 PROVE LiveVaults = {T}
  BY <1>1, <1>2, LiveFinite, Singleton
<1>3. CASE Cardinality(LiveVaults) = 1
  BY <1>1, <1>2, <1>3
<1>4. CASE Cardinality(LiveVaults) # 1
  <2>1. \A s \in Rows : Cardinality(live(s)) = 1 => \E x : live(s) = {x}
    BY LiveFinite, Singleton
  <2>2. live(r) = {T}
    <3>1. T = UnownedTarget(r)
      BY DEF TargetVault
    <3>2. Cardinality(live(r)) = 1 /\ T = CHOOSE v \in live(r) : TRUE
      BY <1>4, <3>1 DEF UnownedTarget
    <3> QED BY <2>1, <3>2
  <2> SUFFICES ASSUME TargetVault(q) # NoVault PROVE TargetVault(q) = T
    OBVIOUS
  <2>3. TargetVault(q) = UnownedTarget(q)
    BY DEF TargetVault
  <2>4. Cardinality(live(q)) = 1 /\ UnownedTarget(q) = CHOOSE v \in live(q) : TRUE
    BY <1>4, <2>3 DEF UnownedTarget
  <2>5. PICK x : live(q) = {x}
    BY <2>1, <2>4
  <2>6. x = T
    BY <1>1, <2>2, <2>5
  <2> QED BY <2>3, <2>4, <2>5, <2>6
<1> QED BY <1>3, <1>4

\* What a settling save adds to the evidence is the target itself.
LEMMA SettledEvidence ==
  ASSUME RepairTypeOK, Settle
  PROVE  /\ Associated(rows) \subseteq Associated(Settled(rows))
         /\ TargetVault(rows) # NoVault =>
               Associated(Settled(rows)) \subseteq Associated(rows) \cup {TargetVault(rows)}
<1> DEFINE r == RowAfterRefresh(rows, issued.blobs + 1)
           T == TargetVault(rows)
<1>1. rows \in Rows
  BY DEF RepairTypeOK
<1>2. /\ r.uploads = rows.uploads /\ r.entries = rows.entries
      /\ rows.blobs \subseteq r.blobs
      /\ \A b \in r.blobs : b \in rows.blobs \/ (T # NoVault /\ b.vault = T)
  BY <1>1 DEF RowAfterRefresh, Rows
<1>3. /\ BlobVaults(rows) \subseteq BlobVaults(r)
      /\ \A v \in BlobVaults(r) : v \in BlobVaults(rows) \/ (T # NoVault /\ v = T)
  BY <1>2 DEF BlobVaults, LiveBlobs
<1>4. EntryVaults(r) = EntryVaults(rows)
  BY <1>2 DEF EntryVaults
<1>5. Settled(rows) = WithDefaults(r)
  BY DEF Settled
<1> DEFINE e == [v \in Vaults |->
            IF /\ r.entries[v] = "none" /\ v \in BlobVaults(r) \cap LiveVaults
               /\ Cardinality(Associated(r) \cap LiveVaults) = 1
               /\ v \in r.uploads \/ LiveVaults = {v}
            THEN "live" ELSE r.entries[v]]
<1>6. WithDefaults(r) = [r EXCEPT !.entries = e]
  BY DEF WithDefaults
<1>7. \A v \in Vaults : /\ r.entries[v] = "live" => e[v] = "live"
                        /\ e[v] = "live" => r.entries[v] = "live" \/ v \in BlobVaults(r)
  OBVIOUS
<1>8. r = rows \/ r = [rows EXCEPT !.blobs = r.blobs]
  BY DEF RowAfterRefresh
<1> HIDE DEF e, r
<1>9. /\ WithDefaults(r).blobs = r.blobs /\ WithDefaults(r).uploads = r.uploads
      /\ WithDefaults(r).entries = e
  BY <1>1, <1>6, <1>8 DEF Rows
<1>10. BlobVaults(WithDefaults(r)) = BlobVaults(r)
  BY <1>9 DEF BlobVaults, LiveBlobs
<1>11. /\ EntryVaults(r) \subseteq EntryVaults(WithDefaults(r))
       /\ EntryVaults(WithDefaults(r)) \subseteq EntryVaults(r) \cup BlobVaults(r)
  BY <1>7, <1>9 DEF EntryVaults
<1> QED BY <1>2, <1>3, <1>4, <1>5, <1>9, <1>10, <1>11 DEF Associated

\* target_vault_for_asset never goes from one vault to another except in the
\* saves of a repair that was asked for, and then to the vault asked for.
LEMMA StepsKeepTheVault ==
  ASSUME RepairInv, RepairInv', RepairNext, TargetVault(rows) # NoVault
  PROVE  \/ TargetVault(rows') \in {NoVault, TargetVault(rows)}
         \/ job.vault = TargetVault(rows') /\ job.at \in {"resealed", "placed"}
<1> USE DEF RepairInv
<1>0. rows \in Rows /\ rows' \in Rows
  BY DEF RepairTypeOK
<1>1. CASE rows' = rows
  BY <1>1
<1>2. ASSUME rows'.owner = rows.owner, rows'.blobs = rows.blobs, rows'.uploads = rows.uploads,
             rows'.entries = rows.entries
      PROVE  TargetVault(rows') = TargetVault(rows)
  BY <1>2 DEF TargetVault, OwnedTarget, UnownedTarget, Associated, BlobVaults, LiveBlobs,
              EntryVaults
<1>3. CASE SaveRecord \/ MarkRemoved
  <2>1. CASE SaveRecord /\ rows' # rows
    <3>1. rows' = [rows EXCEPT !.record = job.id, !.sourceRemoved = FALSE]
      BY <2>1 DEF SaveRecord
    <3>2. /\ rows'.owner = rows.owner /\ rows'.blobs = rows.blobs /\ rows'.uploads = rows.uploads
          /\ rows'.entries = rows.entries
      BY <1>0, <3>1 DEF Rows
    <3>3. TargetVault(rows') = TargetVault(rows)
      BY <1>2, <3>2, Zenon
    <3> QED BY <3>3
  <2>2. CASE MarkRemoved /\ rows' # rows
    BY <1>0, <1>2, <2>2 DEF MarkRemoved, Rows
  <2> QED BY <1>1, <1>3, <2>1, <2>2
<1>4. CASE OpenService
  <2>1. CASE rows' # rows
    <3>1. Settle /\ rows' = Settled(rows)
      BY <1>4, <2>1 DEF OpenService
    <3>2. rows'.owner = rows.owner
      BY <3>1, SettledAddsOneBlob
    <3>3. Associated(rows') \subseteq Associated(rows) \cup {TargetVault(rows)}
      BY <3>1, SettledEvidence
    <3> QED BY <1>0, <3>2, <3>3, OwnerStays, UnownedStays
  <2> QED BY <1>1, <2>1
<1>5. ASSUME NEW v \in LiveVaults, RepairAgain(v), rows' # rows
      PROVE  TargetVault(rows') \in {NoVault, TargetVault(rows)}
  <2>1. rows' = OneEntry(rows, v) /\ v \in Vaults /\ rows.owner = v /\ v # NoVault
    BY <1>5, RepairAssumption DEF RepairAgain
  <2>2. rows'.owner = rows.owner
    BY <1>0, <2>1, OneEntryLeaves DEF SameButEntries
  <2> QED BY <2>1, <2>2, OwnerStays
<1>6. CASE SaveCandidate \/ SaveNamespace
  <2>1. CASE rows' # rows
    <3>1. job.at \in {"resealed", "placed"} /\ job.vault \in LiveVaults /\ job.vault # NoVault
      BY <1>6, RepairAssumption DEF SaveCandidate, SaveNamespace, Stage
    <3>2. job'.at \in {"placed", "named"} /\ job'.vault = job.vault
      BY <1>6, <2>1 DEF SaveCandidate, SaveNamespace, SaveOr, RepairTypeOK, Job
    <3>3. rows'.owner = job.vault
      <4>1. job.vault \in Vaults
        BY <3>1, RepairAssumption
      <4>2. CASE SaveCandidate
        <5> DEFINE r == [rows EXCEPT
                !.owner = job.vault,
                !.blobs = Tombstoned(@, 0) \cup {[id |-> job.id, vault |-> job.vault, live |-> TRUE]},
                !.uploads = @ \cap {job.vault},
                !.entries = [w \in Vaults |-> IF w # job.vault /\ rows.entries[w] = "live"
                                             THEN "trashed" ELSE rows.entries[w]]]
        <5>1. rows' = OneEntry(r, job.vault)
          BY <2>1, <4>2 DEF SaveCandidate, SaveOr, Candidate
        <5>2. r.owner = job.vault
          BY <1>0 DEF Rows
        <5> HIDE DEF r
        <5>3. OneEntry(r, job.vault).owner = r.owner
          BY DEF OneEntry, WithDefaults
        <5> QED BY <5>1, <5>2, <5>3
      <4>3. CASE SaveNamespace
        <5> DEFINE r == [rows EXCEPT !.owner = job.vault, !.blobs = Tombstoned(@, job.id),
                                     !.uploads = {}]
        <5>1. rows' = OneEntry(r, job.vault)
          BY <2>1, <4>3 DEF SaveNamespace, SaveOr, Named
        <5>2. r.owner = job.vault
          BY <1>0 DEF Rows
        <5> HIDE DEF r
        <5>3. OneEntry(r, job.vault).owner = r.owner
          BY DEF OneEntry, WithDefaults
        <5> QED BY <5>1, <5>2, <5>3
      <4> QED BY <1>6, <4>2, <4>3
    <3>4. TargetVault(rows') \in {job.vault, NoVault}
      BY <3>1, <3>3 DEF TargetVault, OwnedTarget
    <3> QED BY <3>1, <3>4
  <2> QED BY <1>1, <2>1
<1>7. CASE SaveInventory
  <2>1. CASE rows' # rows
    <3>1. rows'.owner = job.vault /\ rows.owner = job.vault /\ job.vault # NoVault
      BY <1>0, <1>7, <2>1, RepairAssumption DEF SaveInventory, Stage, Alone, Rows
    <3> QED BY <3>1, OwnerStays
  <2> QED BY <1>1, <2>1
<1>8. ASSUME NEW v \in LiveVaults, PeerBlob(v)
      PROVE  TargetVault(rows') \in {NoVault, TargetVault(rows)}
  <2> DEFINE blobs == rows.blobs \cup {[id |-> issued.blobs + 1, vault |-> v, live |-> TRUE]}
  <2>1. rows' = [rows EXCEPT !.blobs = blobs]
    BY <1>8 DEF PeerBlob
  <2>2. rows.blobs \subseteq blobs
    OBVIOUS
  <2> HIDE DEF blobs
  <2>3. /\ rows'.blobs = blobs /\ rows'.owner = rows.owner /\ rows'.uploads = rows.uploads
        /\ rows'.entries = rows.entries
    BY <1>0, <2>1 DEF Rows
  <2>4. Associated(rows) \subseteq Associated(rows')
    BY <2>2, <2>3 DEF Associated, BlobVaults, LiveBlobs, EntryVaults
  <2> QED BY <1>0, <2>3, <2>4, OwnerStays, UnownedStays
<1>9. ASSUME NEW v \in LiveVaults, TrashEntry(v) \/ RestoreEntry(v)
      PROVE  TargetVault(rows') \in {NoVault, TargetVault(rows)}
  <2>1. PICK from \in {"live", "trashed"}, to \in {"live", "trashed"} :
          /\ Settle /\ from # to /\ Settled(rows).entries[v] = from
          /\ rows' = [Settled(rows) EXCEPT !.entries[v] = to]
    BY <1>9 DEF TrashEntry, RestoreEntry, SetTrashed
  <2>2. Settled(rows) \in Rows /\ Settled(rows).owner = rows.owner /\ v \in Vaults
    BY <2>1, SettledAddsOneBlob, RepairAssumption
  <2>3. /\ rows'.owner = rows.owner /\ rows'.blobs = Settled(rows).blobs
        /\ rows'.uploads = Settled(rows).uploads
        /\ rows'.entries = [Settled(rows).entries EXCEPT ![v] = to]
    BY <2>1, <2>2 DEF Rows
  <2>4. BlobVaults(rows') = BlobVaults(Settled(rows))
    BY <2>3 DEF BlobVaults, LiveBlobs
  <2>5. CASE to = "live"
    <3>1. EntryVaults(Settled(rows)) \subseteq EntryVaults(rows')
      BY <2>2, <2>3, <2>5 DEF EntryVaults, Rows
    <3>2. Associated(rows) \subseteq Associated(rows')
      BY <2>1, <2>3, <2>4, <3>1, SettledEvidence DEF Associated
    <3> QED BY <1>0, <2>3, <3>2, OwnerStays, UnownedStays
  <2>6. CASE to = "trashed"
    <3>1. EntryVaults(rows') \subseteq EntryVaults(Settled(rows))
      BY <2>2, <2>3, <2>6 DEF EntryVaults, Rows
    <3>2. Associated(rows') \subseteq Associated(Settled(rows))
      BY <2>3, <2>4, <3>1 DEF Associated
    <3>3. Associated(rows') \subseteq Associated(rows) \cup {TargetVault(rows)}
      BY <2>1, <3>2, SettledEvidence
    <3> QED BY <1>0, <2>3, <3>3, OwnerStays, UnownedStays
  <2> QED BY <2>5, <2>6
<1> QED BY <1>1, <1>3, <1>4, <1>5, <1>6, <1>7, <1>8, <1>9
      DEF RepairNext, StartResolved, StartSeal, StartVerify, RemoveSource, RepairResume, RepairSeal,
          RetireObject, RetireKey, EditSource, RepairCrash

\* A repair loses no source, and nothing but a repair changes the vault of an
\* asset, whatever blobs, receipts and tree entries turn up or go.
THEOREM RepairMovesOnlyWhatItWasAsked == RepairSpec => NothingLostOrRehomed
<1> DEFINE Stays ==
      \/ TargetVault(rows) = NoVault \/ TargetVault(rows') \in {NoVault, TargetVault(rows)}
      \/ job.vault = TargetVault(rows') /\ job.at \in {"resealed", "placed"}
<1>1. RepairInv /\ [RepairNext]_repairVars => [Stays]_repairVars
  BY NextPreserves, StepsKeepTheVault
<1>2. RepairSpec => [][Stays]_repairVars
  BY <1>1, RepairInvariance, PTL DEF RepairSpec
<1> QED BY <1>2, NoSourceLost DEF NothingLostOrRehomed, NeverRehomed

-----------------------------------------------------------------------------
(* The repair implements Custody. *)

Place == Vaults \cup {"source", "quarantine"}

Quarantined == \E o \in Objects : Readable(o, store)

\* Who has a copy, place by place.
LEMMA CopiesByPlace ==
  /\ Copies \subseteq Place
  /\ \A v \in Vaults : v \in Copies <=> HeldIn(v)
  /\ "source" \in Copies <=> store.plain = "whole"
  /\ "quarantine" \in Copies <=> Quarantined
  BY RepairAssumption DEF Copies, Place, Quarantined

\* The same after a step.
LEMMA CopiesByPlaceNext ==
  /\ Copies' \subseteq Place
  /\ \A v \in Vaults : v \in Copies' <=> HeldIn(v)'
  /\ "source" \in Copies' <=> store'.plain = "whole"
  /\ "quarantine" \in Copies' <=> Quarantined'
  BY RepairAssumption DEF Copies, Place, Quarantined

\* The custodian has the bytes.
LEMMA CustodianHasThem == RepairInv => Custodian \in Copies
<1> SUFFICES ASSUME RepairInv PROVE Custodian \in Copies
  OBVIOUS
<1> USE DEF RepairInv
<1>1. CASE store.plain = "whole"
  BY <1>1, CopiesByPlace DEF Custodian
<1>2. CASE store.plain # "whole" /\ rows.record # 0 /\ Readable(rows.record, store)
  <2>1. rows.record \in Objects
    BY <1>2 DEF RepairTypeOK, Rows, Objects
  <2> QED BY <1>2, <2>1, CopiesByPlace DEF Custodian, Quarantined
<1>3. CASE store.plain # "whole" /\ ~(rows.record # 0 /\ Readable(rows.record, store))
  <2>1. Kept(rows.owner) /\ Custodian = rows.owner
    BY <1>3 DEF Keeper, Custodian
  <2>2. rows.owner \in Vaults /\ HeldIn(rows.owner)
    BY <2>1 DEF Kept, HeldIn, RepairTypeOK, Rows, BlobRecord
  <2> QED BY <2>1, <2>2, CopiesByPlace
<1> QED BY <1>1, <1>2, <1>3

\* The same after a step.
LEMMA CustodianHasThemNext == (RepairInv => Custodian \in Copies)'
  BY CustodianHasThem, PTL

\* A step that changes who has a copy in one place only is a step of Custody,
\* when the place that gets one does not become the custodian at once.
LEMMA OnePlaceMoves ==
  ASSUME RepairInv, RepairInv', NEW p \in Place,
         \A q \in Place \ {p} : q \in Copies' <=> q \in Copies,
         p \in Copies' /\ p \notin Copies => Custodian' = Custodian
  PROVE  C!CustodyNext
<1>1. Custodian' \in Copies'
  BY CustodianHasThemNext
<1>2. Copies \subseteq Place /\ Copies' \subseteq Place
  BY CopiesByPlace, CopiesByPlaceNext
<1>3. CASE p \in Copies' /\ p \notin Copies
  <2>1. Copies' = Copies \cup {p} /\ Custodian' = Custodian
    BY <1>2, <1>3
  <2>2. C!CopyTo(p)
    BY <2>1 DEF C!CopyTo
  <2> QED BY <2>2 DEF C!CustodyNext, Place
<1>4. CASE p \notin Copies'
  <2>1. Copies' = Copies \ {p}
    BY <1>2, <1>4
  <2>2. C!Release(p)
    BY <1>1, <2>1 DEF C!Release
  <2> QED BY <2>2 DEF C!CustodyNext, Place
<1>5. CASE p \in Copies' /\ p \in Copies
  <2>1. Copies' = Copies
    BY <1>2, <1>5
  <2>2. C!HandOver(Custodian')
    BY <1>1, <2>1 DEF C!HandOver
  <2> QED BY <1>1, <1>2, <2>2 DEF C!CustodyNext, Place
<1> QED BY <1>3, <1>4, <1>5

\* The vaults whose chunk files stay keep their copies: rows may be replaced by
\* rows with the same ids and vaults, and rows without files may be added.
LEMMA HeldAsBefore ==
  ASSUME store'.files = store.files, job.at # "resealed", job'.at # "resealed",
         \A b \in rows.blobs : \E c \in rows'.blobs : c.id = b.id /\ c.vault = b.vault,
         \A c \in rows'.blobs : \/ \E b \in rows.blobs : c.id = b.id /\ c.vault = b.vault
                                \/ c.id \notin store.files
  PROVE  \A v \in Vaults : HeldIn(v)' <=> HeldIn(v)
  BY DEF HeldIn

\* The bytes leave the source, or enter or leave the quarantine, and no vault
\* gets or loses a copy.
LEMMA SourceStepsHand ==
  ASSUME RepairInv, RepairInv',
         \/ StartResolved \/ StartSeal \/ SaveRecord \/ StartVerify \/ RemoveSource \/ MarkRemoved
         \/ EditSource \/ RetireObject \/ RetireKey
  PROVE  C!CustodyNext
<1> USE DEF RepairInv
<1>1. store \in Store /\ rows \in Rows /\ job \in Job
  BY DEF RepairTypeOK
<1>2. /\ store'.files = store.files /\ rows'.blobs = rows.blobs
      /\ job.at # "resealed" /\ job'.at # "resealed"
  <2>1. store'.files = store.files /\ rows'.blobs = rows.blobs
    BY <1>1 DEF Store, Rows, StartResolved, StartSeal, ObjectSealed, SaveRecord, StartVerify,
                RemoveSource, MarkRemoved, EditSource, RetireObject, RetireKey
  <2>2. job.at # "resealed"
    BY DEF StartResolved, StartSeal, SaveRecord, StartVerify, RemoveSource, MarkRemoved,
           EditSource, RetireObject, RetireKey
  <2>3. CASE StartSeal
    BY <2>1, <2>2, <2>3 DEF StartSeal, At
  <2>4. CASE StartResolved \/ SaveRecord \/ StartVerify \/ RemoveSource \/ MarkRemoved \/ EditSource
    BY <2>1, <2>2, <2>4 DEF StartResolved, SaveRecord, StartVerify, RemoveSource, MarkRemoved,
                      EditSource, At
  <2>5. CASE RetireObject \/ RetireKey
    BY <1>1, <2>1, <2>2, <2>5 DEF RetireObject, RetireKey, Reported, Job
  <2> QED BY <2>1, <2>2, <2>3, <2>4, <2>5
<1>3. \A v \in Vaults : HeldIn(v)' <=> HeldIn(v)
  BY <1>2, HeldAsBefore
<1>4. \A v \in Vaults : v \in Copies' <=> v \in Copies
  BY <1>3, CopiesByPlace, CopiesByPlaceNext
<1>5. CASE store'.objects = store.objects /\ store'.keys = store.keys
           /\ ("source" \in Copies' => "source" \in Copies)
  <2>1. Quarantined' <=> Quarantined
    BY <1>5 DEF Quarantined, Readable, KeyLoads
  <2>2. \A q \in Place \ {"source"} : q \in Copies' <=> q \in Copies
    BY <1>4, <2>1, CopiesByPlace, CopiesByPlaceNext DEF Place
  <2> QED BY <1>5, <2>2, OnePlaceMoves DEF Place
<1>6. CASE store'.plain = store.plain /\ (store.plain = "whole" \/ ~(Quarantined' /\ ~Quarantined))
  <2>1. \A q \in Place \ {"quarantine"} : q \in Copies' <=> q \in Copies
    BY <1>4, <1>6, CopiesByPlace, CopiesByPlaceNext DEF Place
  <2>2. "quarantine" \in Copies' /\ "quarantine" \notin Copies => Custodian' = Custodian
    BY <1>6, CopiesByPlace, CopiesByPlaceNext DEF Custodian
  <2> QED BY <2>1, <2>2, OnePlaceMoves DEF Place
<1>7. CASE StartResolved \/ StartVerify \/ RemoveSource \/ MarkRemoved \/ EditSource
  <2>1. store'.objects = store.objects /\ store'.keys = store.keys
        /\ (store'.plain = "whole" => store.plain = "whole")
    BY <1>1, <1>7 DEF Store, StartResolved, StartVerify, RemoveSource, MarkRemoved, EditSource
  <2> QED BY <1>5, <2>1, CopiesByPlace, CopiesByPlaceNext
<1>8. CASE StartSeal \/ SaveRecord
  <2>1. store'.plain = store.plain /\ (store.plain = "whole" \/ store' = store)
    BY <1>1, <1>8 DEF Store, StartSeal, ObjectSealed, SaveRecord, Stage
  <2>2. store' = store => (Quarantined' <=> Quarantined)
    BY DEF Quarantined, Readable, KeyLoads
  <2> QED BY <1>6, <2>1, <2>2
<1>9. CASE RetireObject \/ RetireKey
  <2>1. store'.plain = store.plain /\ store'.objects \subseteq store.objects
        /\ store'.keys \subseteq store.keys
    BY <1>1, <1>9 DEF Store, RetireObject, RetireKey
  <2>2. Quarantined' => Quarantined
    BY <2>1 DEF Quarantined, Readable, KeyLoads
  <2> QED BY <1>6, <2>1, <2>2
<1> QED BY <1>7, <1>8, <1>9

\* A step that leaves the source and the quarantine alone is a step of Custody
\* when at most one vault gets or loses a copy, and the owner is the same when
\* it gets one.
LEMMA OneVaultMoves ==
  ASSUME RepairInv, RepairInv', NEW p \in Vaults,
         store'.plain = store.plain, store'.objects = store.objects, store'.keys = store.keys,
         \A v \in Vaults \ {p} : HeldIn(v)' <=> HeldIn(v),
         HeldIn(p)' /\ ~HeldIn(p) => rows'.owner = rows.owner /\ rows'.record = rows.record
  PROVE  C!CustodyNext
<1>1. Quarantined' <=> Quarantined
  BY DEF Quarantined, Readable, KeyLoads
<1>2. \A q \in Place \ {p} : q \in Copies' <=> q \in Copies
  BY <1>1, CopiesByPlace, CopiesByPlaceNext DEF Place
<1>3. p \in Copies' /\ p \notin Copies => Custodian' = Custodian
  BY CopiesByPlace, CopiesByPlaceNext DEF Custodian, Readable, KeyLoads
<1> QED BY <1>2, <1>3, OnePlaceMoves DEF Place

\* Saves that add no chunk file: the vaults that have the bytes stay the same.
LEMMA RowStepsHand ==
  ASSUME RepairInv, RepairInv',
         \/ OpenService \/ SaveNamespace \/ SaveInventory
         \/ \E v \in LiveVaults : \/ RepairAgain(v) \/ RepairResume(v)
                                  \/ TrashEntry(v) \/ RestoreEntry(v)
  PROVE  C!CustodyNext
<1> USE DEF RepairInv
<1>0. store' = store /\ rows \in Rows /\ rows' \in Rows /\ job \in Job
  BY DEF RepairTypeOK, OpenService, SaveNamespace, SaveInventory, RepairAgain,
     RepairResume, TrashEntry, RestoreEntry, SetTrashed
<1>1. job.at # "resealed" /\ job'.at # "resealed"
  <2>1. CASE OpenService
    BY <2>1 DEF OpenService, At
  <2>2. CASE SaveNamespace \/ SaveInventory
    BY <1>0, <2>2 DEF SaveNamespace, SaveOr, SaveInventory, Reported, Job
  <2>3. ASSUME NEW v \in LiveVaults,
               RepairAgain(v) \/ RepairResume(v) \/ TrashEntry(v) \/ RestoreEntry(v)
        PROVE  job.at # "resealed" /\ job'.at # "resealed"
    <3>1. CASE RepairAgain(v)
      BY <3>1 DEF RepairAgain, Reported
    <3>2. CASE RepairResume(v)
      BY <3>2 DEF RepairResume, At
    <3>3. CASE TrashEntry(v) \/ RestoreEntry(v)
      BY <3>3 DEF TrashEntry, RestoreEntry, SetTrashed, At
    <3> QED BY <2>3, <3>1, <3>2, <3>3
  <2> QED BY <2>1, <2>2, <2>3
<1>2. /\ \A b \in rows.blobs : \E c \in rows'.blobs : c.id = b.id /\ c.vault = b.vault
      /\ \A c \in rows'.blobs : \/ \E b \in rows.blobs : c.id = b.id /\ c.vault = b.vault
                                \/ c.id \notin store.files
  <2>1. CASE rows'.blobs = rows.blobs
    BY <2>1
  <2>2. CASE rows'.blobs # rows.blobs /\ rows'.blobs = Settled(rows).blobs /\ Settle
    <3>1. /\ rows'.blobs = rows.blobs \cup {[id |-> issued.blobs + 1, vault |-> TargetVault(rows),
                                             live |-> TRUE]}
      BY <2>2, SettledAddsOneBlob
    <3>2. issued.blobs + 1 \notin store.files
      BY DEF RepairTypeOK, FreshIds, Store, BlobIds
    <3> QED BY <3>1, <3>2
  <2>3. CASE OpenService
    BY <2>1, <2>2, <2>3 DEF OpenService
  <2>4. ASSUME NEW v \in LiveVaults, TrashEntry(v) \/ RestoreEntry(v)
        PROVE  rows'.blobs = Settled(rows).blobs /\ Settle
    <3>1. PICK to \in {"live", "trashed"} : Settle /\ rows' = [Settled(rows) EXCEPT !.entries[v] = to]
      BY <2>4 DEF TrashEntry, RestoreEntry, SetTrashed
    <3>2. Settled(rows) \in Rows
      BY <3>1, SettledAddsOneBlob
    <3> QED BY <3>1, <3>2 DEF Rows
  <2>5. ASSUME NEW v \in LiveVaults, RepairAgain(v) \/ RepairResume(v)
        PROVE  rows'.blobs = rows.blobs
    <3>1. v \in Vaults
      BY RepairAssumption
    <3>2. rows' = rows \/ rows' = OneEntry(rows, v)
      BY <2>5 DEF RepairAgain, RepairResume
    <3>3. OneEntry(rows, v).blobs = rows.blobs
      BY <1>0, <3>1, OneEntryLeaves DEF SameButEntries
    <3> QED BY <3>2, <3>3
  <2>6. CASE SaveInventory
    BY <1>0, <2>1, <2>6 DEF SaveInventory, Rows
  <2>7. CASE SaveNamespace /\ rows' # rows
    <3> DEFINE blobs == Tombstoned(rows.blobs, job.id)
               r == [rows EXCEPT !.owner = job.vault, !.blobs = blobs, !.uploads = {}]
    <3>1. rows' = OneEntry(r, job.vault)
      BY <2>7 DEF SaveNamespace, SaveOr, Named
    <3>2. r.blobs = blobs
      BY <1>0 DEF Rows
    <3> HIDE DEF r
    <3>3. OneEntry(r, job.vault).blobs = r.blobs
      BY DEF OneEntry, WithDefaults
    <3>4. rows'.blobs = Tombstoned(rows.blobs, job.id)
      BY <3>1, <3>2, <3>3
    <3> QED BY <3>4, TombstonesKeep
  <2> QED BY <2>1, <2>2, <2>3, <2>4, <2>5, <2>6, <2>7
<1>3. \A v \in Vaults : HeldIn(v)' <=> HeldIn(v)
  BY <1>0, <1>1, <1>2, HeldAsBefore
<1>4. Quarantined' <=> Quarantined
  BY <1>0 DEF Quarantined, Readable, KeyLoads
<1>5. \A q \in Place : q \in Copies' <=> q \in Copies
  BY <1>0, <1>3, <1>4, CopiesByPlace, CopiesByPlaceNext DEF Place
<1> QED BY <1>5, OnePlaceMoves DEF Place

\* Steps that add a blob to a vault, and the crash that forgets one.
LEMMA BlobStepsHand ==
  ASSUME RepairInv, RepairInv',
         RepairCrash \/ SaveCandidate \/ \E v \in LiveVaults : RepairSeal(v) \/ PeerBlob(v)
  PROVE  C!CustodyNext
<1> USE DEF RepairInv
<1>0. store \in Store /\ rows \in Rows /\ job \in Job /\ LiveVaults \subseteq Vaults
  BY RepairAssumption DEF RepairTypeOK
<1>1. CASE RepairCrash
  <2>1. UNCHANGED <<rows, store>> /\ job'.at = "down"
    BY <1>1 DEF RepairCrash, At
  <2>2. \A v \in Vaults : v # job.vault => (HeldIn(v)' <=> HeldIn(v))
    BY <2>1 DEF HeldIn
  <2>3. \A v \in Vaults : HeldIn(v)' => HeldIn(v)
    BY <2>1 DEF HeldIn
  <2>4. Quarantined' <=> Quarantined
    BY <2>1 DEF Quarantined, Readable, KeyLoads
  <2>5. \A q \in Place \ {job.vault} : q \in Copies' <=> q \in Copies
    BY <2>1, <2>2, <2>4, CopiesByPlace, CopiesByPlaceNext DEF Place
  <2>6. Copies' \subseteq Copies
    BY <2>1, <2>3, <2>4, CopiesByPlace, CopiesByPlaceNext DEF Place
  <2>7. CASE job.vault \in Place
    BY <2>5, <2>6, <2>7, OnePlaceMoves
  <2>8. CASE job.vault \notin Place
    BY <2>5, <2>6, <2>8, OnePlaceMoves DEF Place
  <2> QED BY <2>7, <2>8
<1>2. CASE SaveCandidate
  <2> DEFINE v == job.vault
             new == [id |-> job.id, vault |-> v, live |-> TRUE]
             blobs == Tombstoned(rows.blobs, 0) \cup {new}
  <2>1. /\ UNCHANGED store /\ job.at = "resealed" /\ v \in Vaults /\ job.id \in store.files
        /\ job'.at # "resealed"
    BY <1>0, <1>2 DEF SaveCandidate, SaveOr, Stage, Reported, Job
  <2>2. HeldIn(v)
    BY <2>1 DEF HeldIn
  <2>3. \A w \in Vaults \ {v} : HeldIn(w)' <=> HeldIn(w)
    <3>1. CASE rows' = rows
      BY <2>1, <3>1 DEF HeldIn
    <3>2. CASE rows' # rows
      <4> DEFINE r == [rows EXCEPT
              !.owner = v, !.blobs = blobs, !.uploads = @ \cap {v},
              !.entries = [w \in Vaults |-> IF w # v /\ rows.entries[w] = "live"
                                           THEN "trashed" ELSE rows.entries[w]]]
      <4>1. rows' = OneEntry(r, v)
        BY <1>2, <3>2 DEF SaveCandidate, SaveOr, Candidate
      <4>2. r.blobs = blobs
        BY <1>0 DEF Rows
      <4> HIDE DEF r
      <4>3. OneEntry(r, v).blobs = r.blobs
        BY DEF OneEntry, WithDefaults
      <4>4. \A b \in rows'.blobs : b = new \/ b \in Tombstoned(rows.blobs, 0)
        BY <4>1, <4>2, <4>3
      <4>5. Tombstoned(rows.blobs, 0) \subseteq rows'.blobs
        BY <4>1, <4>2, <4>3
      <4>6. new.vault = v
        OBVIOUS
      <4> HIDE DEF new
      <4> QED BY <2>1, <4>4, <4>5, <4>6, TombstonesKeep DEF HeldIn
    <3> QED BY <3>1, <3>2
  <2> QED BY <2>1, <2>2, <2>3, OneVaultMoves
<1>3. ASSUME NEW v \in LiveVaults, RepairSeal(v) PROVE C!CustodyNext
  <2> DEFINE id == issued.blobs + 1
  <2>1. /\ store'.files \in {store.files, store.files \cup {id}} /\ rows' = rows
        /\ store'.plain = store.plain /\ store'.objects = store.objects /\ store'.keys = store.keys
        /\ job.at # "resealed" /\ job'.vault = v
    <3>1. CASE UNCHANGED store /\ job' = Reported("error", v)
      BY <1>3, <3>1 DEF RepairSeal, Reported
    <3>2. CASE /\ store' = [store EXCEPT !.files = @ \cup {id}]
               /\ job' = [At("resealed") EXCEPT !.vault = v, !.id = id]
      BY <1>0, <1>3, <3>2 DEF RepairSeal, Store, At
    <3> QED BY <1>3, <3>1, <3>2 DEF RepairSeal
  <2>2. \A b \in rows.blobs : b.id # id
    BY <1>0 DEF RepairTypeOK, FreshIds, Rows, BlobRecord, BlobIds
  <2>3. \A w \in Vaults \ {v} : HeldIn(w)' <=> HeldIn(w)
    BY <2>1, <2>2 DEF HeldIn
  <2>4. rows'.owner = rows.owner /\ rows'.record = rows.record /\ v \in Vaults
    BY <1>0, <2>1
  <2> QED BY <2>1, <2>3, <2>4, OneVaultMoves
<1>4. ASSUME NEW v \in LiveVaults, PeerBlob(v) PROVE C!CustodyNext
  <2> DEFINE id == issued.blobs + 1
             new == [id |-> id, vault |-> v, live |-> TRUE]
             blobs == rows.blobs \cup {new}
  <2>1. rows' = [rows EXCEPT !.blobs = blobs] /\ job.at # "resealed" /\ job'.at # "resealed"
    BY <1>4 DEF PeerBlob, At
  <2>2. \A b \in blobs : b \in rows.blobs \/ b = new
    OBVIOUS
  <2>3. rows.blobs \subseteq blobs
    OBVIOUS
  <2>4. new.vault = v
    OBVIOUS
  <2> HIDE DEF blobs, new
  <2>5. rows'.blobs = blobs /\ rows'.owner = rows.owner /\ rows'.record = rows.record
    BY <1>0, <2>1 DEF Rows
  <2>6. /\ store'.files \in {store.files, store.files \cup {id}} /\ store'.plain = store.plain
        /\ store'.objects = store.objects /\ store'.keys = store.keys
    BY <1>0, <1>4 DEF PeerBlob, Store
  <2>7. \A b \in rows.blobs : b.id # id
    BY <1>0 DEF RepairTypeOK, FreshIds, Rows, BlobRecord, BlobIds
  <2>8. \A w \in Vaults \ {v} : HeldIn(w)' <=> HeldIn(w)
    BY <2>1, <2>2, <2>3, <2>4, <2>5, <2>6, <2>7 DEF HeldIn
  <2> QED BY <1>0, <2>5, <2>6, <2>8, OneVaultMoves
<1> QED BY <1>1, <1>2, <1>3, <1>4

\* Quarantine and repair implement Custody: the bytes of an original always
\* have a custodian that can read them, and each step of the daemon, each
\* failed step and each crash copies them, hands them over or lets them go in
\* one place.
THEOREM RepairImplementsCustody == RepairSpec => Handed
<1>1. ASSUME RepairInit PROVE C!CustodyInit
  <2>1. RepairInv
    BY <1>1, InitEstablishes
  <2> QED BY <2>1, CustodianHasThem, CopiesByPlace DEF C!CustodyInit, Place
<1>2. ASSUME RepairInv, RepairInv', [RepairNext]_repairVars
      PROVE  [C!CustodyNext]_<<Custodian, Copies>>
  <2>1. CASE UNCHANGED repairVars
    BY <2>1 DEF repairVars, Custodian, Copies, HeldIn, Readable, KeyLoads
  <2>2. CASE RepairNext
    BY <1>2, <2>2, SourceStepsHand, RowStepsHand, BlobStepsHand DEF RepairNext
  <2> QED BY <1>2, <2>1, <2>2
<1> QED BY <1>1, <1>2, RepairInvariance, PTL DEF RepairSpec, Handed, C!CustodySpec
=============================================================================
