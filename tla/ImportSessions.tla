--------------------------- MODULE ImportSessions ---------------------------
(***************************************************************************)
(* Imports from a folder.  A scan lists the files with their checksums; the*)
(* user reviews the list and commits a selection, perhaps much later: files*)
(* change, other sessions and direct imports are committed in between.     *)
(*                                                                         *)
(* What sealing does to the plaintext is in OriginalStore: here the policy *)
(* keeps it.  An asset stays in the vault it was imported to.              *)
(***************************************************************************)
EXTENDS FiniteSets, Integers, Sequences, Functions, Sorting

CONSTANTS
    Paths,                    \* files of the folder, in the order of a scan
    NameOrder,                \* NameOrder[p]: the order of p by its name alone
    Bytes,                    \* what a file can hold; its checksum names it
    Into,                     \* vaults
    Modes,                    \* import modes used, \subseteq {"Copy", "Move", "Reference"}
    MaxImportCalls, MaxTaken, MaxEdits, MaxImportFaults   \* bounds; asset ids are 1..MaxTaken

ASSUME ImportAssumption ==
    /\ IsFiniteSet(Paths) /\ Paths \subseteq Nat /\ IsFiniteSet(Bytes)
    /\ NameOrder \in [Paths -> Nat]
    /\ IsFiniteSet(Into) /\ 0 \notin Into /\ 0 \notin Bytes
    /\ Modes \subseteq {"Copy", "Move", "Reference"}
    /\ {MaxImportCalls, MaxTaken, MaxEdits, MaxImportFaults} \subseteq Nat

VARIABLES
    folder,       \* folder[p]: what the user's file holds, Nothing if it is not there
    managed,      \* managed[id]: the file assets/<id>/original/ of the library
    imports,      \* assets and sessions in memory
    importRows,   \* the same in the database
    taken, importCalls, edits, importFaults

importVars == <<folder, managed, imports, importRows, taken, importCalls, edits, importFaults>>

Nothing == 0

AssetIn(lib, vault, hash) == {a \in lib.assets : a.vault = vault /\ a.hash = hash}

\* schema.sql: UNIQUE(vault_id, content_hash) of assets.
ImportsFit(lib) ==
    \A a, b \in lib.assets : a.vault = b.vault /\ a.hash = b.hash => a = b

ImportInit ==
    /\ folder \in [Paths -> Bytes] /\ managed = [id \in 1..MaxTaken |-> Nothing]
    /\ imports = [assets |-> {}, sessions |-> <<>>]
    /\ importRows = imports /\ taken = 0 /\ importCalls = 0 /\ edits = 0 /\ importFaults = 0

Call == importCalls < MaxImportCalls /\ importCalls' = importCalls + 1
Fault == importFaults < MaxImportFaults /\ importFaults' = importFaults + 1

SaveImports(lib) ==
    /\ imports' = lib
    /\ \/ ImportsFit(lib) /\ importRows' = lib /\ UNCHANGED importFaults
       \/ Fault /\ UNCHANGED importRows

\* The user writes, replaces or removes a file.
Edited(p, content) ==
    /\ edits < MaxEdits /\ edits' = edits + 1 /\ folder[p] # content
    /\ folder' = [folder EXCEPT ![p] = content]
    /\ UNCHANGED <<managed, imports, importRows, taken, importCalls, importFaults>>

-----------------------------------------------------------------------------
DuplicateOf(lib, vault, hash) ==
    IF AssetIn(lib, vault, hash) = {} THEN 0 ELSE (CHOOSE a \in AssetIn(lib, vault, hash) : TRUE).id

(* collect_media_files and scan_source: every file there, with the asset   *)
(* of the target vault that has its checksum.  Without a target, none has. *)
collect_media_files == Ascending({p \in Paths : folder[p] # Nothing})

scan_source(vault, mode) ==
    [target |-> vault, mode |-> mode, status |-> "scanned",
     imported |-> {}, skipped |-> <<>>, failed |-> {},
     candidates |-> [n \in DOMAIN collect_media_files |->
        LET p == collect_media_files[n]
        IN [path |-> p, hash |-> folder[p], selected |-> TRUE,
            duplicate |-> DuplicateOf(imports, vault, folder[p])]]]

OnlyVault(vault) == IF vault = 0 /\ Cardinality(Into) = 1 THEN CHOOSE v \in Into : TRUE ELSE vault

scan_import_source(vault, mode) ==
    /\ Call
    /\ SaveImports([imports EXCEPT !.sessions =
                       Append(@, scan_source(OnlyVault(vault), mode))])
    /\ UNCHANGED <<folder, managed, taken, edits>>

-----------------------------------------------------------------------------
(* One selected candidate after the other, on a copy of the session.  `run`*)
(* carries the files, what the vault is known to have, and the new assets. *)
KnownHashes(lib, vault) == {a.hash : a \in {b \in lib.assets : b.vault = vault}}
\* Fault: what this commit imported is not known to the rest of it.
NotLearned(known, hash) == known
Learned(known, hash) == known \cup {hash}

\* Fault: the file is not read again before it moves.
Unchecked(file, candidate) == TRUE
HashedAgain(file, candidate) == file = candidate.hash

Skipped(run, n, id) ==
    [run EXCEPT !.session.candidates[n].duplicate = id, !.session.skipped = Append(@, id)]

\* build_imported_asset: a path of its own in the library for every asset.
Asset(run, n, vault, mode) ==
    [id |-> run.taken + 1, vault |-> vault, hash |-> run.session.candidates[n].hash,
     mode |-> mode, path |-> run.session.candidates[n].path, sealed |-> Nothing]

Taken(run, n, vault, mode, filed) ==
    [run EXCEPT !.taken = @ + 1, !.known = Learned(@, run.session.candidates[n].hash),
                !.new = @ \cup {Asset(run, n, vault, mode)},
                !.session.imported = @ \cup {run.taken + 1},
                !.managed[run.taken + 1] = filed]

(* safely_move_candidate: the file must still hash to what was scanned.    *)
(* A sidecar that cannot be moved fails the candidate when its file has    *)
(* been moved already.                                                     *)
Moved(run, n, vault, stuck) ==
    LET c == run.session.candidates[n]
        file == run.folder[c.path]
        failed == [run EXCEPT !.session.failed = @ \cup {c.path}]
    IN IF file = Nothing \/ ~HashedAgain(file, c) THEN failed
       ELSE IF c.path \in stuck
            THEN [failed EXCEPT !.folder[c.path] = Nothing, !.managed[run.taken + 1] = file, !.taken = @ + 1]
            ELSE [Taken(run, n, vault, "Move", file) EXCEPT !.folder[c.path] = Nothing]

Candidate(run, n, vault, mode, stuck) ==
    LET c == run.session.candidates[n]
        same == AssetIn([assets |-> imports.assets \cup run.new], vault, c.hash)
    IN IF ~c.selected \/ run.stopped THEN run
       ELSE IF c.duplicate # 0 THEN Skipped(run, n, c.duplicate)
       ELSE IF c.hash \in run.known THEN Skipped(run, n, (CHOOSE a \in same : TRUE).id)
       ELSE CASE mode = "Move" -> Moved(run, n, vault, stuck)
              [] mode = "Copy" -> IF run.folder[c.path] = Nothing THEN [run EXCEPT !.stopped = TRUE]
                                  ELSE Taken(run, n, vault, mode, run.folder[c.path])
              [] mode = "Reference" -> Taken(run, n, vault, mode, Nothing)

AfterCandidates(start, vault, mode, stuck) ==
    LET after[n \in 0..Len(start.session.candidates)] ==
            IF n = 0 THEN start ELSE Candidate(after[n - 1], n, vault, mode, stuck)
    IN after[Len(start.session.candidates)]

\* asset_file_path, and what blob_needs_local_seal lets be sealed.
FileOf(a, files, own) == IF a.mode = "Reference" THEN own[a.path] ELSE files[a.id]
ToSeal(lib, files, own) == {a \in lib.assets : a.sealed = Nothing /\ FileOf(a, files, own) # Nothing}

(* refresh_blob_records: everything that can be is sealed, but what fails; *)
(* rollback_failed_seal_plaintext takes a copy whose source is still there.*)
AfterRefresh(lib, files, own, unsealed) ==
    [lib |-> [lib EXCEPT !.assets =
        {IF a \in ToSeal(lib, files, own) \ unsealed
         THEN [a EXCEPT !.sealed = FileOf(a, files, own)] ELSE a : a \in @}],
     files |-> [id \in DOMAIN files |->
        IF \E a \in unsealed : a.id = id /\ a.mode = "Copy" /\ own[a.path] # Nothing
        THEN Nothing ELSE files[id]]]

\* The target that was scanned stays; without one the call or the only vault decides.
Target(session, vault) == IF vault # 0 THEN vault ELSE OnlyVault(session.target)

(* commit_import_session: the loop may stop at a file that cannot be copied*)
(* and leave what it copied behind; a refresh that cannot seal leaves the  *)
(* new assets in memory, the session as scanned, and saves nothing.        *)
commit_import_session(s, vault, chosen, mode, stuck) ==
    LET scanned == imports.sessions[s]
        target == Target(scanned, vault)
        picked == {n \in DOMAIN scanned.candidates : scanned.candidates[n].path \in chosen}
        session == [scanned EXCEPT !.target = target, !.mode = mode, !.imported = {}, !.skipped = <<>>,
                      !.failed = {}, !.candidates = [n \in DOMAIN @ |-> [@[n] EXCEPT !.selected = n \in picked]]]
        start == [session |-> session, folder |-> folder, managed |-> managed, taken |-> taken,
                  known |-> KnownHashes(imports, target), new |-> {}, stopped |-> FALSE]
        run == AfterCandidates(start, target, mode, stuck)
        lib == [imports EXCEPT !.assets = @ \cup run.new]
    IN /\ Call /\ (scanned.target \in {0, vault} \/ vault = 0)
       /\ target # 0 /\ chosen # {} /\ taken + Cardinality(picked) <= MaxTaken
       /\ mode = "Move" => \E n \in picked : scanned.candidates[n].duplicate = 0
       /\ folder' = run.folder /\ taken' = run.taken /\ UNCHANGED edits
       /\ IF run.stopped
          THEN managed' = run.managed /\ UNCHANGED <<imports, importRows, importFaults>>
          ELSE \E unsealed \in SUBSET ToSeal(lib, run.managed, run.folder) :
                 LET r == AfterRefresh(lib, run.managed, run.folder, unsealed)
                 IN /\ managed' = r.files
                    /\ IF unsealed # {} THEN Fault /\ imports' = r.lib /\ UNCHANGED importRows
                       ELSE SaveImports([r.lib EXCEPT
                               !.sessions[s] = [run.session EXCEPT !.status = "committed"]])

(* One file, its checksum taken now; no move.                              *)
import_asset(p, vault, mode) ==
    LET a == [id |-> taken + 1, vault |-> vault, hash |-> folder[p], mode |-> mode,
              path |-> p, sealed |-> Nothing]
        files == IF mode = "Copy" THEN [managed EXCEPT ![a.id] = folder[p]] ELSE managed
        lib == [imports EXCEPT !.assets = @ \cup {a}]
    IN /\ Call /\ mode # "Move" /\ folder[p] # Nothing /\ taken < MaxTaken
       /\ AssetIn(imports, vault, folder[p]) = {} /\ taken' = taken + 1
       /\ \E unsealed \in SUBSET ToSeal(lib, files, folder) :
             LET r == AfterRefresh(lib, files, folder, unsealed)
             IN /\ managed' = r.files
                /\ IF unsealed # {} THEN Fault /\ imports' = r.lib /\ UNCHANGED importRows
                   ELSE SaveImports(r.lib)
       /\ UNCHANGED <<folder, edits>>

(* load_import_sessions: the candidates come back in the order of their    *)
(* names, whatever folder they are in.                                     *)
load_import_sessions(rows) ==
    [s \in DOMAIN rows.sessions |->
        [rows.sessions[s] EXCEPT !.candidates =
            SortedBy(Range(@), [c \in Range(@) |-> NameOrder[c.path]])]]

\* The daemon starts again: it seals what it can, and saves.
RestartImports ==
    /\ Fault
    /\ \E unsealed \in SUBSET ToSeal(importRows, managed, folder) :
          LET loaded == [importRows EXCEPT !.sessions = load_import_sessions(importRows)]
              r == AfterRefresh(loaded, managed, folder, unsealed)
          IN imports' = r.lib /\ importRows' = r.lib /\ managed' = r.files
    /\ UNCHANGED <<folder, taken, importCalls, edits>>

ImportNext ==
    \/ \E p \in Paths, content \in Bytes \cup {Nothing} : Edited(p, content)
    \/ \E vault \in Into \cup {0}, mode \in Modes : scan_import_source(vault, mode)
    \/ \E s \in DOMAIN imports.sessions, vault \in Into \cup {0}, chosen, stuck \in SUBSET Paths, mode \in Modes :
          stuck \subseteq (IF mode = "Move" THEN chosen ELSE {}) /\ commit_import_session(s, vault, chosen, mode, stuck)
    \/ \E p \in Paths, vault \in Into, mode \in Modes : import_asset(p, vault, mode)
    \/ RestartImports

ImportSpec == ImportInit /\ [][ImportNext]_importVars
-----------------------------------------------------------------------------
(* No vault has the same content twice in memory, however often files are  *)
(* scanned, sessions committed (again, or after a refused commit left its  *)
(* assets behind) and files imported one by one: otherwise every later save*)
(* of anything would be refused by UNIQUE(vault_id, content_hash).         *)
ImportedOnce == ImportsFit(imports)

(* duplicate_review_summary: per asset, the selected candidates of         *)
(* committed sessions that were left out as its duplicates.                *)
duplicate_review_summary(lib) ==
    LET left_out == {at \in (DOMAIN lib.sessions) \X (1..Cardinality(Paths)) :
            LET session == lib.sessions[at[1]]
            IN /\ session.status = "committed" /\ at[2] \in DOMAIN session.candidates
               /\ session.candidates[at[2]].selected /\ session.candidates[at[2]].duplicate # 0}
        Original(at) == lib.sessions[at[1]].candidates[at[2]].duplicate
    IN [id \in {Original(at) : at \in left_out} |-> Cardinality({at \in left_out : Original(at) = id})]

(* A committed session accounts for its selection: every candidate it was  *)
(* asked for was imported, skipped or failed; what it imported and what it *)
(* names as duplicate is in its vault, in memory and in the database, and  *)
(* the review of duplicates counts what the sessions say they skipped.     *)
SessionsAddUp ==
    \A lib \in {imports, importRows} : \A s \in DOMAIN lib.sessions :
        LET session == lib.sessions[s]
            In(id, hash) == \E a \in lib.assets : a.id = id /\ a.vault = session.target /\ a.hash = hash
        IN /\ \A n \in DOMAIN session.candidates :
                 LET c == session.candidates[n] IN c.duplicate # 0 => In(c.duplicate, c.hash)
           /\ session.status = "committed" =>
                 /\ \A id \in session.imported : \E a \in lib.assets : a.id = id /\ a.vault = session.target
                 /\ Cardinality(session.imported) + Len(session.skipped) + Cardinality(session.failed)
                       = Cardinality({n \in DOMAIN session.candidates : session.candidates[n].selected})
                 /\ \A id \in Range(session.skipped) : id \in DOMAIN duplicate_review_summary(lib)

(* Nothing is imported twice, and the sessions account for what was.       *)
ImportsAddUp == ImportedOnce /\ SessionsAddUp

(* The asset of a moved file, of which the user has no other copy, holds   *)
(* what its checksum names, and its seal too, though the file may have been*)
(* written between scan and commit (safely_move_candidate).                *)
MovedAsNamed ==
    \A a \in imports.assets \cup importRows.assets :
        a.mode = "Move" => managed[a.id] = a.hash /\ a.sealed \in {Nothing, a.hash}

(* The same of every asset a committed session imported: the asset is what *)
(* its checksum says (docs/production-slo-sli.md, local import integrity). *)
ImportedAsNamed ==
    \A s \in DOMAIN imports.sessions : \A a \in imports.assets :
        a.id \in imports.sessions[s].imported => a.sealed \in {Nothing, a.hash}
=============================================================================
