------------------------------ MODULE FileTree ------------------------------
(***************************************************************************)
(* The file tree of the vaults: folders and files with a parent, a trash   *)
(* mark instead of removal, and entries made for assets by imports, by     *)
(* completed uploads and by the defaults every handler applies first.  An  *)
(* asset is shown in a vault only when all that is known of it (its owner, *)
(* blob rows, upload receipts and live entries) names that vault alone.    *)
(***************************************************************************)
EXTENDS FiniteSets, Integers

CONSTANTS
    TreeVaults,   \* 1..n, in the order they were created
    TreeAssets, OldAsset, Folders, Names,
    MaxTreeCalls, MaxTreeFaults

ASSUME TreeAssumption ==
    /\ IsFiniteSet(TreeVaults) /\ TreeVaults = 1..Cardinality(TreeVaults) /\ TreeVaults # {}
    /\ IsFiniteSet(TreeAssets) /\ OldAsset \in TreeAssets /\ IsFiniteSet(Folders) /\ Names # {}
    /\ MaxTreeCalls \in Nat /\ MaxTreeFaults \in Nat

VARIABLES
    tree,        \* entries, assets, their owners, blob rows and upload receipts, in memory
    treeRows,    \* the same in the database
    inQuarantine, \* assets a start could not place: sealed apart until a repair
    serving,     \* the daemon has started on this library
    treeCalls, treeFaults

treeVars == <<tree, treeRows, inQuarantine, serving, treeCalls, treeFaults>>

Unowned == 0
Root(v) == <<"root", v, 0>>
EntryOf(v, a) == <<"file", v, a>>
Top == <<"none", 0, 0>>
IsRoot(x) == x[1] = "root"
IsFolder(x) == x[1] # "file"
VaultOf(x) == x[2]
FileName == CHOOSE n \in Names : TRUE
EntryAt(p, n) == [parent |-> p, name |-> n, trashed |-> FALSE]

With(f, x, e) == [y \in DOMAIN f \cup {x} |-> IF y = x THEN e ELSE f[y]]

(* ancestor_file_entry_ids and descendant_file_entry_ids.                  *)
ancestor_file_entry_ids(f, x) ==
    LET up[n \in 0..Cardinality(DOMAIN f)] ==
            IF n = 0 THEN {f[x].parent} \cap DOMAIN f
            ELSE up[n - 1] \cup ({f[y].parent : y \in up[n - 1]} \cap DOMAIN f)
    IN up[Cardinality(DOMAIN f)]

descendant_file_entry_ids(f, x) == {y \in DOMAIN f : x \in ancestor_file_entry_ids(f, y)}

(***************************************************************************)
(* target_vault_for_asset: conflicting evidence resolves to no vault, and  *)
(* an asset nothing is known of to the only vault, if there is only one.   *)
(***************************************************************************)
EvidenceOf(t, a) ==
    {v \in TreeVaults : \/ <<v, a>> \in t.blobs \cup t.receipts
                        \/ EntryOf(v, a) \in DOMAIN t.entries /\ ~t.entries[EntryOf(v, a)].trashed}

Named(t, a) == EvidenceOf(t, a) \cup ({t.owner[a]} \ {Unowned})

\* Fault: an asset nothing is known of goes to the first of several vaults.
FirstVaultOtherwise(t, a) ==
    LET named == IF Named(t, a) = {} THEN {1} ELSE Named(t, a)
    IN IF Cardinality(named) = 1 THEN named ELSE {}

target_vault_for_asset(t, a) ==
    LET named == IF Named(t, a) = {} THEN TreeVaults ELSE Named(t, a)
    IN IF Cardinality(named) = 1 THEN named ELSE {}

(* refresh_blob_records gives every asset that has a vault a blob row there. *)
refresh_rows(t) ==
    [t EXCEPT !.blobs = @ \cup UNION {target_vault_for_asset(t, a) \X {a} : a \in t.assets}]

HasEntry(t, v, a) == EntryOf(v, a) \in DOMAIN t.entries

Granted(t, v, a) == EvidenceOf(t, a) \subseteq {v} /\ (<<v, a>> \in t.receipts \/ TreeVaults = {v})

(***************************************************************************)
(* ensure_file_namespace_defaults: roots, and entries for blob rows that   *)
(* have none, trashed or not, provided that an upload into that vault or   *)
(* the lack of any other vault vouches for them.                           *)
(***************************************************************************)
ensure_file_namespace_defaults(t) ==
    LET roots == {Root(v) : v \in TreeVaults} \ DOMAIN t.entries
        rows == {EntryOf(b[1], b[2]) : b \in {c \in t.blobs : c[2] \in t.assets}}
        made == {x \in rows : ~HasEntry(t, x[2], x[3]) /\ Granted(t, x[2], x[3])}
    IN [t EXCEPT !.entries = [x \in DOMAIN @ \cup roots \cup made |->
          IF x \in roots THEN EntryAt(Top, FileName)
          ELSE IF x \in made THEN EntryAt(Root(VaultOf(x)), FileName)
          ELSE IF x \in rows /\ @[x].parent = Top THEN [@[x] EXCEPT !.parent = Root(VaultOf(x))]
          ELSE @[x]]]

Prepared(t) == ensure_file_namespace_defaults(refresh_rows(t))

(* build_file_tree_response, of all vaults and without the trash.          *)
Shown(t) == {x \in DOMAIN t.entries :
                /\ ~t.entries[x].trashed
                /\ x[1] = "file" => target_vault_for_asset(t, x[3]) = {VaultOf(x)}}

(* What GalleryService::new seals apart of the rows it loads.              *)
Unplaced(t) == {a \in t.assets : target_vault_for_asset(t, a) = {}}

(* A library from before assets had an owner: one asset, known to some of  *)
(* the vaults by blob rows, receipts and entries that may lack a parent.   *)
(* The daemon has not started on it yet.                                   *)
Legacy(a, blobs, receipts, entries, parent(_)) ==
    [assets |-> {a}, owner |-> [b \in TreeAssets |-> Unowned],
     blobs |-> blobs \X {a}, receipts |-> receipts \X {a},
     entries |-> [x \in {Root(v) : v \in TreeVaults} \cup {EntryOf(v, a) : v \in entries} |->
                    IF IsRoot(x) THEN EntryAt(Top, FileName) ELSE EntryAt(parent(x[2]), FileName)]]

TreeInit ==
    \E blobs, receipts, entries \in SUBSET TreeVaults, rooted \in BOOLEAN :
        /\ receipts \subseteq blobs
        /\ treeRows = Legacy(OldAsset, blobs, receipts, entries, LAMBDA v : IF rooted THEN Root(v) ELSE Top)
        /\ tree = treeRows /\ inQuarantine = {} /\ serving = FALSE
        /\ treeCalls = 0 /\ treeFaults = 0

(***************************************************************************)
(* Handlers.  Each prepares the namespace, then is refused with that done  *)
(* in memory only, or changes the tree and saves it, or fails to save.     *)
(***************************************************************************)
Called == /\ serving /\ treeCalls < MaxTreeCalls /\ treeCalls' = treeCalls + 1
          /\ UNCHANGED <<inQuarantine, serving>>

SaveTree(t) ==
    /\ tree' = t
    /\ \/ treeRows' = t /\ UNCHANGED treeFaults
       \/ treeFaults < MaxTreeFaults /\ treeFaults' = treeFaults + 1 /\ UNCHANGED treeRows

RefusedCall(t) == tree' = t /\ UNCHANGED <<treeRows, treeFaults>>

file_tree ==
    /\ Called
    /\ IF Prepared(tree) # tree THEN SaveTree(Prepared(tree)) ELSE RefusedCall(tree)

mobile_file_tree == Called /\ SaveTree(Prepared(tree))

active_folder(f, x, v) == x \in DOMAIN f /\ IsFolder(x) /\ VaultOf(x) = v /\ ~f[x].trashed

name_available(f, p, n, except) ==
    ~\E y \in DOMAIN f \ {except} : f[y].parent = p /\ f[y].name = n /\ ~f[y].trashed

create_file_folder(x, parent, n) ==
    /\ Called /\ x[1] = "folder"
    /\ LET t == Prepared(tree)
       IN IF active_folder(t.entries, parent, VaultOf(x)) /\ name_available(t.entries, parent, n, Top)
          THEN /\ \A v \in TreeVaults : <<"folder", v, x[3]>> \notin DOMAIN t.entries
               /\ SaveTree([t EXCEPT !.entries = With(@, x, EntryAt(parent, n))])
          ELSE RefusedCall(t)

rename_file_entry(x, n) ==
    /\ Called
    /\ LET t == Prepared(tree)
       IN IF x \in DOMAIN t.entries /\ ~IsRoot(x) /\ name_available(t.entries, t.entries[x].parent, n, x)
          THEN SaveTree([t EXCEPT !.entries[x].name = n]) ELSE RefusedCall(t)

Below(f, x, parent) == parent \in {x} \cup descendant_file_entry_ids(f, x)

move_file_entry(x, parent) ==
    /\ Called
    /\ LET t == Prepared(tree)
       IN IF /\ x \in DOMAIN t.entries /\ ~IsRoot(x)
             /\ active_folder(t.entries, parent, VaultOf(x))
             /\ IsFolder(x) => ~Below(t.entries, x, parent)
             /\ name_available(t.entries, parent, t.entries[x].name, x)
          THEN SaveTree([t EXCEPT !.entries[x].parent = parent]) ELSE RefusedCall(t)

Marked(t, chosen, trashed) ==
    [t EXCEPT !.entries = [y \in DOMAIN @ |-> IF y \in chosen THEN [@[y] EXCEPT !.trashed = trashed]
                                              ELSE @[y]]]

trash_file_entry(x) ==
    /\ Called
    /\ LET t == Prepared(tree)
       IN IF x \in DOMAIN t.entries /\ ~IsRoot(x)
          THEN SaveTree(Marked(t, {x} \cup descendant_file_entry_ids(t.entries, x), TRUE))
          ELSE RefusedCall(t)

restore_file_entry(x) ==
    /\ Called
    /\ LET t == Prepared(tree)
       IN IF x \in DOMAIN t.entries /\ ~IsRoot(x)
          THEN SaveTree(Marked(t, {x} \cup descendant_file_entry_ids(t.entries, x)
                                      \cup ancestor_file_entry_ids(t.entries, x), FALSE))
          ELSE RefusedCall(t)

(* commit_import_session and import_asset: the entry is pushed into the    *)
(* root whatever it holds.  A failed strict refresh leaves it in memory.   *)
ImportInto(v, a) ==
    /\ Called /\ a \notin tree.assets
    /\ LET t == ensure_file_namespace_defaults(tree)
           pushed == [t EXCEPT !.assets = @ \cup {a}, !.owner[a] = v,
                               !.entries = With(@, EntryOf(v, a), EntryAt(Root(v), FileName))]
       IN \/ SaveTree(Prepared(pushed))
          \/ treeFaults < MaxTreeFaults /\ tree' = refresh_rows(pushed)
             /\ treeFaults' = treeFaults + 1 /\ UNCHANGED treeRows

(* complete_mobile_upload: the receipt makes the entry; a failed seal      *)
(* takes the receipt back and keeps the asset.                             *)
CompleteUpload(v, a) ==
    /\ Called /\ a \notin tree.assets
    /\ LET t == [tree EXCEPT !.assets = @ \cup {a}, !.owner[a] = v]
       IN \/ SaveTree(Prepared([t EXCEPT !.receipts = @ \cup {<<v, a>>}]))
          \/ treeFaults < MaxTreeFaults /\ tree' = refresh_rows(t)
             /\ treeRows' = tree' /\ treeFaults' = treeFaults + 1

(* repair_quarantined_original, on a copy of the library that replaces it  *)
(* when it has been saved: ensure_single_live_asset_entry.                 *)
ensure_single_live_asset_entry(t, v, a) ==
    LET others == {EntryOf(w, a) : w \in TreeVaults \ {v}} \cap DOMAIN t.entries
    IN [Marked(t, others, TRUE) EXCEPT !.entries = With(@, EntryOf(v, a), EntryAt(Root(v), FileName))]

Repair(v, a) ==
    /\ serving /\ treeCalls < MaxTreeCalls /\ treeCalls' = treeCalls + 1 /\ a \in inQuarantine
    /\ LET mine(pairs) == {p \in pairs : p[2] # a}
           repaired == [tree EXCEPT !.owner[a] = v, !.blobs = mine(@) \cup {<<v, a>>},
                                    !.receipts = mine(@) \cup (@ \cap {<<v, a>>})]
           t == ensure_single_live_asset_entry(ensure_file_namespace_defaults(repaired), v, a)
       IN tree' = t /\ treeRows' = t
    /\ inQuarantine' = inQuarantine \ {a} /\ UNCHANGED <<serving, treeFaults>>

(* The daemon starts, or ends and starts again, and saves what its         *)
(* defaults changed.  What an earlier start sealed apart stays so, whether *)
(* it can be placed by now or not.                                         *)
StartTree ==
    /\ IF serving THEN treeFaults < MaxTreeFaults /\ treeFaults' = treeFaults + 1
       ELSE UNCHANGED treeFaults
    /\ serving' = TRUE /\ inQuarantine' = inQuarantine \cup Unplaced(treeRows)
    /\ tree' = Prepared(treeRows) /\ treeRows' = tree' /\ UNCHANGED treeCalls

NewFolders == {"folder"} \X TreeVaults \X Folders

TreeNext ==
    \/ file_tree \/ mobile_file_tree
    \/ \E x \in NewFolders, p \in DOMAIN tree.entries, n \in Names : create_file_folder(x, p, n)
    \/ \E x \in DOMAIN tree.entries, n \in Names : rename_file_entry(x, n)
    \/ \E x, p \in DOMAIN tree.entries : move_file_entry(x, p)
    \/ \E x \in DOMAIN tree.entries : trash_file_entry(x) \/ restore_file_entry(x)
    \/ \E v \in TreeVaults, a \in TreeAssets : ImportInto(v, a) \/ CompleteUpload(v, a) \/ Repair(v, a)
    \/ StartTree

TreeSpec == TreeInit /\ [][TreeNext]_treeVars
-----------------------------------------------------------------------------
(* What a client is shown hangs together: from every shown entry, parents  *)
(* that are shown too lead to the root of its vault.  No order of moves,   *)
(* trashing and restoring makes a folder its own ancestor or leaves a live *)
(* entry under a trashed one (move_file_entry, trash_, restore_file_entry). *)
ShownIsReachable ==
    [][\A t \in {Prepared(tree')} : \A x \in Shown(t) : ~IsRoot(x) =>
          /\ t.entries[x].parent \in Shown(t)
          /\ Root(VaultOf(x)) \in ancestor_file_entry_ids(t.entries, x)]_treeVars

(* A file becomes live in a vault only through somebody's act: an import   *)
(* or upload into that vault, a restore or a repair.  The defaults that    *)
(* every call and every start applies bring nothing back from the trash,   *)
(* and make an entry for a blob row only where an upload, or there being   *)
(* no other vault, vouches for it and nothing names another vault.         *)
IsLive(t, x) == x \in DOMAIN t.entries /\ ~t.entries[x].trashed

Known == IF StartTree THEN treeRows ELSE tree

LiveByGrant ==
    [][\A x \in DOMAIN tree'.entries : ~IsRoot(x) /\ IsLive(tree', x) /\ ~IsLive(Known, x) =>
          \/ IsFolder(x) /\ x \notin DOMAIN Known.entries
          \/ ~IsFolder(x) /\ x[3] \in tree'.assets \ tree.assets /\ tree'.owner[x[3]] = VaultOf(x)
          \/ ~IsFolder(x) /\ (<<x[2], x[3]>> \in Known.receipts \/ TreeVaults = {VaultOf(x)})
             /\ x \notin DOMAIN Known.entries /\ EvidenceOf(tree', x[3]) = {VaultOf(x)}
          \/ ~IsFolder(x) /\ x[3] \in inQuarantine \ inQuarantine'
          \/ \E y \in DOMAIN tree.entries : restore_file_entry(y)]_treeVars

(* An asset gets into a vault that nothing but its owner named for it only *)
(* by a restore or a repair, or because there is no other vault.  Refreshes, *)
(* defaults, failed saves and starts never choose a vault for an asset that *)
(* nobody can place or that two vaults claim (target_vault_for_asset).     *)
PlacedByAct ==
    [][\A a \in TreeAssets, v \in TreeVaults : v \in EvidenceOf(tree', a) \ EvidenceOf(Known, a) =>
          \/ tree'.owner[a] = v /\ EvidenceOf(Known, a) = {}
          \/ a \in inQuarantine \ inQuarantine'
          \/ TreeVaults = {v}
          \/ \E y \in DOMAIN tree.entries : restore_file_entry(y)]_treeVars

(* After every step what is shown can be reached, and no step makes a file *)
(* visible, or gives an asset a vault, by itself.                          *)
TreeShowsTheLibrary == ShownIsReachable /\ LiveByGrant /\ PlacedByAct
=============================================================================
