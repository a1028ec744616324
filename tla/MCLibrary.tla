------------------------------ MODULE MCLibrary ------------------------------
(***************************************************************************)
(* Small instances of the specifications of what a library shows and how it *)
(* got there, in one run: `part` says which of them an execution is about,  *)
(* the others rest in one of their initial states.                          *)
(***************************************************************************)
EXTENDS OriginalStore, ImportSessions, FileTree, LibraryViews

CONSTANTS d1, q1

VARIABLE part

\* Two files in folders of their own: the second comes first by its name.
ByName == [f \in Paths |-> IF f = 1 THEN 2 ELSE 1]

ExifHours == <<6, 0>>
ExifPlaces == <<1, 0>>

libraryVars == <<part, vars, importVars, treeVars, viewVars>>

TreeRests == \A v \in TreeVaults : EvidenceOf(treeRows, OldAsset) = {} /\ Root(v) \in DOMAIN treeRows.entries

LibraryInit ==
    /\ part \in {"originals", "imports", "tree", "views"}
    /\ Init /\ (part # "originals" => mem.policy = "EncryptedOnly")
    /\ ImportInit /\ folder[1] = 1      \* the contents are alike
    /\ (part # "imports" => \A x \in Paths : folder[x] = 1)
    /\ TreeInit /\ (part # "tree" => TreeRests)
    /\ ViewsInit

\* The vaults are alike: the first import is about the first one.
FirstVaultFirst ==
    importCalls # 0 \/ /\ \A x \in imports'.assets : x.vault = 1
                       /\ \A n \in DOMAIN imports'.sessions : imports'.sessions[n].target \in {0, 1}

\* A commit may name any mode: that of the scan makes no difference.
OneScanMode ==
    \A n \in DOMAIN imports'.sessions :
        imports'.sessions[n].status = "scanned" => imports'.sessions[n].mode = "Copy"

\* The folders are alike: the first one that is made is the first.
FirstFolderFirst ==
    \A v \in TreeVaults : <<"folder", v, 2>> \in DOMAIN tree'.entries =>
        \E w \in TreeVaults : <<"folder", w, 1>> \in DOMAIN tree'.entries

\* A call that changes nothing but its count leaves the execution where it was.
EffectiveTreeCall == treeCalls' # treeCalls => tree' # tree \/ treeRows' # treeRows
EffectiveViewCall == viewCalls' # viewCalls => lib' # lib \/ store' # store
EffectiveImport == importCalls' # importCalls =>
    folder' # folder \/ managed' # managed \/ imports' # imports \/ importRows' # importRows

LibraryNext ==
    /\ UNCHANGED part
    /\ \/ part = "originals" /\ Next
          /\ UNCHANGED <<importVars, treeVars, viewVars>>
       \/ part = "imports" /\ ImportNext
          /\ FirstVaultFirst /\ OneScanMode /\ EffectiveImport
          /\ UNCHANGED <<vars, treeVars, viewVars>>
       \/ part = "tree" /\ TreeNext /\ FirstFolderFirst /\ EffectiveTreeCall
          /\ UNCHANGED <<vars, importVars, viewVars>>
       \/ part = "views" /\ ViewsNext /\ EffectiveViewCall
          /\ UNCHANGED <<vars, importVars, treeVars>>

LibrarySpec == LibraryInit /\ [][LibraryNext]_libraryVars
=============================================================================
