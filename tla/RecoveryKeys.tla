---------------------------- MODULE RecoveryKeys ----------------------------
(***************************************************************************)
(* The credentials of one machine: a vault key is made when its vault is   *)
(* new (provision_vault_key_if_new, vault_store.rs), and a restore from a  *)
(* portable backup brings back the catalog, vault and quarantine keys of   *)
(* the library it publishes (restore_portable_backup, service.rs).  The    *)
(* key store of the operating system is shared by every library of the     *)
(* user; a file lock per credential, the lease, orders those who write it. *)
(*                                                                         *)
(* A key is a number: 0 is no key.  One vault, at one version, and one     *)
(* quarantined object stand for all; a restored catalog has a credential   *)
(* of its own for every destination.                                       *)
(***************************************************************************)
EXTENDS Naturals, Sequences, SequencesExt

CONSTANTS
    Dests,      \* the directories a backup may be restored to
    Restores,   \* calls of run_restore_backup; none of them holds a lock of the service
    Free,       \* a lease nobody holds
    MaxKeys,    \* bound: keys that are ever made
    MaxErrors   \* bound: failing steps and killed processes

ASSUME KeysAssumption ==
    /\ "home" \notin Dests /\ {"vault", "object"} \cap Dests = {}
    /\ Restores \cap (Dests \cup {"home"}) = {}
    /\ Free \notin Restores \cup Dests \cup {"home"}
    /\ MaxKeys \in Nat \ {0} /\ MaxErrors \in Nat

Libraries == {"home"} \cup Dests
Ids == Dests \cup {"vault", "object"}
Keys == 0..MaxKeys

VARIABLES
    keychain,   \* the credentials of the user
    marker,     \* what the provider directory says of the vault's key
    lease,      \* who holds the lock of a credential
    backup,     \* the vault key that the portable backup wraps, 0 before an export
    lib,        \* the libraries of this machine and what their daemon is doing
    run,        \* the restores
    errors,     \* bound: failures so far
    lost        \* history: the user lost the key store

keyVars == <<keychain, marker, lease, backup, lib, run, errors, lost>>

Library == [there : BOOLEAN, local : BOOLEAN, pulled : BOOLEAN, sealed : SUBSET (Keys \ {0}),
            at : {"idle", "prepare", "save", "mark", "local", "up", "refused"}]
Restore == [at : {"idle", "lock", "install", "mark", "rollback",
                  "done", "failed", "preserved", "killed"},
            dest : Dests, held : Seq([id : Ids, created : BOOLEAN])]

Fresh == [there |-> FALSE, local |-> FALSE, pulled |-> FALSE, sealed |-> {}, at |-> "idle"]

\* A first start, with a backup of the vault or not; the machine the backup was
\* made on; a machine that has nothing; a machine that knows the vault under
\* another key, because desktops that share a vault make a key each.
KeyInit ==
    /\ \E k \in {0, 1, 2} : \E there \in BOOLEAN :
         /\ (k > 0 => there) /\ k <= MaxKeys
         /\ keychain = [id \in Ids |-> IF id \in {"vault", "object"} THEN k ELSE 0]
         /\ marker = IF k = 0 THEN "none" ELSE "initialized"
         /\ lib = [l \in Libraries |->
                     IF l = "home" /\ there
                     THEN [there |-> TRUE, local |-> k > 0, pulled |-> FALSE, at |-> "idle",
                           sealed |-> IF k = 0 THEN {} ELSE {k}]
                     ELSE Fresh]
         /\ backup \in IF there /\ k = 0 THEN {0, 1} ELSE {1}
    /\ lease = [id \in Ids |-> Free]
    /\ run \in [Restores -> [at : {"idle"}, dest : Dests, held : {<<>>}]]
    /\ errors = 0 /\ lost = FALSE

Used == {keychain[id] : id \in Ids} \cup (UNION {lib[l].sealed : l \in Libraries})
          \cup {backup, 1}
NewKey == 1 + CHOOSE k \in Used : \A j \in Used : j <= k

Held(p) == [id \in Ids |-> IF lease[id] = p THEN Free ELSE lease[id]]

-----------------------------------------------------------------------------
\* The daemon of a library makes sure of the vault's key before it seals.

Move(l, at) == lib' = [lib EXCEPT ![l].at = at]

\* Catalog rows or a directory of the vault, another start's marker, or the
\* provider's marker say that ciphertext may exist: no key is made then.
History(l) == lib[l].sealed # {} \/ lib[l].pulled \/ lib[l].local \/ marker = "initialized"

AskForLease(l) ==
    /\ lib[l].there /\ lib[l].at = "idle" /\ lease["vault"] = Free
    /\ lease' = [lease EXCEPT !["vault"] = l]
    /\ Move(l, "prepare")
    /\ UNCHANGED <<keychain, marker, backup, run, errors, lost>>

Refuse(l) ==
    /\ lib[l].at = "prepare" /\ keychain["vault"] = 0 /\ History(l)
    /\ Move(l, "refused") /\ lease' = Held(l)
    /\ UNCHANGED <<keychain, marker, backup, run, errors, lost>>

\* Fault: the marker says initialized before there is a key.
MarkerAtOnce == "initialized"
MarkerBefore == IF marker = "none" THEN "provisioning" ELSE marker

Prepare(l) ==
    /\ lib[l].at = "prepare" /\ ~(keychain["vault"] = 0 /\ History(l))
    /\ marker' = MarkerBefore
    /\ Move(l, IF keychain["vault"] = 0 THEN "save" ELSE "mark")
    /\ UNCHANGED <<keychain, lease, backup, run, errors, lost>>

\* The store may keep the credential although it reports an error.
SaveKey(l) ==
    /\ lib[l].at = "save" /\ NewKey <= MaxKeys
    /\ \E ok, kept \in BOOLEAN :
         /\ ok => kept
         /\ ~ok => errors < MaxErrors
         /\ keychain' = IF kept THEN [keychain EXCEPT !["vault"] = NewKey] ELSE keychain
         /\ Move(l, IF ok THEN "mark" ELSE "idle")
         /\ lease' = IF ok THEN lease ELSE Held(l)
         /\ errors' = IF ok THEN errors ELSE errors + 1
    /\ UNCHANGED <<marker, backup, run, lost>>

MarkProvider(l) ==
    /\ lib[l].at = "mark"
    /\ marker' = "initialized" /\ Move(l, "local")
    /\ UNCHANGED <<keychain, lease, backup, run, errors, lost>>

MarkRuntime(l) ==
    /\ lib[l].at = "local"
    /\ lib' = [lib EXCEPT ![l].at = "up", ![l].local = TRUE]
    /\ lease' = Held(l)
    /\ UNCHANGED <<keychain, marker, backup, run, errors, lost>>

\* The key is read without the lease, and from the store each time.
Seal(l) ==
    /\ lib[l].at = "up"
    /\ lib' = [lib EXCEPT ![l].at = "idle",
                 ![l].sealed = IF keychain["vault"] = 0 THEN @ ELSE @ \cup {keychain["vault"]}]
    /\ UNCHANGED <<keychain, marker, lease, backup, run, errors, lost>>

\* A step that fails, or the death of the daemon: the kernel drops the lock.
Interrupt(l) ==
    /\ lib[l].at \in {"prepare", "save", "mark", "local", "up"}
    /\ errors < MaxErrors /\ errors' = errors + 1
    /\ Move(l, "idle") /\ lease' = Held(l)
    /\ UNCHANGED <<keychain, marker, backup, run, lost>>

\* A chunk of another desktop arrives: the vault has a directory from then on.
Pull(l) ==
    /\ lib[l].there /\ lib[l].at = "idle" /\ lib[l].sealed = {} /\ ~lib[l].pulled
    /\ lib' = [lib EXCEPT ![l].pulled = TRUE]
    /\ UNCHANGED <<keychain, marker, lease, backup, run, errors, lost>>

Restart(l) ==
    /\ lib[l].at = "refused" /\ keychain["vault"] # 0
    /\ Move(l, "idle")
    /\ UNCHANGED <<keychain, marker, lease, backup, run, errors, lost>>

\* An export asks for every key of the inventory and opens every payload with it.
Export ==
    /\ backup = 0 /\ keychain["vault"] # 0 /\ lib["home"].sealed = {keychain["vault"]}
    /\ backup' = keychain["vault"]
    /\ UNCHANGED <<keychain, marker, lease, lib, run, errors, lost>>

\* The user resets the key store, or moves the disk to another account.
LoseKeyStore ==
    /\ ~lost /\ lost' = TRUE
    /\ keychain' = [id \in Ids |-> 0]
    /\ UNCHANGED <<marker, lease, backup, lib, run, errors>>

-----------------------------------------------------------------------------
\* A restore: the payload is staged beside the destination, the keys are
\* installed one by one, each under its lease, and the directory is published.

\* Fault: each restore locks the keys in an order of its own.
OrderOfCall(r) ==
    IF r = CHOOSE x \in Restores : TRUE
    THEN <<run[r].dest, "vault", "object">> ELSE <<run[r].dest, "object", "vault">>

\* One order for every restore, that of the inventory.
Order(r) == <<run[r].dest, "vault", "object">>

NextId(r) == Order(r)[Len(run[r].held) + 1]
Give(id) == [lease EXCEPT ![id] = Free]

Begin(r) ==
    /\ run[r].at = "idle" /\ backup # 0 /\ ~lib[run[r].dest].there
    /\ run' = [run EXCEPT ![r].at = "lock"]
    /\ UNCHANGED <<keychain, marker, lease, backup, lib, errors, lost>>

Lock(r) ==
    /\ run[r].at = "lock" /\ Len(run[r].held) < 3 /\ lease[NextId(r)] = Free
    /\ lease' = [lease EXCEPT ![NextId(r)] = r]
    /\ run' = [run EXCEPT ![r].at = "install"]
    /\ UNCHANGED <<keychain, marker, backup, lib, errors, lost>>

Installed(r, created) ==
    run' = [run EXCEPT ![r].at = IF NextId(r) = "vault" THEN "mark" ELSE "lock",
                       ![r].held = Append(@, [id |-> NextId(r), created |-> created])]

\* Fault: every key that is installed is taken for the restore's own.
InstallClaimed(r) ==
    /\ run[r].at = "install" /\ keychain[NextId(r)] = backup
    /\ Installed(r, TRUE)
    /\ UNCHANGED <<keychain, marker, lease, backup, lib, errors, lost>>

\* Fault: another key of the vault is replaced.
InstallOver(r) ==
    /\ run[r].at = "install" /\ keychain[NextId(r)] \notin {0, backup}
    /\ keychain' = [keychain EXCEPT ![NextId(r)] = backup]
    /\ Installed(r, TRUE)
    /\ UNCHANGED <<marker, lease, backup, lib, errors, lost>>

\* What was there stays; the restore goes on when it is the backup's own key.
InstallExisting(r) ==
    /\ run[r].at = "install" /\ keychain[NextId(r)] = backup
    /\ Installed(r, FALSE)
    /\ UNCHANGED <<keychain, marker, lease, backup, lib, errors, lost>>


InstallConflict(r) ==
    /\ run[r].at = "install" /\ keychain[NextId(r)] \notin {0, backup}
    /\ run' = [run EXCEPT ![r].at = "rollback"] /\ lease' = Give(NextId(r))
    /\ UNCHANGED <<keychain, marker, backup, lib, errors, lost>>

InstallNew(r) ==
    /\ run[r].at = "install" /\ keychain[NextId(r)] = 0
    /\ keychain' = [keychain EXCEPT ![NextId(r)] = backup]
    /\ Installed(r, TRUE)
    /\ UNCHANGED <<marker, lease, backup, lib, errors, lost>>

\* The store reports an error: what it kept nevertheless is removed again, if
\* the removal works.
InstallFails(r) ==
    /\ run[r].at = "install" /\ keychain[NextId(r)] = 0
    /\ errors < MaxErrors /\ errors' = errors + 1
    /\ \E left \in {0, backup} : keychain' = [keychain EXCEPT ![NextId(r)] = left]
    /\ run' = [run EXCEPT ![r].at = "rollback"] /\ lease' = Give(NextId(r))
    /\ UNCHANGED <<marker, backup, lib, lost>>

\* The history of a restored vault stays written even if the restore fails.
MarkRestored(r) ==
    /\ run[r].at = "mark"
    /\ marker' = "initialized"
    /\ run' = [run EXCEPT ![r].at = "lock"]
    /\ UNCHANGED <<keychain, lease, backup, lib, errors, lost>>

\* The rename replaces nothing; an occupied destination is a failed restore.
Publish(r) ==
    /\ run[r].at = "lock" /\ Len(run[r].held) = 3 /\ ~lib[run[r].dest].there
    /\ lib' = [lib EXCEPT ![run[r].dest] =
                 [Fresh EXCEPT !.there = TRUE, !.local = TRUE, !.sealed = {backup}]]
    /\ run' = [run EXCEPT ![r].at = "done"] /\ lease' = Held(r)
    /\ UNCHANGED <<keychain, marker, backup, errors, lost>>

Occupied(r) ==
    /\ run[r].at = "lock" /\ Len(run[r].held) = 3 /\ lib[run[r].dest].there
    /\ run' = [run EXCEPT ![r].at = "rollback"]
    /\ UNCHANGED <<keychain, marker, lease, backup, lib, errors, lost>>

\* A copy, a marker, the checks of the staged catalog or its save fail.
Abort(r) ==
    /\ run[r].at \in {"lock", "mark"} /\ errors < MaxErrors /\ errors' = errors + 1
    /\ run' = [run EXCEPT ![r].at = "rollback"]
    /\ UNCHANGED <<keychain, marker, lease, backup, lib, lost>>

\* Backwards over what was installed.  Only a credential of this restore is
\* removed, and only while it is what the restore wrote; if that fails the
\* staged directory is kept for the user.
Removes(entry) == entry.created /\ keychain[entry.id] = backup

RollBack(r) ==
    /\ run[r].at = "rollback" /\ run[r].held # <<>>
    /\ LET entry == Last(run[r].held)
       IN \E fails \in {entry.created /\ ~Removes(entry), entry.created /\ errors < MaxErrors} :
            /\ keychain' = IF Removes(entry) /\ ~fails
                           THEN [keychain EXCEPT ![entry.id] = 0] ELSE keychain
            /\ lease' = Give(entry.id)
            /\ errors' = IF fails /\ Removes(entry) THEN errors + 1 ELSE errors
            /\ run' = [run EXCEPT ![r].held = Front(@)]
    /\ UNCHANGED <<marker, backup, lib, lost>>

RolledBack(r) ==
    /\ run[r].at = "rollback" /\ run[r].held = <<>>
    /\ run' = [run EXCEPT ![r].at = "failed"]
    /\ UNCHANGED <<keychain, marker, lease, backup, lib, errors, lost>>

KillRestore(r) ==
    /\ run[r].at \in {"lock", "install", "mark", "rollback"}
    /\ errors < MaxErrors /\ errors' = errors + 1
    /\ run' = [run EXCEPT ![r].at = "killed", ![r].held = <<>>] /\ lease' = Held(r)
    /\ UNCHANGED <<keychain, marker, backup, lib, lost>>

-----------------------------------------------------------------------------
Provisioning(l) ==
    Refuse(l) \/ Prepare(l) \/ SaveKey(l) \/ MarkProvider(l) \/ MarkRuntime(l)
RestoreStep(r) ==
    \/ InstallExisting(r) \/ InstallConflict(r) \/ InstallNew(r) \/ InstallFails(r)
    \/ MarkRestored(r) \/ Publish(r) \/ Occupied(r) \/ RollBack(r) \/ RolledBack(r)

KeyNext ==
    \/ \E l \in Libraries : \/ AskForLease(l) \/ Provisioning(l) \/ Seal(l)
                            \/ Interrupt(l) \/ Restart(l) \/ Pull(l)
    \/ \E r \in Restores : Begin(r) \/ Lock(r) \/ RestoreStep(r) \/ Abort(r) \/ KillRestore(r)
    \/ Export \/ LoseKeyStore

\* A waiting lock request is granted in the end; what holds a lock goes on.
KeySpec == KeyInit /\ [][KeyNext]_keyVars
KeyFairSpec ==
    /\ KeySpec
    /\ \A l \in Libraries : WF_keyVars(Provisioning(l))
    /\ \A r \in Restores : WF_keyVars(RestoreStep(r)) /\ SF_keyVars(Lock(r))

-----------------------------------------------------------------------------
KeysTypeOK ==
    /\ keychain \in [Ids -> Keys] /\ marker \in {"none", "provisioning", "initialized"}
    /\ lease \in [Ids -> {Free} \cup Libraries \cup Restores]
    /\ backup \in Keys /\ lib \in [Libraries -> Library] /\ run \in [Restores -> Restore]

\* A credential that is there is never replaced, whoever provisions or
\* restores: it can only be taken back by the restore that wrote it, or lost.
KeysOnlyBack ==
    [][\A id \in Ids : keychain[id] # 0 /\ keychain'[id] # keychain[id] =>
         /\ keychain'[id] = 0
         /\ lost' # lost \/ \E r \in Restores : lease[id] = r]_keyVars

\* A key is made only for a vault without ciphertext: nowhere on the machine is
\* there a library with something sealed, not even when the key store was lost.
FreshKeyHasNoHistory ==
    [][keychain'["vault"] \notin {keychain["vault"], backup, 0} =>
         \A l \in Libraries : lib[l].sealed = {}]_keyVars

\* A published library finds the keys that open it, whatever happened to the
\* other restores of the same vault.
PublishedHasItsKeys ==
    ~lost => \A d \in Dests : lib[d].there =>
               \A id \in {d, "vault", "object"} : keychain[id] = backup

\* A daemon refuses to make a key only when one was lost, when chunks of another
\* desktop came before its own first seal, or when a restore of the vault was
\* tried: no failure and no kill between the two markers and the store leaves a
\* vault without a key.
RefusalMeansLoss ==
    \A l \in Libraries : lib[l].at = "refused" =>
      lost \/ lib[l].pulled \/ \E r \in Restores : run[r].at # "idle"

\* Two restores that want the same credentials never wait for each other for
\* ever: each comes to an end.
RestoreEnds ==
    \A r \in Restores : run[r].at = "lock" ~>
       run[r].at \in {"done", "failed", "killed"}

\* A vault's key is replaced by nothing but itself, and made only when there is
\* nothing a lost one would be needed for.
KeysAnswerForCiphertext == KeysOnlyBack /\ FreshKeyHasNoHistory
=============================================================================
