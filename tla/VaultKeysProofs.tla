---------------------------- MODULE VaultKeysProofs ----------------------------
(***************************************************************************)
(* Theorems about the keys of one machine.  RecoveryKeys, for any           *)
(* destinations, restores and bounds: a published library finds its keys, a *)
(* refused start means a loss, and a vault's key is replaced by nothing and *)
(* made only without ciphertext.  CatalogEncryption (the second half of the *)
(* module): the stored key opens what is on the disk, and what is opened is *)
(* what was saved.                                                          *)
(*                                                                          *)
(* The argument for the keys.  Whoever writes one holds its lease: a daemon *)
(* from `prepare` to `local`, a restore for every entry it has installed    *)
(* (HasItsLeases).  So a key that a restore still counts on is not taken    *)
(* back by another one (StillThere), and an entry of a published vault that *)
(* somebody else holds is none that a roll back removes (NotOwned).         *)
(* Ciphertext anywhere on the machine has the provider's marker beside it,  *)
(* which a daemon that is about to make a key has not seen, and which       *)
(* cannot come to be while it holds the lease (SoundDaemon).                *)
(***************************************************************************)
EXTENDS RecoveryKeys, CatalogEncryption, SequenceTheorems, WellFoundedInduction, TLAPS

Entry == [id : Ids, created : BOOLEAN]

\* The restore holds leases.
Busy(r) == run[r].at \in {"lock", "install", "mark", "rollback"}

\* A daemon makes sure of the key under the lease of the vault; one that is
\* about to save a key saves the first one; ciphertext has the marker beside it.
SoundDaemon(l) ==
    /\ lib[l].at \in {"prepare", "save", "mark", "local"} => lease["vault"] = l
    /\ lib[l].at = "save" => keychain["vault"] = 0 /\ marker # "initialized"
    /\ lib[l].sealed # {} \/ lib[l].at \in {"local", "up"} => marker = "initialized"

\* A restore has entries in the order of the inventory, and their leases.
HasItsLeases(r) ==
    /\ run[r].at = "idle" => run[r].held = <<>>
    /\ run[r].at = "mark" => Len(run[r].held) = 2
    /\ run[r].at = "install" => Len(run[r].held) < 3 /\ lease[NextId(r)] = r
    /\ Busy(r) => /\ Len(run[r].held) <= 3
                  /\ \A i \in 1 .. Len(run[r].held) :
                        run[r].held[i].id = Order(r)[i] /\ lease[Order(r)[i]] = r

\* There is a backup to restore from; past the vault's key the marker is written.
Begun(r) ==
    /\ run[r].at # "idle" => backup # 0
    /\ run[r].at \in {"lock", "install"} /\ Len(run[r].held) >= 2 => marker = "initialized"

\* What a restore installed or found is there until it gives the lease back.
StillThere(r) ==
    ~lost /\ Busy(r) => \A i \in 1 .. Len(run[r].held) : keychain[Order(r)[i]] = backup

\* It has no claim on a key of a published library.
NotOwned(r) ==
    ~lost /\ Busy(r) => \A d \in Dests : lib[d].there =>
        \A i \in 1 .. Len(run[r].held) :
            Order(r)[i] \in {d, "vault", "object"} => ~run[r].held[i].created

SoundRestore(r) == HasItsLeases(r) /\ Begun(r) /\ StillThere(r) /\ NotOwned(r)

\* Without a key, and without a loss or a restore, the vault was never begun.
NeverBegun ==
    (~lost /\ (\A r \in Restores : run[r].at = "idle") /\ keychain["vault"] = 0) =>
        /\ marker # "initialized"
        /\ \A l \in Libraries : lib[l].sealed = {} /\ ~lib[l].local
                                /\ lib[l].at \notin {"mark", "local"}

\* What is published came from a backup.
BackedUp == \A d \in Dests : lib[d].there => backup # 0

\* The inductive invariant.
KeysInv ==
    /\ KeysTypeOK
    /\ \A l \in Libraries : SoundDaemon(l)
    /\ \A r \in Restores : SoundRestore(r)
    /\ BackedUp /\ NeverBegun /\ PublishedHasItsKeys /\ RefusalMeansLoss

-----------------------------------------------------------------------------
(* The operators of the model. *)

\* Numbers that are bounded have a greatest one.
LEMMA Greatest ==
  ASSUME NEW B \in Nat, NEW S, S \subseteq 0 .. B, S # {}
  PROVE  \E k \in S : \A j \in S : j <= k
<1> DEFINE T == {B - k : k \in S}
<1>1. T \subseteq Nat /\ T # {} /\ \A k \in S : B - k \in T
  <2>1. \A k \in S : B - k \in Nat
    OBVIOUS
  <2>2. T \subseteq Nat
    BY <2>1, Zenon
  <2>3. \A k \in S : B - k \in T
    BY Zenon
  <2>4. PICK k \in S : TRUE
    OBVIOUS
  <2>5. B - k \in T
    BY <2>3, <2>4
  <2> HIDE DEF T
  <2> QED BY <2>2, <2>3, <2>5
<1>2. \A t \in T : \E k \in S : t = B - k
  BY Zenon
<1> HIDE DEF T
<1>3. \E x \in T : \A y \in T : ~ (<<y, x>> \in OpToRel(<, Nat))
  BY <1>1, NatLessThanWellFounded, WFMin, Zenon
<1>4. PICK x \in T : \A y \in T : ~ (<<y, x>> \in OpToRel(<, Nat))
  BY <1>3, Zenon
<1>5. ASSUME NEW y \in T PROVE ~ (y < x)
  <2>1. <<y, x>> \in Nat \X Nat /\ <<y, x>>[1] = y /\ <<y, x>>[2] = x
    BY <1>1
  <2>2. y < x => <<y, x>> \in OpToRel(<, Nat)
    BY <2>1 DEF OpToRel
  <2> QED BY <1>4, <2>2
<1>6. PICK k \in S : x = B - k
  BY <1>2
<1>7. ASSUME NEW j \in S PROVE j <= k
  <2>1. B - j \in T
    BY <1>1
  <2>2. ~ (B - j < B - k)
    BY <1>5, <1>6, <2>1
  <2> QED BY <2>2
<1> QED BY <1>7

\* A key that is made is none that is in use.
LEMMA NewKeyIsAKey ==
  ASSUME KeysTypeOK
  PROVE  NewKey \in Nat /\ NewKey # 0
<1>1. Used \subseteq 0 .. MaxKeys /\ Used # {}
  <2>1. \A id \in Ids : keychain[id] \in 0 .. MaxKeys
    BY DEF KeysTypeOK, Keys
  <2>2. \A l \in Libraries : lib[l].sealed \subseteq 0 .. MaxKeys
    BY DEF KeysTypeOK, Keys, Library
  <2>3. backup \in 0 .. MaxKeys /\ 1 \in 0 .. MaxKeys
    BY KeysAssumption DEF KeysTypeOK, Keys
  <2>5. 1 \in Used
    BY Zenon DEF Used
  <2>4. ASSUME NEW x \in Used PROVE x \in 0 .. MaxKeys
    <3>1. CASE x \in {keychain[id] : id \in Ids}
      BY <2>1, <3>1
    <3>2. CASE x \in UNION {lib[l].sealed : l \in Libraries}
      BY <2>2, <3>2
    <3>3. CASE x \in {backup, 1}
      BY <2>3, <3>3
    <3>4. x \in {keychain[id] : id \in Ids} \/ x \in UNION {lib[l].sealed : l \in Libraries}
            \/ x \in {backup, 1}
      BY <2>4, Zenon DEF Used
    <3> QED BY <3>1, <3>2, <3>3, <3>4
  <2> HIDE DEF Used
  <2> QED BY <2>5, <2>4
<1>2. MaxKeys \in Nat
  BY KeysAssumption
<1>3. \E k \in Used : \A j \in Used : j <= k
  BY <1>1, <1>2, Greatest
<1> DEFINE top == CHOOSE k \in Used : \A j \in Used : j <= k
<1>4. top \in Used
  BY <1>3, Zenon
<1>5. top \in 0 .. MaxKeys
  BY <1>1, <1>4
<1>6. NewKey = 1 + top
  BY DEF NewKey
<1> HIDE DEF top
<1> QED BY <1>5, <1>6, <1>2

\* The three credentials of a restore are different ones.
LEMMA OrderOfKeys ==
  ASSUME KeysTypeOK, NEW r \in Restores
  PROVE  /\ run[r].dest \in Dests /\ run[r].dest \in Libraries
         /\ Order(r)[1] = run[r].dest /\ Order(r)[2] = "vault" /\ Order(r)[3] = "object"
         /\ \A i, j \in 1 .. 3 : Order(r)[i] \in Ids /\ (Order(r)[i] = Order(r)[j] => i = j)
         /\ \A id \in {run[r].dest, "vault", "object"} : \E i \in 1 .. 3 : Order(r)[i] = id
<1>1. run[r].dest \in Dests
  BY DEF KeysTypeOK, Restore
<1>2. run[r].dest \notin {"vault", "object"}
  BY <1>1, KeysAssumption
<1>3. Order(r)[1] = run[r].dest /\ Order(r)[2] = "vault" /\ Order(r)[3] = "object"
  BY DEF Order
<1>4. \A i \in 1 .. 3 : i = 1 \/ i = 2 \/ i = 3
  OBVIOUS
<1> QED BY <1>1, <1>2, <1>3, <1>4 DEF Ids, Libraries

\* Owners of leases are told apart.
LEMMA Owners ==
  /\ \A l \in Libraries : l # Free /\ l \notin Restores
  /\ \A r \in Restores : r # Free /\ r \notin Libraries
  /\ \A d \in Dests : d # "home" /\ d \in Libraries /\ d \in Ids
  /\ "vault" \in Ids /\ "object" \in Ids /\ "home" \in Libraries
BY KeysAssumption DEF Libraries, Ids


-----------------------------------------------------------------------------
(* What a step of a daemon, and of a restore, leaves alone. *)

LibStep(l) ==
    \/ AskForLease(l) \/ Provisioning(l) \/ Seal(l) \/ Interrupt(l) \/ Restart(l) \/ Pull(l)

RunStep(r) == Begin(r) \/ Lock(r) \/ RestoreStep(r) \/ Abort(r) \/ KillRestore(r)

\* A daemon moves only itself, gives away no lease but its own, and writes the
\* key and the marker only where the protocol has it do so.
LibFrame(l) ==
    /\ backup' = backup /\ run' = run /\ lost' = lost
    /\ \A m \in Libraries : m # l => lib'[m] = lib[m]
    /\ lib'[l].there = lib[l].there
    /\ lib[l].pulled => lib'[l].pulled
    /\ lib'[l].local # lib[l].local => lib[l].at = "local"
    /\ lib'[l].sealed # lib[l].sealed => lib[l].at = "up" /\ keychain["vault"] # 0
    /\ \A id \in Ids : lease'[id] # lease[id] => lease[id] \in {Free, l}
                                                 /\ lease'[id] \in {Free, l}
    /\ lib'[l].at \in {"prepare", "save", "mark", "local"} =>
          lease'["vault"] = l /\ (lib'[l].at # "prepare" => lease["vault"] = l)
    /\ keychain' # keychain =>
          /\ lib[l].at = "save"
          /\ \E k \in Nat \ {0} : keychain' = [keychain EXCEPT !["vault"] = k]
    /\ marker' # marker =>
          \/ marker # "initialized" /\ marker' = "provisioning" /\ lib[l].at = "prepare"
          \/ marker' = "initialized" /\ lib[l].at = "mark"
    /\ lib'[l].at = "save" =>
          /\ lib[l].at = "prepare" /\ keychain["vault"] = 0 /\ keychain' = keychain
          /\ marker # "initialized" /\ marker' # "initialized"
    /\ lib'[l].at = "mark" => keychain'["vault"] # 0
    /\ lib'[l].at = "local" => lib[l].at = "mark" /\ marker' = "initialized"
    /\ lib'[l].at = "up" => lib[l].at = "local"
    /\ lib'[l].at = "refused" => lib[l].at = "refused" \/ (keychain["vault"] = 0 /\ History(l))

\* The types of what a daemon writes.
LibTyped(l) ==
    /\ keychain' \in [Ids -> Keys] /\ marker' \in {"none", "provisioning", "initialized"}
    /\ lease' \in [Ids -> {Free} \cup Libraries \cup Restores]
    /\ lib' \in [Libraries -> Library]

\* A daemon that moves to another place of its program.
LEMMA MoveFrame ==
  ASSUME KeysTypeOK, NEW l \in Libraries, NEW at \in {"idle", "prepare", "save", "mark", "local", "up", "refused"},
         Move(l, at)
  PROVE  /\ lib' \in [Libraries -> Library]
         /\ \A m \in Libraries : m # l => lib'[m] = lib[m]
         /\ lib'[l].at = at /\ lib'[l].there = lib[l].there /\ lib'[l].pulled = lib[l].pulled
         /\ lib'[l].local = lib[l].local /\ lib'[l].sealed = lib[l].sealed
BY DEF Move, KeysTypeOK, Library

\* A daemon that gives its lease back.
LEMMA GivesBack ==
  ASSUME KeysTypeOK, NEW p \in Libraries \cup Restores, lease' = Held(p)
  PROVE  /\ lease' \in [Ids -> {Free} \cup Libraries \cup Restores]
         /\ \A id \in Ids : lease'[id] = IF lease[id] = p THEN Free ELSE lease[id]
BY DEF Held, KeysTypeOK

\* A daemon keeps to its frame.
LEMMA LibFrames ==
  ASSUME KeysInv, NEW l \in Libraries, LibStep(l)
  PROVE  LibFrame(l) /\ LibTyped(l)
<1> USE Owners
<1>0. KeysTypeOK /\ (lib[l].at \in {"prepare", "save", "mark", "local"} => lease["vault"] = l)
      /\ lib[l].at \in {"idle", "prepare", "save", "mark", "local", "up", "refused"}
      /\ (lib[l].at = "save" => keychain["vault"] = 0 /\ marker # "initialized")
  BY DEF KeysInv, SoundDaemon, KeysTypeOK, Library
<1>1. CASE AskForLease(l)
  <2>1. Move(l, "prepare") /\ lease' = [lease EXCEPT !["vault"] = l] /\ lease["vault"] = Free
        /\ UNCHANGED <<keychain, marker, backup, run, lost>>
    BY <1>1 DEF AskForLease
  <2> QED BY <1>0, <2>1, MoveFrame DEF LibFrame, LibTyped, KeysTypeOK
<1>2. CASE Refuse(l)
  <2>1. Move(l, "refused") /\ lease' = Held(l) /\ keychain["vault"] = 0 /\ History(l)
        /\ UNCHANGED <<keychain, marker, backup, run, lost>>
    BY <1>2 DEF Refuse
  <2> QED BY <1>0, <2>1, MoveFrame, GivesBack DEF LibFrame, LibTyped, KeysTypeOK
<1>3. CASE Prepare(l)
  <2>1. /\ lib[l].at = "prepare" /\ (keychain["vault"] = 0 => ~History(l))
        /\ marker' = IF marker = "none" THEN "provisioning" ELSE marker
        /\ Move(l, IF keychain["vault"] = 0 THEN "save" ELSE "mark")
        /\ UNCHANGED <<keychain, lease, backup, run, lost>>
    BY <1>3 DEF Prepare, MarkerBefore
  <2>2. keychain["vault"] = 0 => marker # "initialized"
    BY <2>1 DEF History
  <2> QED BY <1>0, <2>1, <2>2, MoveFrame DEF LibFrame, LibTyped, KeysTypeOK
<1>4. CASE SaveKey(l)
  <2>1. NewKey \in Keys \ {0} /\ NewKey \in Nat \ {0}
    BY <1>0, <1>4, NewKeyIsAKey, KeysAssumption DEF SaveKey, Keys
  <2>2. PICK ok, kept \in BOOLEAN :
         /\ ok => kept
         /\ keychain' = IF kept THEN [keychain EXCEPT !["vault"] = NewKey] ELSE keychain
         /\ Move(l, IF ok THEN "mark" ELSE "idle")
         /\ lease' = IF ok THEN lease ELSE Held(l)
    BY <1>4 DEF SaveKey
  <2>3. lib[l].at = "save" /\ UNCHANGED <<marker, backup, run, lost>>
    BY <1>4 DEF SaveKey
  <2> HIDE DEF NewKey
  <2>4. keychain' \in [Ids -> Keys] /\ (kept => keychain'["vault"] = NewKey)
    BY <1>0, <2>1, <2>2 DEF KeysTypeOK
  <2>5. CASE ok
    <3>1. Move(l, "mark") /\ lease' = lease /\ keychain' = [keychain EXCEPT !["vault"] = NewKey]
      BY <2>2, <2>5
    <3> QED BY <1>0, <2>1, <2>2, <2>3, <2>4, <2>5, <3>1, MoveFrame DEF LibFrame, LibTyped, KeysTypeOK
  <2>6. CASE ~ok
    <3>1. Move(l, "idle") /\ lease' = Held(l)
      BY <2>2, <2>6
    <3>2. keychain' # keychain => \E k \in Nat \ {0} : keychain' = [keychain EXCEPT !["vault"] = k]
      BY <2>1, <2>2
    <3> QED BY <1>0, <2>3, <2>4, <3>1, <3>2, MoveFrame, GivesBack DEF LibFrame, LibTyped, KeysTypeOK
  <2> QED BY <2>5, <2>6
<1>5. CASE MarkProvider(l)
  <2>1. lib[l].at = "mark" /\ marker' = "initialized" /\ Move(l, "local")
        /\ UNCHANGED <<keychain, lease, backup, run, lost>>
    BY <1>5 DEF MarkProvider
  <2> QED BY <1>0, <2>1, MoveFrame DEF LibFrame, LibTyped, KeysTypeOK
<1>6. CASE MarkRuntime(l)
  <2>1. lib[l].at = "local" /\ lib' = [lib EXCEPT ![l].at = "up", ![l].local = TRUE]
        /\ lease' = Held(l) /\ UNCHANGED <<keychain, marker, backup, run, lost>>
    BY <1>6 DEF MarkRuntime
  <2>2. /\ lib' \in [Libraries -> Library]
        /\ \A m \in Libraries : m # l => lib'[m] = lib[m]
        /\ lib'[l].at = "up" /\ lib'[l].there = lib[l].there /\ lib'[l].pulled = lib[l].pulled
        /\ lib'[l].sealed = lib[l].sealed
    <3> DEFINE up == [lib[l] EXCEPT !.at = "up", !.local = TRUE]
    <3>1. lib \in [Libraries -> Library] /\ lib[l] \in Library
      BY <1>0 DEF KeysTypeOK
    <3>2. lib' = [lib EXCEPT ![l] = up]
      BY <2>1, <3>1 DEF Library
    <3>3. /\ up \in Library
          /\ up.at = "up" /\ up.there = lib[l].there /\ up.pulled = lib[l].pulled
          /\ up.sealed = lib[l].sealed
      BY <3>1 DEF Library
    <3> HIDE DEF up
    <3> QED BY <3>1, <3>2, <3>3
  <2> QED BY <1>0, <2>1, <2>2, GivesBack DEF LibFrame, LibTyped, KeysTypeOK
<1>7. CASE Seal(l)
  <2>1. lib[l].at = "up" /\ UNCHANGED <<keychain, marker, lease, backup, run, lost>>
        /\ lib' = [lib EXCEPT ![l].at = "idle",
                 ![l].sealed = IF keychain["vault"] = 0 THEN @ ELSE @ \cup {keychain["vault"]}]
    BY <1>7 DEF Seal
  <2> DEFINE now == IF keychain["vault"] = 0 THEN lib[l].sealed ELSE lib[l].sealed \cup {keychain["vault"]}
  <2>2. ASSUME NEW s \in SUBSET (Keys \ {0}),
               lib' = [lib EXCEPT ![l].at = "idle", ![l].sealed = s]
        PROVE  /\ lib' \in [Libraries -> Library]
               /\ \A m \in Libraries : m # l => lib'[m] = lib[m]
               /\ lib'[l].at = "idle" /\ lib'[l].there = lib[l].there
               /\ lib'[l].pulled = lib[l].pulled
               /\ lib'[l].local = lib[l].local /\ lib'[l].sealed = s
    <3>1. lib \in [Libraries -> Library] /\ lib[l] \in Library
      BY <1>0 DEF KeysTypeOK
    <3> DEFINE new == lib'[l]
    <3>2. /\ DOMAIN lib' = Libraries /\ (\A m \in Libraries : m # l => lib'[m] = lib[m])
          /\ lib' = [m \in Libraries |-> lib'[m]]
      BY <2>2, <3>1
    <3>3. /\ new.at = "idle" /\ new.there = lib[l].there /\ new.pulled = lib[l].pulled
          /\ new.local = lib[l].local /\ new.sealed = s
      BY <2>2, <3>1 DEF Library
    <3>4. new \in Library
      BY <2>2, <3>1 DEF Library
    <3> HIDE DEF new
    <3>5. \A m \in Libraries : lib'[m] \in Library
      BY <3>1, <3>2, <3>4 DEF new
    <3> QED BY <3>2, <3>3, <3>5 DEF new
  <2>5. lib' = [lib EXCEPT ![l].at = "idle", ![l].sealed = now]
    BY <2>1, Zenon
  <2>3. now \in SUBSET (Keys \ {0}) /\ (now # lib[l].sealed => keychain["vault"] # 0)
    BY <1>0 DEF KeysTypeOK, Library
  <2> HIDE DEF now
  <2>4. /\ lib' \in [Libraries -> Library]
        /\ \A m \in Libraries : m # l => lib'[m] = lib[m]
        /\ lib'[l].at = "idle" /\ lib'[l].there = lib[l].there /\ lib'[l].pulled = lib[l].pulled
        /\ lib'[l].local = lib[l].local /\ lib'[l].sealed = now
    BY <2>2, <2>3, <2>5
  <2> QED BY <1>0, <2>1, <2>3, <2>4 DEF LibFrame, LibTyped, KeysTypeOK
<1>8. CASE Interrupt(l)
  <2>1. Move(l, "idle") /\ lease' = Held(l) /\ UNCHANGED <<keychain, marker, backup, run, lost>>
    BY <1>8 DEF Interrupt
  <2> QED BY <1>0, <2>1, MoveFrame, GivesBack DEF LibFrame, LibTyped, KeysTypeOK
<1>9. CASE Restart(l)
  <2>1. Move(l, "idle") /\ UNCHANGED <<keychain, marker, lease, backup, run, lost>>
    BY <1>9 DEF Restart
  <2> QED BY <1>0, <2>1, MoveFrame DEF LibFrame, LibTyped, KeysTypeOK
<1>10. CASE Pull(l)
  <2>1. lib' = [lib EXCEPT ![l].pulled = TRUE] /\ lib[l].at = "idle"
        /\ UNCHANGED <<keychain, marker, lease, backup, run, lost>>
    BY <1>10 DEF Pull
  <2>2. /\ lib' \in [Libraries -> Library]
        /\ \A m \in Libraries : m # l => lib'[m] = lib[m]
        /\ lib'[l].at = "idle" /\ lib'[l].there = lib[l].there /\ lib'[l].pulled
        /\ lib'[l].local = lib[l].local /\ lib'[l].sealed = lib[l].sealed
    BY <1>0, <2>1 DEF KeysTypeOK, Library
  <2> QED BY <1>0, <2>1, <2>2 DEF LibFrame, LibTyped, KeysTypeOK
<1> QED BY <1>1, <1>2, <1>3, <1>4, <1>5, <1>6, <1>7, <1>8, <1>9, <1>10 DEF LibStep, Provisioning


\* The directory that is published finds its keys, and the marker beside them.
Publishes(r) ==
    /\ ~lib[run[r].dest].there /\ marker = "initialized" /\ backup # 0
    /\ keychain' = keychain /\ marker' = marker
    /\ \A id \in {run[r].dest, "vault", "object"} : lease[id] = r /\ (~lost => keychain[id] = backup)
    /\ \A l \in Libraries : l # run[r].dest => lib'[l] = lib[l]
    /\ lib'[run[r].dest].there /\ lib'[run[r].dest].at = "idle"

\* A restore moves only itself, gives away no lease but its own, writes only
\* keys it has the lease of, and takes none back that a published library needs.
RunFrame(r) ==
    /\ backup' = backup /\ lost' = lost
    /\ \A q \in Restores : q # r => run'[q] = run[q]
    /\ run'[r].at # "idle"
    /\ \A id \in Ids : lease'[id] # lease[id] => lease[id] \in {Free, r}
                                                 /\ lease'[id] \in {Free, r}
    /\ \A id \in Ids : keychain'[id] # keychain[id] =>
          /\ lease[id] = r
          /\ \/ keychain[id] = 0 /\ keychain'[id] = backup
             \/ /\ keychain'[id] = 0
                /\ ~lost => \A d \in Dests : lib[d].there => id \notin {d, "vault", "object"}
    /\ marker' # marker => marker' = "initialized" /\ lease["vault"] = r
    /\ lib' = lib \/ Publishes(r)

\* The types of what a restore writes.
RunTyped ==
    /\ keychain' \in [Ids -> Keys] /\ marker' \in {"none", "provisioning", "initialized"}
    /\ lease' \in [Ids -> {Free} \cup Libraries \cup Restores]
    /\ lib' \in [Libraries -> Library] /\ run' \in [Restores -> Restore]

Places == {"idle", "lock", "install", "mark", "rollback", "done", "failed", "preserved", "killed"}

\* A restore that moves, with the entries h.
LEMMA RunMoves ==
  ASSUME KeysTypeOK, NEW r \in Restores, NEW at \in Places, NEW h \in Seq(Entry),
         run' = [run EXCEPT ![r].at = at, ![r].held = h]
  PROVE  /\ run' \in [Restores -> Restore]
         /\ \A q \in Restores : q # r => run'[q] = run[q]
         /\ run'[r].at = at /\ run'[r].held = h /\ run'[r].dest = run[r].dest
<1>1. run \in [Restores -> Restore] /\ run[r] \in Restore
  BY DEF KeysTypeOK
<1> DEFINE new == run'[r]
<1>2. /\ (\A q \in Restores : q # r => run'[q] = run[q])
      /\ run' = [q \in Restores |-> run'[q]]
  BY <1>1
<1>3. new.at = at /\ new.held = h /\ new.dest = run[r].dest
  BY <1>1 DEF Restore
<1>4. new \in Restore
  BY <1>1 DEF Restore, Places, Entry
<1> HIDE DEF new
<1>5. \A q \in Restores : run'[q] \in Restore
  BY <1>1, <1>2, <1>4 DEF new
<1> QED BY <1>2, <1>3, <1>5 DEF new

\* A restore that moves and keeps its entries.
LEMMA RunGoes ==
  ASSUME KeysTypeOK, NEW r \in Restores, NEW at \in Places,
         run' = [run EXCEPT ![r].at = at]
  PROVE  /\ run' \in [Restores -> Restore]
         /\ \A q \in Restores : q # r => run'[q] = run[q]
         /\ run'[r].at = at /\ run'[r].held = run[r].held /\ run'[r].dest = run[r].dest
BY DEF KeysTypeOK, Restore, Places

\* The next credential of a restore.
LEMMA NextOne ==
  ASSUME KeysTypeOK, NEW r \in Restores, Len(run[r].held) < 3
  PROVE  /\ run[r].held \in Seq(Entry) /\ Len(run[r].held) \in Nat
         /\ Len(run[r].held) + 1 \in 1 .. 3
         /\ NextId(r) = Order(r)[Len(run[r].held) + 1] /\ NextId(r) \in Ids
         /\ \A i \in 1 .. Len(run[r].held) : Order(r)[i] # NextId(r)
         /\ NextId(r) = "vault" <=> Len(run[r].held) = 1
<1>1. run[r].held \in Seq(Entry)
  BY DEF KeysTypeOK, Restore, Entry
<1>2. Len(run[r].held) \in Nat
  BY <1>1
<1> DEFINE n == Len(run[r].held)
<1>3. n + 1 \in 1 .. 3 /\ NextId(r) = Order(r)[n + 1]
  BY <1>2 DEF NextId
<1>4. \A i \in 1 .. n : i \in 1 .. 3 /\ i # n + 1
  <2>1. n \in Nat /\ n < 3
    BY <1>2
  <2> HIDE DEF n
  <2> QED BY <2>1
<1>5. NextId(r) \in Ids /\ \A i \in 1 .. n : Order(r)[i] # NextId(r)
  BY <1>3, <1>4, OrderOfKeys
<1>6. n + 1 = 2 <=> NextId(r) = "vault"
  BY <1>3, OrderOfKeys
<1>7. n + 1 = 2 <=> n = 1
  <2>1. n \in Nat
    BY <1>2
  <2> HIDE DEF n
  <2> QED BY <2>1
<1> QED BY <1>1, <1>2, <1>3, <1>5, <1>6, <1>7

\* An entry is added behind the others, under the lease the restore has.
LEMMA EntryAdded ==
  ASSUME KeysInv, NEW r \in Restores, run[r].at = "install", NEW created \in BOOLEAN,
         Installed(r, created), backup' = backup, lost' = lost, lib' = lib, marker' = marker,
         lease' = lease, keychain' \in [Ids -> Keys],
         keychain'[NextId(r)] = backup,
         \A id \in Ids : id # NextId(r) => keychain'[id] = keychain[id],
         created /\ ~lost => keychain[NextId(r)] = 0
  PROVE  /\ run' \in [Restores -> Restore]
         /\ \A q \in Restores : q # r => run'[q] = run[q]
         /\ run'[r].at # "idle" /\ SoundRestore(r)'
<1> DEFINE n == Len(run[r].held)
           h == Append(run[r].held, [id |-> NextId(r), created |-> created])
           at == IF NextId(r) = "vault" THEN "mark" ELSE "lock"
<1>1. KeysTypeOK /\ SoundRestore(r) /\ PublishedHasItsKeys /\ BackedUp
  BY DEF KeysInv
<1>2. n < 3 /\ lease[NextId(r)] = r /\ backup # 0 /\ Busy(r)
  BY <1>1 DEF SoundRestore, HasItsLeases, Begun, Busy
<1>3. /\ run[r].held \in Seq(Entry) /\ n \in Nat /\ n + 1 \in 1 .. 3
      /\ NextId(r) = Order(r)[n + 1] /\ NextId(r) \in Ids
      /\ \A i \in 1 .. n : Order(r)[i] # NextId(r)
      /\ NextId(r) = "vault" <=> n = 1
  BY <1>1, <1>2, NextOne
<1>4. h \in Seq(Entry) /\ Len(h) = n + 1 /\ h[n + 1].id = NextId(r) /\ h[n + 1].created = created
      /\ \A i \in 1 .. n : h[i] = run[r].held[i]
  <2>1. [id |-> NextId(r), created |-> created] \in Entry
    BY <1>3 DEF Entry
  <2> QED BY <1>3, <2>1
<1>5. at \in Places /\ run' = [run EXCEPT ![r].at = at, ![r].held = h]
  BY DEF Installed, Places
<1>13. (at = "mark" => n = 1) /\ (at = "lock" => n # 1)
  BY <1>3
<1>14. (at = "mark" => n + 1 = 2) /\ (at = "lock" /\ n + 1 >= 2 => n >= 2)
  <2>1. n \in Nat
    BY <1>3
  <2> HIDE DEF n, at
  <2> QED BY <1>13, <2>1
<1>15. at \in {"mark", "lock"}
  OBVIOUS
<1> HIDE DEF h, at
<1>6. /\ run' \in [Restores -> Restore]
      /\ \A q \in Restores : q # r => run'[q] = run[q]
      /\ run'[r].at = at /\ run'[r].held = h /\ run'[r].dest = run[r].dest
  BY <1>1, <1>4, <1>5, RunMoves
<1>7. Order(r)' = Order(r)
  BY <1>6 DEF Order
<1>8. /\ Len(run'[r].held) = n + 1
      /\ \A i \in 1 .. n + 1 : i \in 1 .. n \/ i = n + 1
  BY <1>3, <1>4, <1>6
<1>9. HasItsLeases(r)'
  <2>1. \A i \in 1 .. n : run[r].held[i].id = Order(r)[i] /\ lease[Order(r)[i]] = r
    BY <1>1, <1>2 DEF SoundRestore, HasItsLeases
  <2>2. \A i \in 1 .. n + 1 : h[i].id = Order(r)[i] /\ lease'[Order(r)[i]] = r
    BY <2>1, <1>2, <1>3, <1>4, <1>8
  <2>3. at = "mark" => n + 1 = 2
    BY <1>14
  <2>4. run'[r].at \notin {"idle", "install"} /\ (run'[r].at = "mark" => Len(run'[r].held) = 2)
    BY <1>6, <1>8, <1>15, <2>3
  <2>5. Len(run'[r].held) <= 3
    BY <1>3, <1>8
  <2> HIDE DEF n
  <2> QED BY <1>6, <1>7, <1>8, <2>2, <2>4, <2>5 DEF HasItsLeases
<1>10. Begun(r)'
  <2>1. at = "lock" /\ n + 1 >= 2 => n >= 2
    BY <1>14
  <2>2. n >= 2 => marker = "initialized"
    BY <1>1 DEF SoundRestore, Begun
  <2> HIDE DEF n
  <2> QED BY <1>2, <1>6, <1>8, <1>15, <2>1, <2>2 DEF Begun
<1>11. StillThere(r)'
  <2>1. ~lost => \A i \in 1 .. n : keychain[Order(r)[i]] = backup
    BY <1>1, <1>2 DEF SoundRestore, StillThere
  <2>2. \A i \in 1 .. n : Order(r)[i] \in Ids /\ Order(r)[i] # NextId(r)
    <3>1. \A i \in 1 .. n : i \in 1 .. 3
      BY <1>3
    <3> QED BY <1>1, <1>3, <3>1, OrderOfKeys
  <2>3. ~lost => \A i \in 1 .. n + 1 : keychain'[Order(r)[i]] = backup
    BY <2>1, <2>2, <1>3, <1>8
  <2> QED BY <1>6, <1>7, <1>8, <2>3 DEF StillThere
<1>12. NotOwned(r)'
  <2>1. SUFFICES ASSUME ~lost, NEW d \in Dests, lib[d].there, NEW i \in 1 .. n + 1,
                        Order(r)[i] \in {d, "vault", "object"}
                 PROVE  ~h[i].created
    BY <1>6, <1>7, <1>8 DEF NotOwned
  <2>2. CASE i \in 1 .. n
    BY <1>1, <1>2, <1>4, <2>1, <2>2 DEF SoundRestore, NotOwned
  <2>3. CASE i = n + 1
    <3>1. keychain[NextId(r)] = backup
      BY <1>1, <1>3, <2>1, <2>3 DEF PublishedHasItsKeys
    <3> QED BY <1>2, <1>4, <2>1, <2>3, <3>1
  <2> QED BY <1>8, <2>1, <2>2, <2>3
<1> QED BY <1>6, <1>9, <1>10, <1>11, <1>12, <1>15 DEF SoundRestore


\* A restore that goes on with the entries it has.
LEMMA EntriesKept ==
  ASSUME KeysInv, NEW r \in Restores, NEW at \in {"lock", "install", "rollback"},
         Busy(r) \/ run[r].at \in {"idle", "mark"},
         run' = [run EXCEPT ![r].at = at],
         backup' = backup, backup # 0, lost' = lost, lib' = lib,
         \A i \in 1 .. Len(run[r].held) : /\ lease'[Order(r)[i]] = lease[Order(r)[i]]
                                          /\ keychain'[Order(r)[i]] = keychain[Order(r)[i]],
         at = "install" => Len(run[r].held) < 3 /\ lease'[NextId(r)] = r,
         at \in {"lock", "install"} /\ Len(run[r].held) >= 2 => marker' = "initialized"
  PROVE  /\ run' \in [Restores -> Restore]
         /\ \A q \in Restores : q # r => run'[q] = run[q]
         /\ run'[r].at # "idle" /\ SoundRestore(r)'
<1>1. KeysTypeOK /\ SoundRestore(r)
  BY DEF KeysInv
<1>2. at \in Places
  BY DEF Places
<1>3. /\ run' \in [Restores -> Restore]
      /\ \A q \in Restores : q # r => run'[q] = run[q]
      /\ run'[r].at = at /\ run'[r].held = run[r].held /\ run'[r].dest = run[r].dest
  BY <1>1, <1>2, RunGoes
<1>4. Order(r)' = Order(r) /\ NextId(r)' = NextId(r)
  BY <1>3 DEF Order, NextId
<1>5. Busy(r) \/ run[r].held = <<>>
  BY <1>1 DEF SoundRestore, HasItsLeases, Busy
<1>6. HasItsLeases(r)'
  <2>1. Len(run[r].held) <= 3 /\ \A i \in 1 .. Len(run[r].held) :
            run[r].held[i].id = Order(r)[i] /\ lease[Order(r)[i]] = r
    BY <1>1, <1>5 DEF SoundRestore, HasItsLeases
  <2> QED BY <1>3, <1>4, <2>1 DEF HasItsLeases
<1>7. Begun(r)'
  BY <1>3 DEF Begun
<1>8. StillThere(r)'
  BY <1>1, <1>3, <1>4, <1>5 DEF SoundRestore, StillThere
<1>9. NotOwned(r)'
  BY <1>1, <1>3, <1>4, <1>5 DEF SoundRestore, NotOwned
<1> QED BY <1>3, <1>6, <1>7, <1>8, <1>9 DEF SoundRestore

\* A restore that came to an end has no claims any more.
LEMMA Ended ==
  ASSUME KeysInv, NEW r \in Restores, run' \in [Restores -> Restore],
         run'[r].at \in {"done", "failed", "killed"}, backup' = backup, backup # 0
  PROVE  SoundRestore(r)'
BY DEF SoundRestore, HasItsLeases, Begun, StillThere, NotOwned, Busy

\* Going back gives the last entry up, and nothing the others stand for.
LEMMA EntryGivenUp ==
  ASSUME KeysInv, NEW r \in Restores, RollBack(r)
  PROVE  /\ RunFrame(r) /\ RunTyped /\ SoundRestore(r)'
<1> DEFINE h == run[r].held
           n == Len(run[r].held)
           entry == Last(run[r].held)
<1>1. KeysTypeOK /\ SoundRestore(r)
  BY DEF KeysInv
<1>2. run[r].at = "rollback" /\ h # <<>> /\ UNCHANGED <<marker, backup, lib, lost>> /\ Busy(r)
      /\ lease' = Give(entry.id) /\ run' = [run EXCEPT ![r].held = Front(@)]
  BY DEF RollBack, Busy
<1>3. \E fails \in BOOLEAN : keychain' = IF Removes(entry) /\ ~fails
                                         THEN [keychain EXCEPT ![entry.id] = 0] ELSE keychain
  BY DEF RollBack
<1>4. h \in Seq(Entry) /\ n \in Nat /\ n >= 1 /\ n <= 3
  <2>1. h \in Seq(Entry)
    BY <1>1 DEF KeysTypeOK, Restore, Entry
  <2>2. n <= 3
    BY <1>1, <1>2 DEF SoundRestore, HasItsLeases
  <2>3. n # 0
    BY <2>1, <1>2, EmptySeq
  <2> QED BY <2>1, <2>2, <2>3
<1>5. entry = h[n] /\ entry \in Entry
  BY <1>4 DEF Last
<1>6. Front(h) \in Seq(Entry) /\ Len(Front(h)) = n - 1 /\ \A i \in 1 .. n - 1 : Front(h)[i] = h[i]
  BY <1>4 DEF Front
<1>7. n \in 1 .. 3 /\ n \in 1 .. n /\ \A i \in 1 .. n - 1 : i \in 1 .. n /\ i \in 1 .. 3 /\ i # n
  <2>1. n \in Nat /\ n >= 1 /\ n <= 3
    BY <1>4
  <2> HIDE DEF n
  <2> QED BY <2>1
<1>8. entry.id = Order(r)[n] /\ lease[entry.id] = r /\ entry.id \in Ids
  BY <1>1, <1>2, <1>5, <1>7, OrderOfKeys DEF SoundRestore, HasItsLeases
<1>9. \A i \in 1 .. n - 1 : Order(r)[i] \in Ids /\ Order(r)[i] # entry.id
  <2>1. \A i, j \in 1 .. 3 : Order(r)[i] \in Ids /\ (Order(r)[i] = Order(r)[j] => i = j)
    BY <1>1, OrderOfKeys
  <2> HIDE DEF n, entry
  <2> QED BY <1>7, <1>8, <2>1
<1>10. /\ run' \in [Restores -> Restore]
       /\ \A q \in Restores : q # r => run'[q] = run[q]
       /\ run'[r].at = "rollback" /\ run'[r].held = Front(h) /\ run'[r].dest = run[r].dest
  <2>1. run' = [run EXCEPT ![r].at = "rollback", ![r].held = Front(h)]
    <3>1. run[r] \in Restore /\ run \in [Restores -> Restore]
      BY <1>1 DEF KeysTypeOK
    <3>2. run = [run EXCEPT ![r].at = "rollback"]
      BY <3>1, <1>2 DEF Restore
    <3> QED BY <3>2, <1>2
  <2>2. "rollback" \in Places
    BY DEF Places
  <2> HIDE DEF h
  <2> QED BY <1>1, <1>6, <2>1, <2>2, RunMoves
<1>11. /\ keychain' \in [Ids -> Keys]
       /\ \A id \in Ids : id # entry.id => keychain'[id] = keychain[id]
       /\ keychain'[entry.id] # keychain[entry.id] => keychain'[entry.id] = 0 /\ entry.created
  <2>1. 0 \in Keys
    BY KeysAssumption DEF Keys
  <2> HIDE DEF entry
  <2> QED BY <1>1, <1>3, <1>8, <2>1 DEF KeysTypeOK, Removes
<1>12. /\ lease' \in [Ids -> {Free} \cup Libraries \cup Restores]
       /\ \A id \in Ids : id # entry.id => lease'[id] = lease[id]
       /\ lease'[entry.id] = Free
  <2> HIDE DEF entry
  <2> QED BY <1>1, <1>2, <1>8 DEF KeysTypeOK, Give
<1> HIDE DEF entry
<1>13. RunFrame(r)
  <2>1. ~lost /\ entry.created => \A d \in Dests : lib[d].there => entry.id \notin {d, "vault", "object"}
    BY <1>1, <1>2, <1>5, <1>7, <1>8 DEF SoundRestore, NotOwned
  <2> QED BY <1>2, <1>8, <1>10, <1>11, <1>12, <2>1 DEF RunFrame
<1>14. RunTyped
  BY <1>1, <1>2, <1>10, <1>11, <1>12 DEF RunTyped, KeysTypeOK
<1>15. Order(r)' = Order(r) /\ Len(run'[r].held) = n - 1
       /\ \A i \in 1 .. n - 1 : run'[r].held[i] = run[r].held[i]
  BY <1>6, <1>10 DEF Order
<1>16. HasItsLeases(r)'
  <2>1. \A i \in 1 .. n - 1 : /\ run[r].held[i].id = Order(r)[i]
                              /\ lease[Order(r)[i]] = r /\ lease'[Order(r)[i]] = r
    BY <1>1, <1>2, <1>7, <1>9, <1>12 DEF SoundRestore, HasItsLeases
  <2>2. n - 1 <= 3
    BY <1>4
  <2> HIDE DEF n
  <2> QED BY <1>10, <1>15, <2>1, <2>2 DEF HasItsLeases
<1>17. Begun(r)'
  BY <1>1, <1>2, <1>10 DEF SoundRestore, Begun
<1>18. StillThere(r)'
  <2>1. ~lost => \A i \in 1 .. n - 1 : keychain[Order(r)[i]] = backup /\ keychain'[Order(r)[i]] = backup
    BY <1>1, <1>2, <1>7, <1>9, <1>11 DEF SoundRestore, StillThere
  <2> HIDE DEF n
  <2> QED BY <1>2, <1>15, <2>1 DEF StillThere
<1>19. NotOwned(r)'
  <2>1. ~lost => \A d \in Dests : lib[d].there => \A i \in 1 .. n - 1 :
            Order(r)[i] \in {d, "vault", "object"} => ~run[r].held[i].created
    BY <1>1, <1>2, <1>7 DEF SoundRestore, NotOwned
  <2> HIDE DEF n
  <2> QED BY <1>2, <1>15, <2>1 DEF NotOwned
<1> QED BY <1>13, <1>14, <1>16, <1>17, <1>18, <1>19 DEF SoundRestore


\* A lease that is given back.
LEMMA GivesOne ==
  ASSUME KeysTypeOK, NEW k \in Ids, lease' = Give(k)
  PROVE  /\ lease' \in [Ids -> {Free} \cup Libraries \cup Restores]
         /\ lease'[k] = Free /\ \A id \in Ids : id # k => lease'[id] = lease[id]
BY DEF Give, KeysTypeOK

\* A key is installed where there is none, or found.
LEMMA InstallFrames ==
  ASSUME KeysInv, NEW r \in Restores, InstallExisting(r) \/ InstallNew(r)
  PROVE  RunFrame(r) /\ RunTyped /\ SoundRestore(r)'
<1>1. KeysTypeOK /\ SoundRestore(r) /\ run[r].at = "install"
  BY DEF KeysInv, InstallExisting, InstallNew
<1>2. Len(run[r].held) < 3 /\ lease[NextId(r)] = r /\ backup # 0
  BY <1>1 DEF SoundRestore, HasItsLeases, Begun
<1>3. NextId(r) \in Ids
  BY <1>1, <1>2, NextOne
<1>4. UNCHANGED <<marker, lease, backup, lib, lost>>
  BY DEF InstallExisting, InstallNew
<1>5. PICK created \in BOOLEAN :
         /\ Installed(r, created)
         /\ keychain' \in [Ids -> Keys] /\ keychain'[NextId(r)] = backup
         /\ \A id \in Ids : id # NextId(r) => keychain'[id] = keychain[id]
         /\ created /\ ~lost => keychain[NextId(r)] = 0
         /\ keychain[NextId(r)] \in {0, backup}
  <2>1. CASE InstallExisting(r)
    <3>1. Installed(r, FALSE) /\ keychain' = keychain /\ keychain[NextId(r)] = backup
      BY <2>1 DEF InstallExisting
    <3> QED BY <1>1, <3>1 DEF KeysTypeOK
  <2>2. CASE InstallNew(r)
    <3>1. /\ Installed(r, TRUE) /\ keychain' = [keychain EXCEPT ![NextId(r)] = backup]
          /\ keychain[NextId(r)] = 0
      BY <2>2 DEF InstallNew
    <3>2. /\ keychain' \in [Ids -> Keys] /\ keychain'[NextId(r)] = backup
          /\ \A id \in Ids : id # NextId(r) => keychain'[id] = keychain[id]
      BY <1>1, <1>3, <3>1 DEF KeysTypeOK
    <3> QED BY <3>1, <3>2
  <2> QED BY <2>1, <2>2
<1>6. /\ run' \in [Restores -> Restore]
      /\ \A q \in Restores : q # r => run'[q] = run[q]
      /\ run'[r].at # "idle" /\ SoundRestore(r)'
  BY <1>1, <1>4, <1>5, EntryAdded
<1>7. RunFrame(r)
  BY <1>2, <1>3, <1>4, <1>5, <1>6 DEF RunFrame
<1>8. RunTyped
  BY <1>1, <1>4, <1>5, <1>6 DEF RunTyped, KeysTypeOK
<1> QED BY <1>6, <1>7, <1>8

\* A restore keeps to its frame, and what is so of it stays so.
LEMMA RunFrames ==
  ASSUME KeysInv, NEW r \in Restores, RunStep(r)
  PROVE  RunFrame(r) /\ RunTyped /\ SoundRestore(r)'
<1>1. KeysTypeOK /\ SoundRestore(r)
  BY DEF KeysInv
<1>2. Len(run[r].held) \in Nat /\ run[r] \in Restore
  <2>1. run[r] \in Restore /\ run[r].held \in Seq(Entry)
    BY <1>1 DEF KeysTypeOK, Restore, Entry
  <2> QED BY <2>1
<1>3. \A i \in 1 .. Len(run[r].held) : Len(run[r].held) <= 3 => i \in 1 .. 3
  BY <1>2
<1>4. CASE Begin(r)
  <2>1. run[r].at = "idle" /\ backup # 0 /\ run' = [run EXCEPT ![r].at = "lock"]
        /\ UNCHANGED <<keychain, marker, lease, backup, lib, lost>>
    BY <1>4 DEF Begin
  <2>2. run[r].held = <<>>
    BY <1>1, <2>1 DEF SoundRestore, HasItsLeases
  <2>3. /\ run' \in [Restores -> Restore]
        /\ \A q \in Restores : q # r => run'[q] = run[q]
        /\ run'[r].at # "idle" /\ SoundRestore(r)'
    <3>1. Len(run[r].held) = 0 /\ ~(Len(run[r].held) >= 2)
      BY <2>2
    <3>2. \A i \in 1 .. Len(run[r].held) : FALSE
      BY <3>1
    <3> QED BY <2>1, <3>1, <3>2, EntriesKept
  <2> QED BY <1>1, <2>1, <2>3 DEF RunFrame, RunTyped, KeysTypeOK
<1>5. CASE Lock(r)
  <2>1. run[r].at = "lock" /\ Len(run[r].held) < 3 /\ lease[NextId(r)] = Free
        /\ lease' = [lease EXCEPT ![NextId(r)] = r] /\ run' = [run EXCEPT ![r].at = "install"]
        /\ UNCHANGED <<keychain, marker, backup, lib, lost>>
    BY <1>5 DEF Lock
  <2>2. /\ backup # 0 /\ Busy(r)
        /\ Len(run[r].held) >= 2 => marker = "initialized"
    BY <1>1, <2>1 DEF SoundRestore, Begun, Busy
  <2>3. NextId(r) \in Ids /\ \A i \in 1 .. Len(run[r].held) : Order(r)[i] # NextId(r)
    BY <1>1, <2>1, NextOne
  <2>4. \A i \in 1 .. Len(run[r].held) : Order(r)[i] \in Ids
    BY <1>1, <1>2, <1>3, <2>1, OrderOfKeys
  <2>5. /\ lease' \in [Ids -> {Free} \cup Libraries \cup Restores]
        /\ lease'[NextId(r)] = r /\ \A id \in Ids : id # NextId(r) => lease'[id] = lease[id]
    BY <1>1, <2>1, <2>3 DEF KeysTypeOK
  <2>6. /\ run' \in [Restores -> Restore]
        /\ \A q \in Restores : q # r => run'[q] = run[q]
        /\ run'[r].at # "idle" /\ SoundRestore(r)'
    BY <2>1, <2>2, <2>3, <2>4, <2>5, EntriesKept
  <2> QED BY <1>1, <2>1, <2>3, <2>5, <2>6 DEF RunFrame, RunTyped, KeysTypeOK
<1>6. CASE InstallExisting(r) \/ InstallNew(r)
  BY <1>6, InstallFrames
<1>7. CASE InstallConflict(r) \/ InstallFails(r)
  <2>1. run[r].at = "install" /\ run' = [run EXCEPT ![r].at = "rollback"]
        /\ lease' = Give(NextId(r)) /\ UNCHANGED <<marker, backup, lib, lost>>
    BY <1>7 DEF InstallConflict, InstallFails
  <2>2. Len(run[r].held) < 3 /\ lease[NextId(r)] = r /\ backup # 0 /\ Busy(r)
    BY <1>1, <2>1 DEF SoundRestore, HasItsLeases, Begun, Busy
  <2>3. NextId(r) \in Ids /\ \A i \in 1 .. Len(run[r].held) : Order(r)[i] # NextId(r)
    BY <1>1, <2>2, NextOne
  <2>4. \A i \in 1 .. Len(run[r].held) : Order(r)[i] \in Ids
    BY <1>1, <1>2, <1>3, <2>2, OrderOfKeys
  <2>5. /\ lease' \in [Ids -> {Free} \cup Libraries \cup Restores]
        /\ lease'[NextId(r)] = Free /\ \A id \in Ids : id # NextId(r) => lease'[id] = lease[id]
    BY <1>1, <2>1, <2>3, GivesOne
  <2>6. /\ keychain' \in [Ids -> Keys]
        /\ \A id \in Ids : id # NextId(r) => keychain'[id] = keychain[id]
        /\ keychain'[NextId(r)] # keychain[NextId(r)] =>
               keychain[NextId(r)] = 0 /\ keychain'[NextId(r)] = backup
    <3>1. CASE InstallConflict(r)
      BY <1>1, <3>1 DEF InstallConflict, KeysTypeOK
    <3>2. CASE InstallFails(r)
      <4>1. PICK left \in {0, backup} : keychain' = [keychain EXCEPT ![NextId(r)] = left]
        BY <3>2 DEF InstallFails
      <4>2. keychain[NextId(r)] = 0 /\ left \in Keys
        BY <1>1, <3>2, KeysAssumption DEF InstallFails, KeysTypeOK, Keys
      <4> QED BY <1>1, <2>3, <4>1, <4>2 DEF KeysTypeOK
    <3> QED BY <1>7, <3>1, <3>2
  <2>7. /\ run' \in [Restores -> Restore]
        /\ \A q \in Restores : q # r => run'[q] = run[q]
        /\ run'[r].at # "idle" /\ SoundRestore(r)'
    BY <2>1, <2>2, <2>3, <2>4, <2>5, <2>6, EntriesKept
  <2> QED BY <1>1, <2>1, <2>2, <2>3, <2>5, <2>6, <2>7 DEF RunFrame, RunTyped, KeysTypeOK
<1>8. CASE MarkRestored(r)
  <2>1. run[r].at = "mark" /\ marker' = "initialized" /\ run' = [run EXCEPT ![r].at = "lock"]
        /\ UNCHANGED <<keychain, lease, backup, lib, lost>>
    BY <1>8 DEF MarkRestored
  <2>2. backup # 0 /\ lease["vault"] = r
    <3>1. backup # 0 /\ Len(run[r].held) = 2 /\ Busy(r)
      BY <1>1, <2>1 DEF SoundRestore, HasItsLeases, Begun, Busy
    <3>2. 2 \in 1 .. Len(run[r].held)
      BY <3>1
    <3>3. lease[Order(r)[2]] = r
      BY <1>1, <3>1, <3>2 DEF SoundRestore, HasItsLeases
    <3> QED BY <1>1, <3>1, <3>3, OrderOfKeys
  <2>3. /\ run' \in [Restores -> Restore]
        /\ \A q \in Restores : q # r => run'[q] = run[q]
        /\ run'[r].at # "idle" /\ SoundRestore(r)'
    BY <2>1, <2>2, EntriesKept
  <2> QED BY <1>1, <2>1, <2>2, <2>3 DEF RunFrame, RunTyped, KeysTypeOK
<1>9. CASE Occupied(r) \/ Abort(r)
  <2>1. run[r].at \in {"lock", "mark"} /\ run' = [run EXCEPT ![r].at = "rollback"]
        /\ UNCHANGED <<keychain, marker, lease, backup, lib, lost>>
    BY <1>9 DEF Occupied, Abort
  <2>2. backup # 0
    BY <1>1, <2>1 DEF SoundRestore, Begun
  <2>3. /\ run' \in [Restores -> Restore]
        /\ \A q \in Restores : q # r => run'[q] = run[q]
        /\ run'[r].at # "idle" /\ SoundRestore(r)'
    BY <2>1, <2>2, EntriesKept DEF Busy
  <2> QED BY <1>1, <2>1, <2>3 DEF RunFrame, RunTyped, KeysTypeOK
<1>10. CASE RollBack(r)
  BY <1>10, EntryGivenUp
<1>11. CASE RolledBack(r)
  <2>1. run[r].at = "rollback" /\ run' = [run EXCEPT ![r].at = "failed"]
        /\ UNCHANGED <<keychain, marker, lease, backup, lib, lost>>
    BY <1>11 DEF RolledBack
  <2>2. backup # 0 /\ "failed" \in Places
    BY <1>1, <2>1 DEF SoundRestore, Begun, Places
  <2>3. /\ run' \in [Restores -> Restore]
        /\ \A q \in Restores : q # r => run'[q] = run[q]
        /\ run'[r].at = "failed"
    BY <1>1, <2>1, <2>2, RunGoes
  <2>4. SoundRestore(r)'
    BY <2>1, <2>2, <2>3, Ended
  <2> QED BY <1>1, <2>1, <2>3, <2>4 DEF RunFrame, RunTyped, KeysTypeOK
<1>12. CASE KillRestore(r)
  <2>1. run[r].at \in {"lock", "install", "mark", "rollback"} /\ lease' = Held(r)
        /\ run' = [run EXCEPT ![r].at = "killed", ![r].held = <<>>]
        /\ UNCHANGED <<keychain, marker, backup, lib, lost>>
    BY <1>12 DEF KillRestore
  <2>2. backup # 0 /\ "killed" \in Places /\ <<>> \in Seq(Entry)
    BY <1>1, <2>1 DEF SoundRestore, Begun, Places
  <2>3. /\ run' \in [Restores -> Restore]
        /\ \A q \in Restores : q # r => run'[q] = run[q]
        /\ run'[r].at = "killed"
    BY <1>1, <2>1, <2>2, RunMoves
  <2>4. SoundRestore(r)'
    BY <2>1, <2>2, <2>3, Ended
  <2> QED BY <1>1, <2>1, <2>3, <2>4, GivesBack DEF RunFrame, RunTyped, KeysTypeOK
<1>13. CASE Publish(r)
  <2> DEFINE d == run[r].dest
             new == [Fresh EXCEPT !.there = TRUE, !.local = TRUE, !.sealed = {backup}]
  <2>1. run[r].at = "lock" /\ Len(run[r].held) = 3 /\ ~lib[d].there
        /\ lib' = [lib EXCEPT ![d] = [Fresh EXCEPT !.there = TRUE, !.local = TRUE, !.sealed = {backup}]]
        /\ run' = [run EXCEPT ![r].at = "done"] /\ lease' = Held(r)
        /\ UNCHANGED <<keychain, marker, backup, lost>>
    BY <1>13 DEF Publish
  <2>2. backup # 0 /\ "done" \in Places /\ marker = "initialized" /\ Busy(r)
    BY <1>1, <2>1 DEF SoundRestore, Begun, Places, Busy
  <2>3. /\ run' \in [Restores -> Restore]
        /\ \A q \in Restores : q # r => run'[q] = run[q]
        /\ run'[r].at = "done"
    BY <1>1, <2>1, <2>2, RunGoes
  <2>4. SoundRestore(r)'
    BY <2>1, <2>2, <2>3, Ended
  <2>5. \A id \in {d, "vault", "object"} : lease[id] = r /\ (~lost => keychain[id] = backup)
    <3>1. \A i \in 1 .. 3 : lease[Order(r)[i]] = r /\ (~lost => keychain[Order(r)[i]] = backup)
      BY <1>1, <2>1, <2>2 DEF SoundRestore, HasItsLeases, StillThere
    <3> QED BY <1>1, <3>1, OrderOfKeys
  <2>6. new.there /\ new.at = "idle"
    BY DEF Fresh
  <2>7. new \in Library
    BY <1>1, <2>2 DEF Library, KeysTypeOK, Fresh
  <2>8. d \in Libraries
    BY <1>1, OrderOfKeys
  <2>11. lib' = [lib EXCEPT ![d] = new]
    BY <2>1
  <2> HIDE DEF new
  <2>9. /\ lib' \in [Libraries -> Library] /\ lib'[d] = new
        /\ \A l \in Libraries : l # d => lib'[l] = lib[l]
    BY <1>1, <2>7, <2>8, <2>11 DEF KeysTypeOK
  <2>10. Publishes(r)
    BY <2>1, <2>2, <2>5, <2>6, <2>9 DEF Publishes
  <2> QED BY <1>1, <2>1, <2>3, <2>4, <2>9, <2>10, GivesBack DEF RunFrame, RunTyped, KeysTypeOK
<1> QED BY <1>4, <1>5, <1>6, <1>7, <1>8, <1>9, <1>10, <1>11, <1>12, <1>13 DEF RunStep, RestoreStep


-----------------------------------------------------------------------------
(* The invariant. *)

\* A fresh machine, or one that knows the vault, satisfies the invariant.
LEMMA KeysInit == KeyInit => KeysInv
<1> SUFFICES ASSUME KeyInit PROVE KeysInv
  OBVIOUS
<1> USE Owners
<1>1. PICK k \in {0, 1, 2}, there \in BOOLEAN :
         /\ (k > 0 => there) /\ k <= MaxKeys
         /\ keychain = [id \in Ids |-> IF id \in {"vault", "object"} THEN k ELSE 0]
         /\ marker = IF k = 0 THEN "none" ELSE "initialized"
         /\ lib = [l \in Libraries |->
                     IF l = "home" /\ there
                     THEN [there |-> TRUE, local |-> k > 0, pulled |-> FALSE, at |-> "idle",
                           sealed |-> IF k = 0 THEN {} ELSE {k}]
                     ELSE Fresh]
         /\ backup \in IF there /\ k = 0 THEN {0, 1} ELSE {1}
  BY DEF KeyInit
<1>2. /\ lease = [id \in Ids |-> Free] /\ lost = FALSE
      /\ run \in [Restores -> [at : {"idle"}, dest : Dests, held : {<<>>}]]
  BY DEF KeyInit
<1>3. k \in Keys /\ backup \in Keys /\ 0 \in Keys
  BY <1>1, KeysAssumption DEF Keys
<1>4. ASSUME NEW r \in Restores
      PROVE  run[r] \in Restore /\ run[r].at = "idle" /\ run[r].held = <<>>
  <2>1. run[r] \in [at : {"idle"}, dest : Dests, held : {<<>>}]
    BY <1>2
  <2>2. <<>> \in Seq([id : Ids, created : BOOLEAN])
    OBVIOUS
  <2> QED BY <2>1, <2>2 DEF Restore
<1>5. ASSUME NEW l \in Libraries
      PROVE  /\ lib[l] \in Library /\ lib[l].at = "idle"
             /\ lib[l].sealed # {} => k # 0
             /\ lib[l].local => k # 0
             /\ l # "home" => ~lib[l].there
  <2>1. CASE l = "home" /\ there
    <3>1. (IF k = 0 THEN {} ELSE {k}) \in SUBSET (Keys \ {0})
      BY <1>3
    <3>2. (k > 0 => k # 0)
      BY <1>1
    <3> DEFINE s == IF k = 0 THEN {} ELSE {k}
               known == k > 0
    <3>3. s # {} => k # 0
      OBVIOUS
    <3>4. lib[l] = [there |-> TRUE, local |-> known, pulled |-> FALSE, at |-> "idle", sealed |-> s]
      BY <1>1, <2>1
    <3>5. known \in BOOLEAN
      <4>1. CASE k > 0
        <5>1. (k > 0) = TRUE
          BY <4>1
        <5> QED BY <5>1, Zenon
      <4>2. CASE ~(k > 0)
        <5>1. (k > 0) = FALSE
          BY <4>2
        <5> QED BY <5>1, Zenon
      <4> QED BY <4>1, <4>2
    <3>6. s \in SUBSET (Keys \ {0})
      BY <3>1
    <3>7. known => k # 0
      BY <3>2
    <3> HIDE DEF s, known
    <3>8. lib[l] \in Library
      BY <3>4, <3>5, <3>6 DEF Library
    <3> QED BY <2>1, <3>3, <3>4, <3>7, <3>8
  <2>2. CASE ~(l = "home" /\ there)
    <3>1. lib[l] = Fresh
      BY <1>1, <2>2
    <3> QED BY <1>1, <2>2, <3>1 DEF Library, Fresh
  <2> QED BY <2>1, <2>2
<1>6. KeysTypeOK
  <2>1. keychain \in [Ids -> Keys] /\ lease \in [Ids -> {Free} \cup Libraries \cup Restores]
    BY <1>1, <1>2, <1>3
  <2>2. lib \in [Libraries -> Library]
    <3>1. lib = [l \in Libraries |-> lib[l]]
      BY <1>1
    <3> QED BY <1>5, <3>1
  <2>3. run \in [Restores -> Restore]
    BY <1>2, <1>4
  <2> QED BY <1>1, <1>3, <2>1, <2>2, <2>3 DEF KeysTypeOK
<1>7. ASSUME NEW l \in Libraries PROVE SoundDaemon(l)
  BY <1>1, <1>5 DEF SoundDaemon
<1>8. ASSUME NEW r \in Restores PROVE SoundRestore(r)
  BY <1>4 DEF SoundRestore, HasItsLeases, Begun, StillThere, NotOwned, Busy
<1>9. BackedUp /\ PublishedHasItsKeys
  BY <1>5 DEF BackedUp, PublishedHasItsKeys
<1>10. RefusalMeansLoss
  BY <1>5 DEF RefusalMeansLoss
<1>11. NeverBegun
  BY <1>1, <1>5 DEF NeverBegun
<1> QED BY <1>6, <1>7, <1>8, <1>9, <1>10, <1>11 DEF KeysInv

\* A daemon's step preserves the invariant.
LEMMA DaemonPreserves ==
  ASSUME KeysInv, NEW l \in Libraries, LibStep(l)
  PROVE  KeysInv'
<1> USE Owners
<1>1. LibFrame(l) /\ LibTyped(l)
  BY LibFrames
<1>2. KeysTypeOK /\ BackedUp /\ NeverBegun /\ PublishedHasItsKeys /\ RefusalMeansLoss
      /\ (\A m \in Libraries : SoundDaemon(m)) /\ \A r \in Restores : SoundRestore(r)
  BY DEF KeysInv
<1>3. KeysTypeOK'
  BY <1>1, <1>2 DEF KeysTypeOK, LibTyped, LibFrame
<1>4. \A id \in Ids : id # "vault" => keychain'[id] = keychain[id]
  BY <1>1, <1>2 DEF LibFrame, KeysTypeOK
<1>5. keychain'["vault"] # keychain["vault"] =>
         lib[l].at = "save" /\ keychain["vault"] = 0 /\ lease["vault"] = l
         /\ marker # "initialized" /\ keychain'["vault"] # 0
  BY <1>1, <1>2 DEF LibFrame, SoundDaemon, KeysTypeOK
<1>6. ASSUME NEW m \in Libraries PROVE SoundDaemon(m)'
  <2>1. CASE m = l
    <3>1. lib'[l].at \in {"prepare", "save", "mark", "local"} => lease'["vault"] = l
      BY <1>1 DEF LibFrame
    <3>2. lib'[l].at = "save" => keychain'["vault"] = 0 /\ marker' # "initialized"
      BY <1>1 DEF LibFrame
    <3>3. marker = "initialized" => marker' = "initialized"
      BY <1>1 DEF LibFrame
    <3>4. lib'[l].sealed # {} \/ lib'[l].at \in {"local", "up"} => marker' = "initialized"
      BY <1>1, <1>2, <3>3 DEF LibFrame, SoundDaemon
    <3> QED BY <2>1, <3>1, <3>2, <3>4 DEF SoundDaemon
  <2>2. CASE m # l
    <3>1. lib'[m] = lib[m] /\ SoundDaemon(m) /\ SoundDaemon(l)
      BY <1>1, <1>2, <2>2 DEF LibFrame
    <3>2. lease["vault"] = m => lease'["vault"] = m
      BY <1>1, <2>2 DEF LibFrame
    <3>3. lib[m].at = "save" => keychain'["vault"] = 0
      BY <1>5, <2>2, <3>1 DEF SoundDaemon
    <3>4. lib[m].at = "save" => marker' # "initialized"
      BY <1>1, <2>2, <3>1 DEF SoundDaemon, LibFrame
    <3>5. marker = "initialized" => marker' = "initialized"
      BY <1>1 DEF LibFrame
    <3> QED BY <3>1, <3>2, <3>3, <3>4, <3>5 DEF SoundDaemon
  <2> QED BY <2>1, <2>2
<1>7. ASSUME NEW r \in Restores PROVE SoundRestore(r)'
  <2>1. run' = run /\ SoundRestore(r) /\ backup' = backup /\ lost' = lost
    BY <1>1, <1>2 DEF LibFrame
  <2>2. Order(r)' = Order(r) /\ NextId(r)' = NextId(r)
    BY <2>1 DEF Order, NextId
  <2>3. \A id \in Ids : lease[id] = r => lease'[id] = r /\ keychain'[id] = keychain[id]
    BY <1>1, <1>4, <1>5 DEF LibFrame
  <2>4. run[r].at = "install" => NextId(r) \in Ids
    BY <1>2, <2>1, NextOne DEF SoundRestore, HasItsLeases
  <2>5. Busy(r) => \A i \in 1 .. Len(run[r].held) : Order(r)[i] \in Ids /\ lease[Order(r)[i]] = r
    <3> SUFFICES ASSUME Busy(r), NEW i \in 1 .. Len(run[r].held)
                 PROVE  Order(r)[i] \in Ids /\ lease[Order(r)[i]] = r
      OBVIOUS
    <3>1. run[r].held \in Seq(Entry) /\ Len(run[r].held) <= 3
      BY <1>2, <2>1 DEF KeysTypeOK, Restore, Entry, SoundRestore, HasItsLeases
    <3>2. i \in 1 .. 3
      BY <3>1
    <3> QED BY <1>2, <2>1, <3>2, OrderOfKeys DEF SoundRestore, HasItsLeases
  <2>6. HasItsLeases(r)'
    BY <2>1, <2>2, <2>3, <2>4, <2>5 DEF SoundRestore, HasItsLeases, Busy
  <2>7. Begun(r)'
    <3>1. marker = "initialized" => marker' = "initialized"
      BY <1>1 DEF LibFrame
    <3> QED BY <2>1, <3>1 DEF SoundRestore, Begun
  <2>8. StillThere(r)'
    BY <2>1, <2>2, <2>3, <2>5 DEF SoundRestore, StillThere, Busy
  <2>9. NotOwned(r)'
    <3>1. \A d \in Dests : lib'[d].there = lib[d].there
      BY <1>1 DEF LibFrame
    <3> QED BY <2>1, <2>2, <3>1 DEF SoundRestore, NotOwned, Busy
  <2> QED BY <2>6, <2>7, <2>8, <2>9 DEF SoundRestore
<1>8. \A d \in Dests : lib'[d].there = lib[d].there
  BY <1>1 DEF LibFrame
<1>9. BackedUp'
  BY <1>1, <1>2, <1>8 DEF BackedUp, LibFrame
<1>10. PublishedHasItsKeys'
  <2> SUFFICES ASSUME ~lost', NEW d \in Dests, lib'[d].there, NEW id \in {d, "vault", "object"}
               PROVE  keychain'[id] = backup'
    BY DEF PublishedHasItsKeys
  <2>1. keychain[id] = backup /\ keychain["vault"] = backup /\ backup # 0 /\ id \in Ids
    BY <1>1, <1>2, <1>8 DEF PublishedHasItsKeys, BackedUp, LibFrame
  <2> QED BY <1>1, <1>4, <1>5, <2>1 DEF LibFrame
<1>11. RefusalMeansLoss'
  <2> SUFFICES ASSUME NEW m \in Libraries, lib'[m].at = "refused", ~lost', ~lib'[m].pulled,
                      \A r \in Restores : run'[r].at = "idle"
               PROVE  FALSE
    BY DEF RefusalMeansLoss
  <2>1. ~lost /\ \A r \in Restores : run[r].at = "idle"
    BY <1>1 DEF LibFrame
  <2>2. CASE m # l
    BY <1>1, <1>2, <2>1, <2>2 DEF LibFrame, RefusalMeansLoss
  <2>3. CASE m = l
    <3>1. ~lib[l].pulled
      BY <1>1, <2>3 DEF LibFrame
    <3>2. keychain["vault"] = 0 /\ History(l)
      BY <1>1, <1>2, <2>1, <2>3, <3>1 DEF LibFrame, RefusalMeansLoss
    <3> QED BY <1>2, <2>1, <3>1, <3>2 DEF NeverBegun, History
  <2> QED BY <2>2, <2>3
<1>12. NeverBegun'
  <2> SUFFICES ASSUME ~lost', \A r \in Restores : run'[r].at = "idle", keychain'["vault"] = 0
               PROVE  /\ marker' # "initialized"
                      /\ \A m \in Libraries : lib'[m].sealed = {} /\ ~lib'[m].local
                                              /\ lib'[m].at \notin {"mark", "local"}
    BY DEF NeverBegun
  <2>1. keychain["vault"] = 0
    BY <1>5
  <2>2. /\ marker # "initialized"
        /\ \A m \in Libraries : lib[m].sealed = {} /\ ~lib[m].local
                                /\ lib[m].at \notin {"mark", "local"}
    BY <1>1, <1>2, <2>1 DEF NeverBegun, LibFrame
  <2>3. marker' # "initialized"
    BY <1>1, <2>2 DEF LibFrame
  <2>4. lib'[l].sealed = {} /\ ~lib'[l].local /\ lib'[l].at \notin {"mark", "local"}
    <3>1. lib[l].local \in BOOLEAN /\ lib'[l].local \in BOOLEAN
      BY <1>2, <1>3 DEF KeysTypeOK, Library
    <3> QED BY <1>1, <2>1, <2>2, <3>1 DEF LibFrame
  <2> QED BY <1>1, <2>2, <2>3, <2>4 DEF LibFrame
<1> QED BY <1>3, <1>6, <1>7, <1>9, <1>10, <1>11, <1>12 DEF KeysInv


\* A restore's step preserves the invariant.
LEMMA RestorePreserves ==
  ASSUME KeysInv, NEW r \in Restores, RunStep(r)
  PROVE  KeysInv'
<1> USE Owners
<1>1. RunFrame(r) /\ RunTyped /\ SoundRestore(r)'
  BY RunFrames
<1>2. KeysTypeOK /\ BackedUp /\ PublishedHasItsKeys
      /\ (\A m \in Libraries : SoundDaemon(m)) /\ \A q \in Restores : SoundRestore(q)
  BY DEF KeysInv
<1>3. KeysTypeOK'
  BY <1>1, <1>2 DEF KeysTypeOK, RunTyped, RunFrame
<1>4. run[r].dest \in Libraries /\ run[r].dest \in Dests
  BY <1>2, OrderOfKeys
<1>5. ASSUME NEW m \in Libraries PROVE SoundDaemon(m)'
  <2>1. SoundDaemon(m)
    BY <1>2
  <2>2. lease["vault"] = m => lease'["vault"] = m /\ keychain'["vault"] = keychain["vault"] /\ marker' = marker
    BY <1>1 DEF RunFrame
  <2>3. marker = "initialized" => marker' = "initialized"
    BY <1>1 DEF RunFrame
  <2>4. CASE lib'[m] = lib[m]
    BY <2>1, <2>2, <2>3, <2>4 DEF SoundDaemon
  <2>5. CASE lib'[m] # lib[m]
    <3>1. lib'[m].at = "idle" /\ marker' = "initialized"
      BY <1>1, <2>5 DEF RunFrame, Publishes
    <3> QED BY <3>1 DEF SoundDaemon
  <2> QED BY <2>4, <2>5
<1>6. ASSUME NEW q \in Restores PROVE SoundRestore(q)'
  <2>1. CASE q = r
    BY <1>1, <2>1
  <2>2. CASE q # r
    <3>1. run'[q] = run[q] /\ SoundRestore(q) /\ backup' = backup /\ lost' = lost
      BY <1>1, <1>2, <2>2 DEF RunFrame
    <3>2. Order(q)' = Order(q) /\ NextId(q)' = NextId(q)
      BY <3>1 DEF Order, NextId
    <3>3. \A id \in Ids : lease[id] = q => lease'[id] = q /\ keychain'[id] = keychain[id]
      BY <1>1, <2>2 DEF RunFrame
    <3>4. run[q].at = "install" => NextId(q) \in Ids
      BY <1>2, <3>1, NextOne DEF SoundRestore, HasItsLeases
    <3>5. Busy(q) => \A i \in 1 .. Len(run[q].held) : Order(q)[i] \in Ids /\ lease[Order(q)[i]] = q
      <4> SUFFICES ASSUME Busy(q), NEW i \in 1 .. Len(run[q].held)
                   PROVE  Order(q)[i] \in Ids /\ lease[Order(q)[i]] = q
        OBVIOUS
      <4>1. run[q].held \in Seq(Entry) /\ Len(run[q].held) <= 3
        BY <1>2, <3>1 DEF KeysTypeOK, Restore, Entry, SoundRestore, HasItsLeases
      <4>2. i \in 1 .. 3
        BY <4>1
      <4> QED BY <1>2, <3>1, <4>2, OrderOfKeys DEF SoundRestore, HasItsLeases
    <3>6. HasItsLeases(q)'
      BY <3>1, <3>2, <3>3, <3>4, <3>5 DEF SoundRestore, HasItsLeases, Busy
    <3>7. Begun(q)'
      <4>1. marker = "initialized" => marker' = "initialized"
        BY <1>1 DEF RunFrame
      <4> QED BY <3>1, <4>1 DEF SoundRestore, Begun
    <3>8. StillThere(q)'
      BY <3>1, <3>2, <3>3, <3>5 DEF SoundRestore, StillThere, Busy
    <3>9. NotOwned(q)'
      <4> SUFFICES ASSUME ~lost, Busy(q), NEW d \in Dests, lib'[d].there,
                          NEW i \in 1 .. Len(run[q].held), Order(q)[i] \in {d, "vault", "object"}
                   PROVE  ~run[q].held[i].created
        BY <3>1, <3>2 DEF NotOwned, Busy
      <4>1. CASE lib[d].there
        BY <3>1, <4>1 DEF SoundRestore, NotOwned
      <4>2. CASE ~lib[d].there
        <5>1. Publishes(r) /\ d = run[r].dest
          BY <1>1, <4>2 DEF RunFrame, Publishes
        <5>2. lease[Order(q)[i]] = r
          BY <5>1 DEF Publishes
        <5> QED BY <2>2, <3>5, <5>2
      <4> QED BY <4>1, <4>2
    <3> QED BY <3>6, <3>7, <3>8, <3>9 DEF SoundRestore
  <2> QED BY <2>1, <2>2
<1>7. BackedUp'
  <2> SUFFICES ASSUME NEW d \in Dests, lib'[d].there PROVE backup # 0
    BY <1>1 DEF BackedUp, RunFrame
  <2>1. lib[d].there \/ Publishes(r)
    BY <1>1 DEF RunFrame
  <2> QED BY <1>2, <2>1 DEF BackedUp, Publishes
<1>8. PublishedHasItsKeys'
  <2> SUFFICES ASSUME ~lost', NEW d \in Dests, lib'[d].there, NEW id \in {d, "vault", "object"}
               PROVE  keychain'[id] = backup
    BY <1>1 DEF PublishedHasItsKeys, RunFrame
  <2>1. ~lost /\ id \in Ids
    BY <1>1 DEF RunFrame
  <2>2. CASE lib[d].there
    <3>1. keychain[id] = backup /\ backup # 0
      BY <1>2, <2>1, <2>2 DEF PublishedHasItsKeys, BackedUp
    <3> QED BY <1>1, <2>1, <2>2, <3>1 DEF RunFrame
  <2>3. CASE ~lib[d].there
    <3>1. Publishes(r) /\ d = run[r].dest
      BY <1>1, <2>3 DEF RunFrame, Publishes
    <3> QED BY <2>1, <3>1 DEF Publishes
  <2> QED BY <2>2, <2>3
<1>9. NeverBegun' /\ RefusalMeansLoss'
  BY <1>1 DEF RunFrame, NeverBegun, RefusalMeansLoss
<1> QED BY <1>3, <1>5, <1>6, <1>7, <1>8, <1>9 DEF KeysInv

\* An export finds no restore yet, and wraps the key that is there.
LEMMA ExportPreserves ==
  ASSUME KeysInv, Export
  PROVE  KeysInv'
<1>1. KeysTypeOK /\ BackedUp /\ NeverBegun /\ PublishedHasItsKeys /\ RefusalMeansLoss
      /\ (\A m \in Libraries : SoundDaemon(m)) /\ \A r \in Restores : SoundRestore(r)
  BY DEF KeysInv
<1>2. backup = 0 /\ backup' = keychain["vault"]
      /\ UNCHANGED <<keychain, marker, lease, lib, run, lost>>
  BY DEF Export
<1>3. KeysTypeOK'
  BY <1>1, <1>2, Owners DEF KeysTypeOK
<1>4. ASSUME NEW m \in Libraries PROVE SoundDaemon(m)'
  BY <1>1, <1>2 DEF SoundDaemon
<1>5. ASSUME NEW r \in Restores PROVE SoundRestore(r)'
  <2>1. run[r].at = "idle" /\ run[r].held = <<>> /\ run' = run
    BY <1>1, <1>2 DEF SoundRestore, Begun, HasItsLeases
  <2> QED BY <2>1 DEF SoundRestore, HasItsLeases, Begun, StillThere, NotOwned, Busy
<1>6. \A d \in Dests : ~lib'[d].there
  BY <1>1, <1>2 DEF BackedUp
<1>7. BackedUp' /\ PublishedHasItsKeys' /\ NeverBegun' /\ RefusalMeansLoss'
  BY <1>1, <1>2, <1>6 DEF BackedUp, PublishedHasItsKeys, NeverBegun, RefusalMeansLoss
<1> QED BY <1>3, <1>4, <1>5, <1>7 DEF KeysInv

\* A key store that is lost takes every promise with it but the markers.
LEMMA LossPreserves ==
  ASSUME KeysInv, LoseKeyStore
  PROVE  KeysInv'
<1>1. KeysTypeOK /\ BackedUp
      /\ (\A m \in Libraries : SoundDaemon(m)) /\ \A r \in Restores : SoundRestore(r)
  BY DEF KeysInv
<1>2. lost' = TRUE /\ keychain' = [id \in Ids |-> 0]
      /\ UNCHANGED <<marker, lease, backup, lib, run>>
  BY DEF LoseKeyStore
<1>3. keychain' \in [Ids -> Keys] /\ keychain'["vault"] = 0
  BY <1>2, Owners, KeysAssumption DEF Keys
<1>4. KeysTypeOK'
  BY <1>1, <1>2, <1>3 DEF KeysTypeOK
<1>5. ASSUME NEW m \in Libraries PROVE SoundDaemon(m)'
  BY <1>1, <1>2, <1>3 DEF SoundDaemon
<1>6. ASSUME NEW r \in Restores PROVE SoundRestore(r)'
  <2>1. Order(r)' = Order(r) /\ NextId(r)' = NextId(r)
    BY <1>2 DEF Order, NextId
  <2>2. HasItsLeases(r)' /\ Begun(r)'
    BY <1>1, <1>2, <2>1 DEF SoundRestore, HasItsLeases, Begun, Busy
  <2> QED BY <1>2, <2>2 DEF SoundRestore, StillThere, NotOwned
<1>7. BackedUp' /\ PublishedHasItsKeys' /\ NeverBegun' /\ RefusalMeansLoss'
  BY <1>1, <1>2 DEF BackedUp, PublishedHasItsKeys, NeverBegun, RefusalMeansLoss
<1> QED BY <1>4, <1>5, <1>6, <1>7 DEF KeysInv

\* The next-state relation by actors.
LEMMA KeySteps ==
  ASSUME KeyNext
  PROVE  \/ \E l \in Libraries : LibStep(l)
         \/ \E r \in Restores : RunStep(r)
         \/ Export \/ LoseKeyStore
BY DEF KeyNext, LibStep, RunStep

\* Nothing changes, and nothing is lost.
LEMMA KeyStutter ==
  ASSUME KeysInv, UNCHANGED keyVars
  PROVE  KeysInv'
<1>1. UNCHANGED <<keychain, marker, lease, backup, lib, run, lost>>
  BY DEF keyVars
<1>2. KeysTypeOK' /\ BackedUp' /\ PublishedHasItsKeys' /\ NeverBegun' /\ RefusalMeansLoss'
  BY <1>1 DEF KeysInv, KeysTypeOK, BackedUp, PublishedHasItsKeys, NeverBegun, RefusalMeansLoss
<1>3. ASSUME NEW m \in Libraries PROVE SoundDaemon(m)'
  BY <1>1 DEF KeysInv, SoundDaemon
<1>4. ASSUME NEW r \in Restores PROVE SoundRestore(r)'
  <2>1. Order(r)' = Order(r) /\ NextId(r)' = NextId(r)
    BY <1>1 DEF Order, NextId
  <2>2. SoundRestore(r)
    BY DEF KeysInv
  <2> QED BY <1>1, <2>1, <2>2 DEF SoundRestore, HasItsLeases, Begun, StillThere, NotOwned, Busy
<1> QED BY <1>2, <1>3, <1>4 DEF KeysInv

-----------------------------------------------------------------------------
(* The theorems. *)

\* Whoever writes a credential has its lease, and ciphertext has its marker.
THEOREM KeysInvariance == KeySpec => []KeysInv
<1>1. KeyInit => KeysInv
  BY KeysInit
<1>2. KeysInv /\ [KeyNext]_keyVars => KeysInv'
  <2> SUFFICES ASSUME KeysInv, [KeyNext]_keyVars PROVE KeysInv'
    OBVIOUS
  <2>1. CASE UNCHANGED keyVars
    BY <2>1, KeyStutter
  <2>2. CASE KeyNext
    BY <2>2, KeySteps, DaemonPreserves, RestorePreserves, ExportPreserves, LossPreserves
  <2> QED BY <2>1, <2>2
<1> QED BY <1>1, <1>2, PTL DEF KeySpec

\* A library that a restore published finds the keys that open it, whatever
\* daemons and other restores of the same vault do or fail to do.
THEOREM PublishedOpens == KeySpec => []PublishedHasItsKeys
<1>1. KeysInv => PublishedHasItsKeys
  BY DEF KeysInv
<1> QED BY <1>1, KeysInvariance, PTL

\* A daemon refuses to start for want of a key only when one was lost, chunks of
\* another desktop came first, or a restore was tried.
THEOREM RefusalIsJustified == KeySpec => []RefusalMeansLoss
<1>1. KeysInv => RefusalMeansLoss
  BY DEF KeysInv
<1> QED BY <1>1, KeysInvariance, PTL

\* A credential is never replaced, only taken back by the restore that wrote it
\* or lost; and a key of a vault is made only where nothing is sealed.
THEOREM KeysAreKept == KeySpec => KeysAnswerForCiphertext
<1> DEFINE Kept == \A id \in Ids : keychain[id] # 0 /\ keychain'[id] # keychain[id] =>
                      /\ keychain'[id] = 0
                      /\ lost' # lost \/ \E r \in Restores : lease[id] = r
           First == keychain'["vault"] \notin {keychain["vault"], backup, 0} =>
                      \A l \in Libraries : lib[l].sealed = {}
<1>1. KeysInv /\ [KeyNext]_keyVars => [Kept]_keyVars /\ [First]_keyVars
  <2> SUFFICES ASSUME KeysInv, KeyNext PROVE Kept /\ First
    BY DEF keyVars
  <2>1. CASE \E l \in Libraries : LibStep(l)
    <3>1. PICK l \in Libraries : LibStep(l)
      BY <2>1
    <3>2. LibFrame(l)
      BY <3>1, LibFrames
    <3>3. keychain' # keychain =>
             /\ keychain["vault"] = 0 /\ marker # "initialized"
             /\ \A id \in Ids : id # "vault" => keychain'[id] = keychain[id]
      BY <3>2, Owners DEF LibFrame, KeysInv, SoundDaemon, KeysTypeOK
    <3>4. marker # "initialized" => \A m \in Libraries : lib[m].sealed = {}
      BY DEF KeysInv, SoundDaemon
    <3> QED BY <3>3, <3>4
  <2>2. CASE \E r \in Restores : RunStep(r)
    <3>1. PICK r \in Restores : RunStep(r)
      BY <2>2
    <3>2. RunFrame(r)
      BY <3>1, RunFrames
    <3> QED BY <3>2, Owners DEF RunFrame
  <2>3. CASE Export
    BY <2>3 DEF Export
  <2>4. CASE LoseKeyStore
    <3>1. lost' # lost /\ keychain' = [id \in Ids |-> 0]
      BY <2>4 DEF LoseKeyStore
    <3> QED BY <3>1, Owners
  <2> QED BY <2>1, <2>2, <2>3, <2>4, KeySteps
<1>2. KeysInv /\ [KeyNext]_keyVars => [Kept]_keyVars
  BY <1>1
<1>3. KeysInv /\ [KeyNext]_keyVars => [First]_keyVars
  BY <1>1
<1>4. KeySpec => [][Kept]_keyVars
  BY <1>2, KeysInvariance, PTL DEF KeySpec
<1>5. KeySpec => [][First]_keyVars
  BY <1>3, KeysInvariance, PTL DEF KeySpec
<1> QED BY <1>4, <1>5 DEF KeysAnswerForCiphertext, KeysOnlyBack, FreshKeyHasNoHistory

-----------------------------------------------------------------------------
(* The encryption of the catalog.  Whoever replaces the key has opened the  *)
(* database before, and an open that succeeds has removed every staged      *)
(* copy: so no copy is left that needs the key that goes.  A rename that a   *)
(* power loss may still undo has its verified copy beside it (Promised), as *)
(* long as directories are synchronised and no copy went in the gap; so a   *)
(* missing database can be put back, and what is put back is what was saved *)
(* last, because nothing is saved while a copy is staged.                   *)

\* What the daemon knows at each step of open_database and of activation.
InStep ==
    /\ proc.at \in {"down", "idle"} => proc.goal = "start"
    /\ proc.at = "opened" => staged = {}
    /\ proc.at \in {"keyed", "copied"} => db.kind = "plain" /\ catalogKey # 0
    /\ proc.at = "ready" => db.kind # "encrypted" /\ \E s \in staged : s.copy /\ s.manifest
    /\ proc.at \in {"renamed", "publish", "stated"} => db.kind = "encrypted"
    /\ proc.at = "stated" => state = "set"
    /\ proc.at \in {"cleanup", "opened"} => (state = "set" <=> db.kind = "encrypted")
    /\ db.kind = "missing" => proc.at \in {"down", "opening", "ready"} /\ proc.goal = "start"

\* Who is going to save or to make a key was within the bounds.
WithinBounds ==
    /\ proc.goal \in {"save", "first"} => saves < MaxSaves
    /\ proc.goal = "first" => env.keys < MaxCatalogKeys

\* What a power loss may undo, and a missing database, have a verified copy.
Promised ==
    /\ db.kind # "missing" => db.data = saves
    /\ undo.db.kind # "missing" => undo.db.data = saves
    /\ \A s \in staged : s.data = saves
    /\ undo.db # db \/ db.kind = "missing" => \E s \in staged : s.copy /\ s.manifest

\* The inductive invariant.
CatalogInv ==
    /\ CatalogTypeOK /\ KeyKept /\ InStep /\ WithinBounds
    /\ undo.db.kind = "encrypted" => undo.db = db
    /\ env.barrier /\ ~env.gap => Promised

\* What the daemon is doing, as CatalogTypeOK has it.
ProcType == [at : Steps, goal : Goals, tx : 0 .. MaxStages]

\* The daemon goes on to another step, or leaves the handler.
LEMMA ProcMoves ==
  ASSUME CatalogTypeOK
  PROVE  /\ \A step \in Steps : Go(step) =>
               proc' \in ProcType /\ proc'.at = step /\ proc'.goal = proc.goal
         /\ \A s \in staged : Replacing(s) =>
               proc' \in ProcType /\ proc'.at = "ready" /\ proc'.goal = proc.goal
         /\ Leave \in ProcType /\ Down \in ProcType /\ Idle \in ProcType
         /\ Leave.at \in {"down", "idle"} /\ Leave.goal = "start"
         /\ proc.goal = "start" => Leave.at = "down"
         /\ Down.at = "down" /\ Down.goal = "start" /\ Idle.at = "idle" /\ Idle.goal = "start"
<1>1. proc \in ProcType /\ 0 \in 0 .. MaxStages
  BY CatalogAssumption DEF CatalogTypeOK, ProcType
<1>2. \A step \in Steps : Go(step) =>
               proc' \in ProcType /\ proc'.at = step /\ proc'.goal = proc.goal
  BY <1>1 DEF Go, ProcType
<1>3. ASSUME NEW s \in staged, Replacing(s)
      PROVE  proc' \in ProcType /\ proc'.at = "ready" /\ proc'.goal = proc.goal
  <2>1. s.tx \in 0 .. MaxStages
    BY CatalogAssumption DEF CatalogTypeOK, Stage
  <2>2. "ready" \in Steps
    BY DEF Steps
  <2> QED BY <1>1, <1>3, <2>1, <2>2 DEF Replacing, ProcType
<1>4. /\ Down \in ProcType /\ Idle \in ProcType
      /\ Down.at = "down" /\ Down.goal = "start" /\ Idle.at = "idle" /\ Idle.goal = "start"
  BY <1>1 DEF Down, Idle, ProcType, Steps, Goals
<1>5. /\ Leave \in ProcType /\ Leave.at \in {"down", "idle"} /\ Leave.goal = "start"
      /\ proc.goal = "start" => Leave.at = "down"
  BY <1>4 DEF Leave
<1> QED BY <1>2, <1>3, <1>4, <1>5

\* A step that changes only where the daemon is preserves the invariant.
LEMMA OnlyTheDaemon ==
  ASSUME CatalogInv, UNCHANGED <<db, staged, state, catalogKey, undo, saves, env>>,
         told' \in BOOLEAN, proc' \in ProcType, InStep', WithinBounds'
  PROVE  CatalogInv'
BY DEF CatalogInv, CatalogTypeOK, KeyKept, Promised, ProcType

\* The files before anything was encrypted, or after.
LEMMA CatalogStarts == CatalogInit => CatalogInv
<1> SUFFICES ASSUME CatalogInit PROVE CatalogInv
  OBVIOUS
<1>1. PICK k \in {0, 1} \cap (0 .. MaxCatalogKeys), kind \in {"plain", "encrypted"} :
        /\ kind = "encrypted" => k # 0
        /\ db = [kind |-> kind, key |-> IF kind = "plain" THEN 0 ELSE k, data |-> 0]
        /\ catalogKey = k
        /\ state \in CASE kind = "encrypted" -> States
                       [] kind = "plain" /\ k # 0 -> {"none", "torn"}
                       [] OTHER -> {"none"}
        /\ env \in [barrier : BOOLEAN, gap : {FALSE}, faults : {0}, keys : {k}, stages : {0}]
  BY DEF CatalogInit
<1>2. staged = {} /\ undo = Durable(db, state) /\ proc = Down /\ saves = 0 /\ told = FALSE
  BY DEF CatalogInit
<1>3. state \in States /\ (kind = "plain" => state # "set")
  BY <1>1 DEF States
<1>4. /\ 0 \in 0 .. MaxCatalogKeys /\ 0 \in 0 .. MaxSaves /\ 0 \in 0 .. MaxFaults /\ 0 \in 0 .. MaxStages
      /\ k \in 0 .. MaxCatalogKeys
  BY <1>1, CatalogAssumption
<1>5. db \in Database /\ db.kind = kind /\ db.data = 0 /\ (kind = "encrypted" => db.key = k)
  BY <1>1, <1>4 DEF Database
<1>6. undo \in [db : Database, state : States] /\ undo.db = db
  BY <1>2, <1>3, <1>5 DEF Durable
<1>7. proc \in ProcType /\ proc.at = "down" /\ proc.goal = "start"
  BY <1>2, <1>4 DEF Down, ProcType, Steps, Goals
<1>8. CatalogTypeOK
  BY <1>1, <1>2, <1>3, <1>4, <1>5, <1>6, <1>7 DEF CatalogTypeOK, ProcType
<1>9. KeyKept
  BY <1>1, <1>2, <1>5 DEF KeyKept
<1>10. InStep /\ WithinBounds
  BY <1>1, <1>5, <1>7 DEF InStep, WithinBounds
<1>11. Promised
  BY <1>1, <1>2, <1>5, <1>6 DEF Promised
<1> QED BY <1>6, <1>8, <1>9, <1>10, <1>11 DEF CatalogInv

\* Opening the database changes nothing but a missing file.
LEMMA OpenPreserves ==
  ASSUME CatalogInv,
         OpenAgreeing \/ OpenStateless \/ OpenPlaintext \/ OpenMissing \/ OpenFresh \/ OpenRefused
  PROVE  CatalogInv'
<1> USE DEF Steps
<1>1. CatalogTypeOK /\ KeyKept /\ InStep /\ WithinBounds /\ proc.at = "opening"
      /\ db.kind \in {"plain", "encrypted", "missing"}
  BY DEF CatalogInv, OpenAgreeing, OpenStateless, OpenPlaintext, OpenMissing, OpenFresh, OpenRefused,
         CatalogTypeOK, Database
<1>2. CASE OpenAgreeing
  <2>1. Go("cleanup") /\ UNCHANGED <<db, staged, state, catalogKey, undo, saves, told, env>>
        /\ Agrees(db, state)
    BY <1>2 DEF OpenAgreeing
  <2>2. proc' \in ProcType /\ proc'.at = "cleanup" /\ proc'.goal = proc.goal
    BY <1>1, <2>1, ProcMoves
  <2>3. InStep' /\ WithinBounds'
    BY <1>1, <2>1, <2>2 DEF InStep, WithinBounds, Agrees, Unlocks
  <2> QED BY <1>1, <2>1, <2>2, <2>3, OnlyTheDaemon DEF CatalogTypeOK
<1>3. CASE OpenStateless
  <2>1. Go("publish") /\ UNCHANGED <<db, staged, state, catalogKey, undo, saves, told, env>>
        /\ Unlocks(db)
    BY <1>3 DEF OpenStateless
  <2>2. proc' \in ProcType /\ proc'.at = "publish" /\ proc'.goal = proc.goal
    BY <1>1, <2>1, ProcMoves
  <2>3. InStep' /\ WithinBounds'
    BY <1>1, <2>1, <2>2 DEF InStep, WithinBounds, Unlocks
  <2> QED BY <1>1, <2>1, <2>2, <2>3, OnlyTheDaemon DEF CatalogTypeOK
<1>4. CASE OpenPlaintext
  <2>1. Go("keyed") /\ UNCHANGED <<db, staged, state, catalogKey, undo, saves, told, env>>
        /\ db.kind = "plain" /\ catalogKey # 0
    BY <1>4 DEF OpenPlaintext
  <2>2. proc' \in ProcType /\ proc'.at = "keyed" /\ proc'.goal = proc.goal
    BY <1>1, <2>1, ProcMoves
  <2>3. InStep' /\ WithinBounds'
    BY <1>1, <2>1, <2>2 DEF InStep, WithinBounds
  <2> QED BY <1>1, <2>1, <2>2, <2>3, OnlyTheDaemon DEF CatalogTypeOK
<1>5. CASE OpenMissing
  <2>1. PICK s \in Restorable : Replacing(s)
    BY <1>5 DEF OpenMissing
  <2>2. db.kind = "missing" /\ UNCHANGED <<db, staged, state, catalogKey, undo, saves, told, env>>
    BY <1>5 DEF OpenMissing
  <2>3. s \in staged /\ s.copy /\ s.manifest
    BY DEF Restorable
  <2>4. proc' \in ProcType /\ proc'.at = "ready" /\ proc'.goal = proc.goal
    BY <1>1, <2>1, <2>3, ProcMoves
  <2>5. InStep' /\ WithinBounds'
    BY <1>1, <2>2, <2>3, <2>4 DEF InStep, WithinBounds
  <2> QED BY <1>1, <2>2, <2>4, <2>5, OnlyTheDaemon DEF CatalogTypeOK
<1>6. CASE OpenFresh
  <2>1. db.kind = "missing" /\ state = "none" /\ staged = {} /\ Go("opened")
        /\ db' = Plain(0) /\ undo' = [undo EXCEPT !.db = Plain(0)]
        /\ UNCHANGED <<staged, state, catalogKey, saves, told, env>>
    BY <1>6 DEF OpenFresh
  <2>2. proc' \in ProcType /\ proc'.at = "opened" /\ proc'.goal = proc.goal
    BY <1>1, <2>1, ProcMoves
  <2>3. Plain(0) \in Database /\ Plain(0).kind = "plain"
    BY CatalogAssumption DEF Plain, Database
  <2>4. undo' \in [db : Database, state : States] /\ undo'.db = Plain(0)
    BY <1>1, <2>1, <2>3 DEF CatalogTypeOK
  <2>5. CatalogTypeOK'
    BY <1>1, <2>1, <2>2, <2>3, <2>4 DEF CatalogTypeOK, ProcType
  <2>6. KeyKept'
    BY <1>1, <2>1, <2>3 DEF KeyKept
  <2>7. InStep' /\ WithinBounds'
    BY <1>1, <2>1, <2>2, <2>3 DEF InStep, WithinBounds
  <2>8. ~(env.barrier /\ ~env.gap)
    BY <2>1 DEF CatalogInv, Promised
  <2> QED BY <2>1, <2>4, <2>5, <2>6, <2>7, <2>8 DEF CatalogInv
<1>7. CASE OpenRefused
  <2>1. proc' = Leave /\ UNCHANGED <<db, staged, state, catalogKey, undo, saves, told, env>>
    BY <1>7 DEF OpenRefused
  <2>2. proc' \in ProcType /\ proc'.at \in {"down", "idle"} /\ proc'.goal = "start"
        /\ (proc.goal = "start" => proc'.at = "down")
    BY <1>1, <2>1, ProcMoves
  <2>3. InStep' /\ WithinBounds'
    BY <1>1, <2>1, <2>2 DEF InStep, WithinBounds
  <2> QED BY <1>1, <2>1, <2>2, <2>3, OnlyTheDaemon DEF CatalogTypeOK
<1> QED BY <1>2, <1>3, <1>4, <1>5, <1>6, <1>7


\* A stage that loses its copy or its manifest keeps its key and what it holds.
LEMMA StagesKeep ==
  ASSUME staged \subseteq Stage, NEW s \in staged, NEW copy \in BOOLEAN, NEW manifest \in BOOLEAN
  PROVE  /\ Without(s, copy, manifest) \subseteq Stage
         /\ \A t \in Without(s, copy, manifest) :
              \E u \in staged : t.key = u.key /\ t.data = u.data
         /\ copy /\ manifest => \E t \in Without(s, copy, manifest) : t.copy /\ t.manifest
<1> DEFINE n == [s EXCEPT !.copy = copy, !.manifest = manifest]
<1>1. s \in Stage
  OBVIOUS
<1>2. n \in Stage /\ n.key = s.key /\ n.data = s.data /\ n.copy = copy /\ n.manifest = manifest
  BY <1>1 DEF Stage
<1>3. Without(s, copy, manifest) = (staged \ {s}) \cup (IF copy \/ manifest THEN {n} ELSE {})
  BY DEF Without
<1> HIDE DEF n
<1>4. \A t \in Without(s, copy, manifest) : t \in staged \/ t = n
  BY <1>3
<1>5. copy /\ manifest => n \in Without(s, copy, manifest)
  BY <1>3
<1> QED BY <1>2, <1>4, <1>5

\* Starting, serving, a request, the end of an activation: nothing on disk.
LEMMA RunPreserves ==
  ASSUME CatalogInv,
         \/ Start \/ Serve \/ Activated \/ (\E goal \in {"save", "first"} : Request(goal))
  PROVE  CatalogInv'
<1> USE DEF Steps
<1>1. CatalogTypeOK /\ KeyKept /\ InStep /\ WithinBounds /\ 0 \in 0 .. MaxStages
  BY CatalogAssumption DEF CatalogInv
<1>2. CASE Start
  <2>1. proc.at = "down" /\ proc' = [Down EXCEPT !.at = "opening"]
        /\ UNCHANGED <<db, staged, state, catalogKey, undo, saves, told, env>>
    BY <1>2 DEF Start
  <2>2. proc' \in ProcType /\ proc'.at = "opening" /\ proc'.goal = "start"
    BY <1>1, <2>1 DEF Down, ProcType, Goals
  <2>3. InStep' /\ WithinBounds'
    BY <1>1, <2>1, <2>2 DEF InStep, WithinBounds
  <2> QED BY <1>1, <2>1, <2>2, <2>3, OnlyTheDaemon DEF CatalogTypeOK
<1>3. CASE Serve
  <2>1. proc.at = "opened" /\ proc' = Idle
        /\ UNCHANGED <<db, staged, state, catalogKey, undo, saves, told, env>>
    BY <1>3 DEF Serve
  <2>2. proc' \in ProcType /\ proc'.at = "idle" /\ proc'.goal = "start"
    BY <1>1, <2>1, ProcMoves
  <2>3. InStep' /\ WithinBounds'
    BY <1>1, <2>1, <2>2 DEF InStep, WithinBounds
  <2> QED BY <1>1, <2>1, <2>2, <2>3, OnlyTheDaemon DEF CatalogTypeOK
<1>4. CASE Activated
  <2>1. proc.at = "opened" /\ proc' = Idle /\ told' = TRUE
        /\ UNCHANGED <<db, staged, state, catalogKey, undo, saves, env>>
    BY <1>4 DEF Activated
  <2>2. proc' \in ProcType /\ proc'.at = "idle" /\ proc'.goal = "start"
    BY <1>1, <2>1, ProcMoves
  <2>3. InStep' /\ WithinBounds'
    BY <1>1, <2>1, <2>2 DEF InStep, WithinBounds
  <2> QED BY <1>1, <2>1, <2>2, <2>3, OnlyTheDaemon
<1>5. ASSUME NEW goal \in {"save", "first"}, Request(goal)
      PROVE  CatalogInv'
  <2>1. proc.at = "idle" /\ saves < MaxSaves /\ (goal = "first" => env.keys < MaxCatalogKeys)
        /\ proc' = [at |-> "opening", goal |-> goal, tx |-> 0]
        /\ UNCHANGED <<db, staged, state, catalogKey, undo, saves, told, env>>
    BY <1>5 DEF Request
  <2>2. proc' \in ProcType /\ proc'.at = "opening" /\ proc'.goal = goal
    BY <1>1, <2>1 DEF ProcType, Goals
  <2>3. db.kind # "missing"
    BY <1>1, <2>1 DEF InStep
  <2>4. InStep' /\ WithinBounds'
    BY <1>1, <2>1, <2>2, <2>3 DEF InStep, WithinBounds
  <2> QED BY <1>1, <2>1, <2>2, <2>4, OnlyTheDaemon DEF CatalogTypeOK
<1> QED BY <1>2, <1>3, <1>4, <1>5

\* Staged copies are removed: what a power loss may undo sets the gap.
LEMMA CleanupPreserves == CatalogInv /\ Cleanup => CatalogInv'
<1> SUFFICES ASSUME CatalogInv, Cleanup PROVE CatalogInv'
  OBVIOUS
<1> USE DEF Steps
<1>1. CatalogTypeOK /\ KeyKept /\ InStep /\ WithinBounds /\ proc.at = "cleanup"
      /\ UNCHANGED <<db, state, catalogKey, saves, told>>
  BY DEF CatalogInv, Cleanup
<1>2. CASE staged = {}
  <2>1. Go("opened") /\ UNCHANGED <<staged, undo, env>>
    BY <1>2 DEF Cleanup
  <2>2. proc' \in ProcType /\ proc'.at = "opened" /\ proc'.goal = proc.goal
    BY <1>1, <2>1, ProcMoves
  <2>3. InStep' /\ WithinBounds'
    BY <1>1, <1>2, <2>1, <2>2 DEF InStep, WithinBounds
  <2> QED BY <1>1, <2>1, <2>2, <2>3, OnlyTheDaemon DEF CatalogTypeOK
<1>3. CASE staged # {}
  <2>1. PICK s \in staged :
          \/ s.copy /\ staged' = Without(s, FALSE, s.manifest)
          \/ s.manifest /\ staged' = Without(s, s.copy, FALSE)
    BY <1>3 DEF Cleanup
  <2>2. s.copy \in BOOLEAN /\ s.manifest \in BOOLEAN /\ staged \subseteq Stage
    BY <1>1 DEF CatalogTypeOK, Stage
  <2>3. staged' \subseteq Stage /\ \A t \in staged' : \E u \in staged : t.key = u.key /\ t.data = u.data
    BY <2>1, <2>2, StagesKeep
  <2>4. env' = [env EXCEPT !.gap = @ \/ undo.db # db] /\ UNCHANGED proc
        /\ undo' \in {undo, [undo EXCEPT !.db = db]}
    BY <1>3 DEF Cleanup
  <2>5. undo' \in [db : Database, state : States] /\ undo'.db \in {undo.db, db}
    BY <1>1, <2>4 DEF CatalogTypeOK
  <2>6. env' \in [barrier : BOOLEAN, gap : BOOLEAN, faults : 0 .. MaxFaults,
                  keys : 0 .. MaxCatalogKeys, stages : 0 .. MaxStages]
        /\ env'.barrier = env.barrier /\ env'.keys = env.keys
        /\ (~env'.gap => ~env.gap /\ undo.db = db)
    <3>1. (env.gap \/ undo.db # db) \in BOOLEAN
      BY <1>1 DEF CatalogTypeOK
    <3> QED BY <1>1, <2>4, <3>1 DEF CatalogTypeOK
  <2>7. CatalogTypeOK'
    BY <1>1, <2>3, <2>4, <2>5, <2>6 DEF CatalogTypeOK
  <2>8. KeyKept'
    BY <1>1, <2>3 DEF KeyKept
  <2>9. InStep' /\ WithinBounds'
    BY <1>1, <2>4, <2>6 DEF InStep, WithinBounds
  <2>10. undo'.db.kind = "encrypted" => undo'.db = db'
    BY <1>1, <2>5 DEF CatalogInv
  <2>11. ASSUME env'.barrier, ~env'.gap PROVE Promised'
    <3>1. Promised /\ undo'.db = db /\ db.kind # "missing"
      BY <1>1, <2>5, <2>6, <2>11 DEF CatalogInv, InStep
    <3> QED BY <1>1, <2>3, <3>1 DEF Promised
  <2> QED BY <2>7, <2>8, <2>9, <2>10, <2>11 DEF CatalogInv
<1> QED BY <1>2, <1>3

\* The verified copy is staged under the stored key, with all that was saved.
LEMMA PromotePreserves == CatalogInv /\ Promote => CatalogInv'
<1> SUFFICES ASSUME CatalogInv, Promote PROVE CatalogInv'
  OBVIOUS
<1> USE DEF Steps
<1> DEFINE n == [tx |-> env.stages + 1, key |-> catalogKey, data |-> db.data,
                 copy |-> TRUE, manifest |-> FALSE]
<1>1. CatalogTypeOK /\ KeyKept /\ InStep /\ WithinBounds /\ proc.at = "keyed"
      /\ db.kind = "plain" /\ env.stages < MaxStages
      /\ staged' = staged \cup {n} /\ env' = [env EXCEPT !.stages = @ + 1] /\ Go("copied")
      /\ UNCHANGED <<db, state, catalogKey, undo, saves, told>>
  BY DEF CatalogInv, Promote
<1>2. n \in Stage /\ n.key = catalogKey /\ n.data = db.data
  <2>1. catalogKey \in CatalogKeys
    BY <1>1 DEF CatalogTypeOK, InStep, CatalogKeys
  <2>2. env.stages + 1 \in 1 .. MaxStages /\ db.data \in 0 .. MaxSaves
    BY <1>1, CatalogAssumption DEF CatalogTypeOK, Database
  <2> QED BY <2>1, <2>2 DEF Stage
<1> HIDE DEF n
<1>3. proc' \in ProcType /\ proc'.at = "copied" /\ proc'.goal = proc.goal
  BY <1>1, ProcMoves
<1>4. env' \in [barrier : BOOLEAN, gap : BOOLEAN, faults : 0 .. MaxFaults,
                keys : 0 .. MaxCatalogKeys, stages : 0 .. MaxStages]
      /\ env'.barrier = env.barrier /\ env'.keys = env.keys /\ env'.gap = env.gap
  <2>1. env.stages + 1 \in 0 .. MaxStages
    BY <1>1, CatalogAssumption DEF CatalogTypeOK
  <2> QED BY <1>1, <2>1 DEF CatalogTypeOK
<1>5. CatalogTypeOK'
  BY <1>1, <1>2, <1>3, <1>4 DEF CatalogTypeOK, ProcType
<1>6. KeyKept'
  BY <1>1, <1>2 DEF KeyKept
<1>7. InStep' /\ WithinBounds'
  BY <1>1, <1>3, <1>4 DEF InStep, WithinBounds
<1>8. ASSUME env'.barrier, ~env'.gap PROVE Promised'
  <2>1. Promised
    BY <1>4, <1>8 DEF CatalogInv
  <2> QED BY <1>1, <1>2, <2>1 DEF Promised
<1> QED BY <1>1, <1>5, <1>6, <1>7, <1>8 DEF CatalogInv

\* The copy gets its manifest: from here a missing database can be put back.
LEMMA ManifestPreserves == CatalogInv /\ WriteManifest => CatalogInv'
<1> SUFFICES ASSUME CatalogInv, WriteManifest PROVE CatalogInv'
  OBVIOUS
<1> USE DEF Steps
<1>1. CatalogTypeOK /\ KeyKept /\ InStep /\ WithinBounds /\ proc.at = "copied"
      /\ UNCHANGED <<db, state, catalogKey, undo, saves, told, env>>
  BY DEF CatalogInv, WriteManifest
<1>2. PICK s \in staged : staged' = Without(s, TRUE, TRUE) /\ Replacing(s)
  BY DEF WriteManifest
<1>3. /\ staged' \subseteq Stage
      /\ \A t \in staged' : \E u \in staged : t.key = u.key /\ t.data = u.data
      /\ \E t \in staged' : t.copy /\ t.manifest
  BY <1>1, <1>2, StagesKeep DEF CatalogTypeOK
<1>4. proc' \in ProcType /\ proc'.at = "ready" /\ proc'.goal = proc.goal
  BY <1>1, <1>2, ProcMoves
<1>5. CatalogTypeOK'
  BY <1>1, <1>3, <1>4 DEF CatalogTypeOK, ProcType
<1>6. KeyKept'
  BY <1>1, <1>3 DEF KeyKept
<1>7. InStep' /\ WithinBounds'
  BY <1>1, <1>3, <1>4 DEF InStep, WithinBounds
<1>8. ASSUME env'.barrier, ~env'.gap PROVE Promised'
  BY <1>1, <1>3, <1>8 DEF CatalogInv, Promised
<1> QED BY <1>1, <1>5, <1>6, <1>7, <1>8 DEF CatalogInv

\* The copy takes the name of the database: what it holds is what was saved.
LEMMA SwapPreserves == CatalogInv /\ Swap => CatalogInv'
<1> SUFFICES ASSUME CatalogInv, Swap PROVE CatalogInv'
  OBVIOUS
<1> USE DEF Steps
<1>1. CatalogTypeOK /\ KeyKept /\ InStep /\ WithinBounds /\ proc.at = "ready" /\ Go("renamed")
      /\ UNCHANGED <<staged, state, catalogKey, undo, saves, told, env>>
  BY DEF CatalogInv, Swap
<1>2. PICK s \in staged : db' = Encrypted(s)
  BY DEF Swap
<1>3. s \in Stage /\ s.key = catalogKey
  BY <1>1 DEF CatalogTypeOK, KeyKept
<1>4. db' \in Database /\ db'.kind = "encrypted" /\ db'.key = catalogKey /\ db'.data = s.data
  BY <1>2, <1>3, CatalogAssumption DEF Encrypted, Stage, Database, CatalogKeys
<1>5. proc' \in ProcType /\ proc'.at = "renamed" /\ proc'.goal = proc.goal
  BY <1>1, ProcMoves
<1>6. CatalogTypeOK'
  BY <1>1, <1>4, <1>5 DEF CatalogTypeOK, ProcType
<1>7. KeyKept'
  BY <1>1, <1>4 DEF KeyKept
<1>8. InStep' /\ WithinBounds'
  BY <1>1, <1>4, <1>5 DEF InStep, WithinBounds
<1>9. undo'.db.kind # "encrypted"
  BY <1>1 DEF CatalogInv, InStep
<1>10. ASSUME env'.barrier, ~env'.gap PROVE Promised'
  <2>1. Promised /\ \E t \in staged : t.copy /\ t.manifest
    BY <1>1, <1>10 DEF CatalogInv, InStep
  <2> QED BY <1>1, <1>3, <1>4, <2>1 DEF Promised
<1> QED BY <1>6, <1>7, <1>8, <1>9, <1>10 DEF CatalogInv


\* Synchronising a directory, publishing the state, and the system's own flush
\* only take from what a power loss may undo.
LEMMA PublishPreserves ==
  ASSUME CatalogInv, SyncDirectory \/ PublishState \/ SyncState \/ Flush
  PROVE  CatalogInv'
<1> USE DEF Steps, States
<1>1. CatalogTypeOK /\ KeyKept /\ InStep /\ WithinBounds
      /\ UNCHANGED <<db, staged, catalogKey, saves, told, env>>
  BY DEF CatalogInv, SyncDirectory, PublishState, SyncState, Flush
<1>2. undo' \in [db : Database, state : States] /\ undo'.db \in {undo.db, db} /\ state' \in States
  <2>1. undo \in [db : Database, state : States] /\ db \in Database /\ state \in States
    BY <1>1 DEF CatalogTypeOK
  <2>2. CASE SyncDirectory
    BY <2>1, <2>2 DEF SyncDirectory
  <2>3. CASE PublishState
    BY <2>1, <2>3 DEF PublishState
  <2>4. CASE SyncState
    BY <2>1, <2>4 DEF SyncState
  <2>5. CASE Flush
    BY <2>1, <2>5 DEF Flush, Durable
  <2> QED BY <2>2, <2>3, <2>4, <2>5
<1>3. proc' \in ProcType /\ InStep' /\ WithinBounds'
  <2>1. CASE SyncDirectory
    <3>1. proc.at = "renamed" /\ Go("publish") /\ state' = state
      BY <2>1 DEF SyncDirectory
    <3>2. proc' \in ProcType /\ proc'.at = "publish" /\ proc'.goal = proc.goal
      BY <1>1, <3>1, ProcMoves
    <3> QED BY <1>1, <3>1, <3>2 DEF InStep, WithinBounds
  <2>2. CASE PublishState
    <3>1. proc.at = "publish" /\ Go("stated") /\ state' = "set"
      BY <2>2 DEF PublishState
    <3>2. proc' \in ProcType /\ proc'.at = "stated" /\ proc'.goal = proc.goal
      BY <1>1, <3>1, ProcMoves
    <3> QED BY <1>1, <3>1, <3>2 DEF InStep, WithinBounds
  <2>3. CASE SyncState
    <3>1. proc.at = "stated" /\ Go("cleanup") /\ state' = state
      BY <2>3 DEF SyncState
    <3>2. proc' \in ProcType /\ proc'.at = "cleanup" /\ proc'.goal = proc.goal
      BY <1>1, <3>1, ProcMoves
    <3> QED BY <1>1, <3>1, <3>2 DEF InStep, WithinBounds
  <2>4. CASE Flush
    <3>1. UNCHANGED <<proc, state>>
      BY <2>4 DEF Flush
    <3> QED BY <1>1, <3>1 DEF InStep, WithinBounds, CatalogTypeOK, ProcType
  <2> QED BY <2>1, <2>2, <2>3, <2>4
<1>4. CatalogTypeOK'
  BY <1>1, <1>2, <1>3 DEF CatalogTypeOK, ProcType
<1>5. KeyKept'
  BY <1>1 DEF KeyKept
<1>6. undo'.db.kind = "encrypted" => undo'.db = db'
  BY <1>1, <1>2 DEF CatalogInv
<1>7. ASSUME env'.barrier, ~env'.gap PROVE Promised'
  <2>1. Promised
    BY <1>1, <1>7 DEF CatalogInv
  <2>2. CASE undo'.db = undo.db
    BY <1>1, <2>1, <2>2 DEF Promised
  <2>3. CASE undo'.db = db
    BY <1>1, <2>1, <2>3 DEF Promised
  <2> QED BY <1>2, <2>2, <2>3
<1> QED BY <1>3, <1>4, <1>5, <1>6, <1>7 DEF CatalogInv

\* A save writes the database that was opened, and a power loss that undoes
\* no rename undoes no save.
LEMMA CommittedKeeps ==
  ASSUME CatalogInv, Committed, proc.at = "opened", saves < MaxSaves, UNCHANGED staged
  PROVE  /\ db' \in Database /\ db'.kind = db.kind /\ db'.key = db.key
         /\ db.kind # "missing" /\ staged = {} /\ saves' \in 0 .. MaxSaves
         /\ undo' \in [db : Database, state : States]
         /\ undo'.db.kind = "encrypted" => undo'.db = db'
         /\ env.barrier /\ ~env.gap => Promised'
<1>1. CatalogTypeOK /\ InStep
  BY DEF CatalogInv
<1>2. db.kind # "missing" /\ staged = {}
  BY <1>1 DEF InStep
<1>3. saves' = saves + 1 /\ saves' \in 0 .. MaxSaves /\ db' = [db EXCEPT !.data = saves']
      /\ undo' = IF undo.db = db THEN [undo EXCEPT !.db = db'] ELSE undo
  BY <1>1, CatalogAssumption DEF Committed, CatalogTypeOK
<1>4. db' \in Database /\ db'.kind = db.kind /\ db'.key = db.key /\ db'.data = saves'
  BY <1>1, <1>3 DEF CatalogTypeOK, Database
<1>5. undo' \in [db : Database, state : States]
      /\ undo'.db = IF undo.db = db THEN db' ELSE undo.db
  <2>1. undo \in [db : Database, state : States]
    BY <1>1 DEF CatalogTypeOK
  <2> QED BY <1>3, <1>4, <2>1
<1>6. undo'.db.kind = "encrypted" => undo'.db = db'
  BY <1>5 DEF CatalogInv
<1>7. ASSUME env.barrier, ~env.gap PROVE Promised'
  <2>1. undo.db = db
    BY <1>2, <1>7 DEF CatalogInv, Promised
  <2> QED BY <1>2, <1>4, <1>5, <2>1 DEF Promised
<1> QED BY <1>2, <1>3, <1>4, <1>5, <1>6, <1>7

\* A save, to a database that has just been opened.
LEMMA CommitPreserves == CatalogInv /\ CommitSave => CatalogInv'
<1> SUFFICES ASSUME CatalogInv, CommitSave PROVE CatalogInv'
  OBVIOUS
<1> USE DEF Steps
<1>1. CatalogTypeOK /\ KeyKept /\ InStep /\ WithinBounds /\ proc.at = "opened" /\ proc.goal = "save"
      /\ Committed /\ proc' = Idle /\ UNCHANGED <<staged, state, catalogKey, told, env>>
  BY DEF CatalogInv, CommitSave
<1>2. saves < MaxSaves
  BY <1>1 DEF WithinBounds
<1>3. /\ db' \in Database /\ db'.kind = db.kind /\ db'.key = db.key
      /\ db.kind # "missing" /\ staged = {} /\ saves' \in 0 .. MaxSaves
      /\ undo' \in [db : Database, state : States]
      /\ undo'.db.kind = "encrypted" => undo'.db = db'
      /\ env.barrier /\ ~env.gap => Promised'
  BY <1>1, <1>2, CommittedKeeps
<1>4. proc' \in ProcType /\ proc'.at = "idle" /\ proc'.goal = "start"
  BY <1>1, ProcMoves
<1>5. CatalogTypeOK'
  BY <1>1, <1>3, <1>4 DEF CatalogTypeOK, ProcType
<1>6. KeyKept'
  BY <1>1, <1>3 DEF KeyKept
<1>7. InStep' /\ WithinBounds'
  BY <1>1, <1>3, <1>4 DEF InStep, WithinBounds
<1> QED BY <1>1, <1>3, <1>5, <1>6, <1>7 DEF CatalogInv

\* A key is replaced only when nothing on the disk needs the one before.
LEMMA StoreKeyPreserves == CatalogInv /\ StoreKey => CatalogInv'
<1> SUFFICES ASSUME CatalogInv, StoreKey PROVE CatalogInv'
  OBVIOUS
<1> USE DEF Steps
<1>1. CatalogTypeOK /\ KeyKept /\ InStep /\ WithinBounds /\ proc.at = "opened" /\ proc.goal = "first"
      /\ Committed /\ UNCHANGED <<staged, state>>
  BY DEF CatalogInv, StoreKey
<1>2. saves < MaxSaves /\ env.keys < MaxCatalogKeys /\ 0 \in 0 .. MaxStages
  BY <1>1, CatalogAssumption DEF WithinBounds
<1>3. /\ db' \in Database /\ db'.kind = db.kind /\ db'.key = db.key
      /\ db.kind # "missing" /\ staged = {} /\ saves' \in 0 .. MaxSaves
      /\ undo' \in [db : Database, state : States]
      /\ undo'.db.kind = "encrypted" => undo'.db = db'
      /\ env.barrier /\ ~env.gap => Promised'
  BY <1>1, <1>2, CommittedKeeps
<1>4. CASE state = "set"
  <2>1. proc' = Idle /\ told' = TRUE /\ UNCHANGED <<catalogKey, env>>
    BY <1>4 DEF StoreKey
  <2>2. proc' \in ProcType /\ proc'.at = "idle" /\ proc'.goal = "start"
    BY <1>1, <2>1, ProcMoves
  <2>3. CatalogTypeOK'
    BY <1>1, <1>3, <2>1, <2>2 DEF CatalogTypeOK, ProcType
  <2>4. KeyKept'
    BY <1>1, <1>3, <2>1 DEF KeyKept
  <2>5. InStep' /\ WithinBounds'
    BY <1>1, <1>3, <2>1, <2>2 DEF InStep, WithinBounds
  <2> QED BY <1>3, <2>1, <2>3, <2>4, <2>5 DEF CatalogInv
<1>5. CASE state # "set"
  <2>1. /\ db.kind = "plain" /\ catalogKey' = env.keys + 1 /\ env' = [env EXCEPT !.keys = @ + 1]
        /\ proc' = [at |-> "keyed", goal |-> "row", tx |-> 0] /\ UNCHANGED told
    BY <1>5 DEF StoreKey
  <2>2. proc' \in ProcType /\ proc'.at = "keyed" /\ proc'.goal = "row"
    BY <1>2, <2>1 DEF ProcType, Goals
  <2>3. catalogKey' \in 0 .. MaxCatalogKeys /\ catalogKey' # 0 /\ env.keys + 1 \in 0 .. MaxCatalogKeys
    BY <1>1, <1>2, <2>1, CatalogAssumption DEF CatalogTypeOK
  <2>4. env' \in [barrier : BOOLEAN, gap : BOOLEAN, faults : 0 .. MaxFaults,
                  keys : 0 .. MaxCatalogKeys, stages : 0 .. MaxStages]
        /\ env'.barrier = env.barrier /\ env'.gap = env.gap
    BY <1>1, <2>1, <2>3 DEF CatalogTypeOK
  <2>5. CatalogTypeOK'
    BY <1>1, <1>3, <2>1, <2>2, <2>3, <2>4 DEF CatalogTypeOK, ProcType
  <2>6. KeyKept'
    BY <1>1, <1>3, <2>1 DEF KeyKept
  <2>7. InStep' /\ WithinBounds'
    BY <1>1, <1>3, <2>1, <2>2, <2>3 DEF InStep, WithinBounds
  <2> QED BY <1>3, <2>4, <2>5, <2>6, <2>7 DEF CatalogInv
<1> QED BY <1>4, <1>5

\* A failure, a killed process, a power loss: what is left can be opened.
LEMMA FaultsPreserve == CatalogInv /\ (Fail \/ Kill \/ PowerLoss) => CatalogInv'
<1> SUFFICES ASSUME CatalogInv, Fail \/ Kill \/ PowerLoss PROVE CatalogInv'
  OBVIOUS
<1> USE DEF Steps
<1>1. CatalogTypeOK /\ KeyKept /\ InStep /\ WithinBounds /\ Faulty
      /\ UNCHANGED <<staged, catalogKey, saves, told>>
  BY DEF CatalogInv, Fail, Kill, PowerLoss
<1>2. env' \in [barrier : BOOLEAN, gap : BOOLEAN, faults : 0 .. MaxFaults,
                keys : 0 .. MaxCatalogKeys, stages : 0 .. MaxStages]
      /\ env'.barrier = env.barrier /\ env'.keys = env.keys /\ env'.gap = env.gap
  <2>1. env.faults + 1 \in 0 .. MaxFaults
    BY <1>1, CatalogAssumption DEF Faulty, CatalogTypeOK
  <2> QED BY <1>1, <2>1 DEF Faulty, CatalogTypeOK
<1>3. CASE Fail \/ Kill
  <2>1. UNCHANGED <<db, state, undo>> /\ proc' \in {Leave, Down}
        /\ (proc' = Leave => proc.at \notin {"down", "idle"} \/ proc' = Down)
    BY <1>3 DEF Fail, Kill
  <2>2. proc' \in ProcType /\ proc'.at \in {"down", "idle"} /\ proc'.goal = "start"
        /\ (proc.goal = "start" => proc'.at = "down")
    BY <1>1, <2>1, ProcMoves
  <2>3. CatalogTypeOK'
    BY <1>1, <1>2, <2>1, <2>2 DEF CatalogTypeOK, ProcType
  <2>4. KeyKept'
    BY <1>1, <2>1 DEF KeyKept
  <2>5. InStep' /\ WithinBounds'
    BY <1>1, <1>2, <2>1, <2>2 DEF InStep, WithinBounds
  <2> QED BY <1>1, <1>2, <2>1, <2>3, <2>4, <2>5 DEF CatalogInv, Promised
<1>4. CASE PowerLoss
  <2>1. /\ db' \in {db, undo.db} \cup (IF undo.db # db THEN {Missing} ELSE {})
        /\ state' \in {state, undo.state, "torn"}
        /\ undo' = Durable(db', state') /\ proc' = Down
    BY <1>4 DEF PowerLoss
  <2>2. Missing \in Database /\ Missing.kind = "missing"
    BY CatalogAssumption DEF Missing, Database
  <2>3. db' \in Database /\ state' \in States /\ undo.db \in Database
    BY <1>1, <2>1, <2>2 DEF CatalogTypeOK, States
  <2>4. undo' \in [db : Database, state : States] /\ undo'.db = db'
    BY <2>1, <2>3 DEF Durable
  <2>5. proc' \in ProcType /\ proc'.at = "down" /\ proc'.goal = "start"
    BY <1>1, <2>1, ProcMoves
  <2>6. CatalogTypeOK'
    BY <1>1, <1>2, <2>3, <2>4, <2>5 DEF CatalogTypeOK, ProcType
  <2>7. db'.kind = "encrypted" => db' = db
    BY <2>1, <2>2 DEF CatalogInv
  <2>8. KeyKept'
    BY <1>1, <2>7 DEF KeyKept
  <2>9. InStep' /\ WithinBounds'
    BY <2>5 DEF InStep, WithinBounds
  <2>10. ASSUME env'.barrier, ~env'.gap PROVE Promised'
    <3>1. Promised
      BY <1>2, <2>10 DEF CatalogInv
    <3>2. db' = db \/ db' = undo.db \/ (db'.kind = "missing" /\ undo.db # db)
      BY <2>1, <2>2
    <3>3. db'.kind # "missing" => db'.data = saves
      BY <3>1, <3>2 DEF Promised
    <3>4. db'.kind = "missing" => \E s \in staged : s.copy /\ s.manifest
      BY <3>1, <3>2 DEF Promised
    <3> QED BY <1>1, <2>4, <3>1, <3>3, <3>4 DEF Promised
  <2> QED BY <2>4, <2>6, <2>8, <2>9, <2>10 DEF CatalogInv
<1> QED BY <1>3, <1>4

\* Every step of the daemon, and every fault, preserves the invariant.
THEOREM CatalogInvariance == CatalogSpec => []CatalogInv
<1>1. CatalogInv /\ [CatalogNext]_catalogVars => CatalogInv'
  <2> SUFFICES ASSUME CatalogInv, [CatalogNext]_catalogVars PROVE CatalogInv'
    OBVIOUS
  <2>1. CASE Continue
    BY <2>1, OpenPreserves, CleanupPreserves, PromotePreserves, ManifestPreserves, SwapPreserves,
       PublishPreserves, RunPreserves, CommitPreserves, StoreKeyPreserves DEF Continue
  <2>2. CASE \E goal \in {"save", "first"} : Request(goal)
    BY <2>2, RunPreserves
  <2>3. CASE Fail \/ Kill \/ PowerLoss
    BY <2>3, FaultsPreserve
  <2>4. CASE Flush
    BY <2>4, PublishPreserves
  <2>5. CASE UNCHANGED catalogVars
    BY <2>5 DEF catalogVars, CatalogInv, CatalogTypeOK, KeyKept, InStep, WithinBounds, Promised
  <2> QED BY <2>1, <2>2, <2>3, <2>4, <2>5 DEF CatalogNext
<1> QED BY <1>1, CatalogStarts, PTL DEF CatalogSpec

\* The key in the keychain opens the encrypted database and every staged copy,
\* whatever activation or recovery was interrupted and asked for again.
THEOREM KeyIsKept == CatalogSpec => []KeyKept
<1>1. CatalogInv => KeyKept
  BY DEF CatalogInv
<1> QED BY <1>1, CatalogInvariance, PTL

\* A database is handed out only in the form its state file declares, with
\* every acknowledged save; and a lost name leaves a copy that has them all.
THEOREM OpenedIsWhatWasSaved == CatalogSpec => []OpensWhatWasSaved
<1>1. CatalogInv => OpensWhatWasSaved
  <2> SUFFICES ASSUME CatalogInv PROVE OpensWhatWasSaved
    OBVIOUS
  <2>1. OpenedAsDeclared
    BY DEF CatalogInv, InStep, KeyKept, OpenedAsDeclared
  <2>2. ASSUME env.barrier, ~env.gap
        PROVE  /\ proc.at \in {"idle", "opened"} => db.data = saves
               /\ db.kind = "missing" => Rescue # {}
    <3>1. Promised /\ InStep /\ KeyKept
      BY <2>2 DEF CatalogInv
    <3>2. proc.at \in {"idle", "opened"} => db.data = saves
      BY <3>1 DEF Promised, InStep
    <3>3. ASSUME db.kind = "missing" PROVE Rescue # {}
      <4>1. PICK s \in staged : s.copy /\ s.manifest
        BY <3>1, <3>3 DEF Promised
      <4>2. s \in Rescue
        BY <3>1, <4>1 DEF Rescue, Promised, KeyKept
      <4> QED BY <4>2
    <3> QED BY <3>2, <3>3
  <2> QED BY <2>1, <2>2 DEF OpensWhatWasSaved, AckedSavesKept
<1> QED BY <1>1, CatalogInvariance, PTL
=============================================================================
