---------------------------- MODULE MembersProofs ----------------------------
(***************************************************************************)
(* Theorems about the metadata of a library: who belongs to it (Membership) *)
(* and what a start, a backup and a rebuild make of it (Migration,          *)
(* BackupExport, Indexing).                                                 *)
(***************************************************************************)
EXTENDS Membership, Migration, BackupExport, Indexing, SortingProofs, SequenceTheorems

-----------------------------------------------------------------------------
(***************************************************************************)
(* Theorems about Membership, for any bounds: what a revoked device has     *)
(* left, what tokens open after their end was answered, how often a pairing *)
(* token works, and which device is taken for this machine.                 *)
(*                                                                          *)
(* The argument.  All four are about a library in memory and one in the     *)
(* database that drift apart while saves fail, and about an archive that is *)
(* older than both.  So what is invariant is said of a library and of the   *)
(* identities used up so far (SoundLibrary), is kept by each helper that   *)
(* makes one library of another, and holds of all three libraries.  A library that a  *)
(* handler leaves has no session and no invitation that is more alive than  *)
(* in the one it started from (Follows); what was answered is dead in both  *)
(* libraries, so neither a failed save nor a restart revives it.            *)
(***************************************************************************)

Row == [vault : Nat, device : Nat, gone : BOOLEAN]
Device == [id : Nat, pending : BOOLEAN, gone : BOOLEAN]
Session == [token : Nat, device : Nat, vault : Nat, gone : BOOLEAN]
Invite == [token : Nat, vault : Nat, used : BOOLEAN]

LibraryType ==
    [me : Nat, vaults : Seq(Nat), bootstrap : BOOLEAN, devices : Seq(Device),
     members : SUBSET Row, envelopes : SUBSET Row,
     invites : SUBSET Invite, sessions : SUBSET Session, filed : BOOLEAN]

Identities == [devices : Nat, vaults : Nat, invites : Nat, tokens : Nat]

\* A device stands once in the list, under an identity that was handed out.
DevicesStandOnce(lib, n) ==
    /\ \A i \in DOMAIN lib.devices : lib.devices[i].id \in 1 .. n
    /\ \A i, j \in DOMAIN lib.devices : lib.devices[i].id = lib.devices[j].id => i = j

\* A token is the token of one session, or of one invitation.
TokensStandOnce(rows, n) ==
    /\ \A x \in rows : x.token \in 1 .. n
    /\ \A x, y \in rows : x.token = y.token => x = y

NothingForTheGone(lib) ==
    \A x \in lib.members \cup lib.envelopes \cup lib.sessions :
        Gone(lib, x.device) => x.gone

\* While this machine is enrolled it is the first device that is, and no other
\* device waits for its first key.
ThisMachineFirst(lib) ==
    \E k \in DOMAIN lib.devices :
        /\ lib.devices[k].id = lib.me
        /\ ~lib.devices[k].gone =>
              \A i \in DOMAIN lib.devices : ~lib.devices[i].gone =>
                  k <= i /\ (lib.devices[i].pending => i = k)

SoundLibrary(lib, u) ==
    /\ lib \in LibraryType /\ Len(lib.vaults) > 0
    /\ DevicesStandOnce(lib, u.devices)
    /\ TokensStandOnce(lib.sessions, u.tokens)
    /\ TokensStandOnce(lib.invites, u.invites)
    /\ NothingForTheGone(lib)
    /\ ThisMachineFirst(lib)

Ended(lib, t) == \A x \in lib.sessions : x.token = t => x.gone
Spent(lib, t) == \A x \in lib.invites : x.token = t => x.used

\* The inductive invariant.
MembershipInv ==
    /\ used \in Identities
    /\ SoundLibrary(mem, used) /\ SoundLibrary(disk, used)
    /\ archive # <<>> => SoundLibrary(archive[1], used)
    /\ \A t \in dead : t \in 1 .. used.tokens /\ Ended(mem, t) /\ Ended(disk, t)
    /\ \A x \in paired : x \in Nat \X Nat /\ x[1] <= used.invites
                         /\ Spent(mem, x[1]) /\ Spent(disk, x[1])
    /\ TokenPairsOnce

\* Nothing lives in m that was dead in l, but what is new.
Follows(l, m, u) ==
    /\ \A x \in m.sessions : x.token > u.tokens
          \/ \E y \in l.sessions : y.token = x.token /\ (y.gone => x.gone)
    /\ \A x \in m.invites : x.token > u.invites
          \/ \E y \in l.invites : y.token = x.token /\ (y.used => x.used)

\* More identities were used.
NoFewer(u, w) ==
    /\ u \in Identities /\ w \in Identities
    /\ u.devices <= w.devices /\ u.vaults <= w.vaults
    /\ u.invites <= w.invites /\ u.tokens <= w.tokens

-----------------------------------------------------------------------------
(* The device that is taken for this machine. *)

\* The list of devices of a library is a sequence of rows.
LEMMA DeviceRows ==
  ASSUME NEW u, NEW lib, SoundLibrary(lib, u)
  PROVE  /\ lib.devices \in Seq(Device) /\ DOMAIN lib.devices = 1 .. Len(lib.devices)
         /\ Len(lib.devices) \in Nat
         /\ \A i \in DOMAIN lib.devices :
               /\ lib.devices[i] \in Device /\ lib.devices[i].id \in Nat
               /\ lib.devices[i].pending \in BOOLEAN /\ lib.devices[i].gone \in BOOLEAN
<1>1. lib.devices \in Seq(Device)
  BY DEF SoundLibrary, LibraryType
<1>2. DOMAIN lib.devices = 1 .. Len(lib.devices) /\ Len(lib.devices) \in Nat
  BY <1>1, LenProperties
<1>3. \A i \in DOMAIN lib.devices : lib.devices[i] \in Device
  BY <1>1, <1>2, ElementOfSeq
<1> QED BY <1>1, <1>2, <1>3 DEF Device

\* local_device_id finds a device that is enrolled, or none at all.
LEMMA LocalIsLive ==
  ASSUME NEW u, NEW lib, SoundLibrary(lib, u)
  PROVE  /\ local_device_id(lib) \in Nat
         /\ local_device_id(lib) # 0 => ~Gone(lib, local_device_id(lib))
<1> DEFINE at(P) == IF P = {} THEN 0 ELSE lib.devices[CHOOSE i \in P : \A j \in P : i <= j].id
           live == {i \in DOMAIN lib.devices : ~lib.devices[i].gone}
           pending == {i \in live : lib.devices[i].pending}
<1>1. local_device_id(lib) = IF pending # {} THEN at(pending) ELSE at(live)
  BY DEF local_device_id
<1>2. lib.devices \in Seq(Device) /\ DOMAIN lib.devices \subseteq Nat
  BY LenProperties DEF SoundLibrary, LibraryType
<1>3. ASSUME NEW P, P \subseteq live, P # {}
      PROVE  at(P) \in Nat /\ ~Gone(lib, at(P))
  <2>1. P \subseteq Nat
    BY <1>2, <1>3
  <2>2. PICK k \in P : k = CHOOSE i \in P : \A j \in P : i <= j
    BY <1>3, <2>1, LeastOf
  <2>3. k \in DOMAIN lib.devices /\ ~lib.devices[k].gone /\ at(P) = lib.devices[k].id
    BY <1>3, <2>2
  <2>4. lib.devices[k].id \in Nat
    BY <2>3, DeviceRows
  <2>5. ~Gone(lib, lib.devices[k].id)
    BY <2>3 DEF Gone, SoundLibrary, DevicesStandOnce
  <2> QED BY <2>3, <2>4, <2>5
<1>4. pending \subseteq live /\ live \subseteq live /\ at({}) = 0
  OBVIOUS
<1> HIDE DEF at, live, pending
<1> QED BY <1>1, <1>3, <1>4

\* While this machine is enrolled it is the one that is found.
LEMMA LocalIsThis ==
  ASSUME NEW u, NEW lib, SoundLibrary(lib, u), ~Gone(lib, lib.me)
  PROVE  local_device_id(lib) = lib.me
<1> DEFINE at(P) == IF P = {} THEN 0 ELSE lib.devices[CHOOSE i \in P : \A j \in P : i <= j].id
           live == {i \in DOMAIN lib.devices : ~lib.devices[i].gone}
           pending == {i \in live : lib.devices[i].pending}
<1>1. local_device_id(lib) = IF pending # {} THEN at(pending) ELSE at(live)
  BY DEF local_device_id
<1>2. lib.devices \in Seq(Device) /\ DOMAIN lib.devices \subseteq Nat
  BY LenProperties DEF SoundLibrary, LibraryType
<1>3. PICK k \in DOMAIN lib.devices :
        /\ lib.devices[k].id = lib.me
        /\ ~lib.devices[k].gone =>
              \A i \in DOMAIN lib.devices : ~lib.devices[i].gone =>
                  k <= i /\ (lib.devices[i].pending => i = k)
  BY DEF SoundLibrary, ThisMachineFirst
<1>4. ~lib.devices[k].gone
  BY <1>3 DEF Gone
<1>5. k \in live /\ \A i \in live : k <= i /\ (lib.devices[i].pending => i = k)
  BY <1>3, <1>4
<1>6. ASSUME NEW P, P \subseteq live, k \in P PROVE at(P) = lib.me
  <2>1. \A j \in P : k <= j /\ k \in Nat /\ j \in Nat
    BY <1>2, <1>5, <1>6
  <2>2. \A i \in P : (\A j \in P : i <= j) => i = k
    BY <1>6, <2>1
  <2>3. (CHOOSE i \in P : \A j \in P : i <= j) = k
    BY <1>6, <2>1, <2>2
  <2> QED BY <1>3, <1>6, <2>3
<1>7. pending # {} => k \in pending
  BY <1>5
<1>8. pending \subseteq live /\ live \subseteq live
  OBVIOUS
<1> HIDE DEF at, live, pending
<1> QED BY <1>1, <1>5, <1>6, <1>7, <1>8


-----------------------------------------------------------------------------
(* The helpers: what each makes of a sound library is sound. *)

\* Memberships and key references change, devices and tokens do not.
Refiles(lib, m) ==
    /\ m \in LibraryType /\ Len(m.vaults) > 0
    /\ m.me = lib.me /\ m.devices = lib.devices
    /\ m.sessions = lib.sessions /\ m.invites = lib.invites

\* New memberships and key references are sound for devices that are enrolled.
LEMMA RefiledIsSound ==
  ASSUME NEW u, NEW lib, SoundLibrary(lib, u), NEW m, Refiles(lib, m),
         \A x \in m.members \cup m.envelopes : x.gone \/ ~Gone(lib, x.device)
  PROVE  SoundLibrary(m, u)
<1>1. \A d : Gone(m, d) <=> Gone(lib, d)
  BY DEF Gone, Refiles
<1>2. NothingForTheGone(m)
  BY <1>1 DEF SoundLibrary, NothingForTheGone, Refiles
<1>3. DevicesStandOnce(m, u.devices) /\ ThisMachineFirst(m)
  BY DEF SoundLibrary, Refiles, DevicesStandOnce, ThisMachineFirst
<1> QED BY <1>2, <1>3 DEF SoundLibrary, Refiles

\* A library that keeps its tokens follows.
LEMMA SameTokensFollow ==
  ASSUME NEW l, NEW m, NEW u, m.sessions = l.sessions, m.invites = l.invites
  PROVE  Follows(l, m, u)
  BY DEF Follows

\* A default membership is one for a device that is enrolled.
LEMMA EnsureIsSound ==
  ASSUME NEW u, NEW lib, SoundLibrary(lib, u), NEW v \in Nat
  PROVE  /\ SoundLibrary(ensure_local_vault_member(lib, v), u)
         /\ Refiles(lib, ensure_local_vault_member(lib, v))
         /\ ensure_local_vault_member(lib, v).vaults = lib.vaults
<1> DEFINE m == ensure_local_vault_member(lib, v)
           d == local_device_id(lib)
           row == [vault |-> v, device |-> d, gone |-> FALSE]
<1>1. lib \in LibraryType /\ Len(lib.vaults) > 0
  BY DEF SoundLibrary
<1>2. CASE d = 0 \/ Member(lib, v, d)
  <2>1. m = lib
    BY <1>2 DEF ensure_local_vault_member
  <2> QED BY <1>1, <2>1 DEF Refiles
<1>3. CASE ~(d = 0 \/ Member(lib, v, d))
  <2>1. m = [lib EXCEPT !.members = @ \cup {row}]
    BY <1>3 DEF ensure_local_vault_member
  <2>2. d \in Nat /\ ~Gone(lib, d)
    BY <1>3, LocalIsLive
  <2> HIDE DEF d
  <2>3. row \in Row /\ row.device = d
    BY <2>2 DEF Row
  <2>4. m \in LibraryType /\ m.members = lib.members \cup {row} /\ m.envelopes = lib.envelopes
        /\ m.vaults = lib.vaults /\ m.me = lib.me /\ m.devices = lib.devices
        /\ m.sessions = lib.sessions /\ m.invites = lib.invites
    <3> HIDE DEF row, m
    <3> QED BY <1>1, <2>1, <2>3 DEF LibraryType
  <2> HIDE DEF m, row
  <2>5. Refiles(lib, m)
    BY <1>1, <2>4 DEF Refiles
  <2>6. \A x \in m.members \cup m.envelopes : x.gone \/ ~Gone(lib, x.device)
    BY <2>2, <2>3, <2>4 DEF SoundLibrary, NothingForTheGone
  <2> QED BY <2>4, <2>5, <2>6, RefiledIsSound DEF m
<1> QED BY <1>2, <1>3

\* The first vault of a library is a vault.
LEMMA DefaultsAreSound ==
  ASSUME NEW u, NEW lib, SoundLibrary(lib, u)
  PROVE  /\ SoundLibrary(ensure_distributed_defaults(lib), u)
         /\ Refiles(lib, ensure_distributed_defaults(lib))
         /\ ensure_distributed_defaults(lib).vaults = lib.vaults
<1>1. lib.vaults \in Seq(Nat) /\ Len(lib.vaults) > 0
  BY DEF SoundLibrary, LibraryType
<1>2. lib.vaults[1] \in Nat
  BY <1>1, LenProperties, ElementOfSeq
<1> QED BY <1>2, EnsureIsSound DEF ensure_distributed_defaults

\* Key references are filled in for the members that are left, and those are enrolled.
LEMMA EnvelopedIsSound ==
  ASSUME NEW u, NEW lib, SoundLibrary(lib, u)
  PROVE  /\ SoundLibrary(Enveloped(lib), u) /\ Refiles(lib, Enveloped(lib))
         /\ Enveloped(lib).vaults = lib.vaults
<1> DEFINE m == Enveloped(lib)
           new == {[vault |-> x.vault, device |-> x.device, gone |-> FALSE] :
                     x \in {y \in lib.members : ~y.gone /\ \A e \in lib.envelopes :
                               ~(e.vault = y.vault /\ e.device = y.device /\ ~e.gone)}}
<1>1. lib \in LibraryType /\ Len(lib.vaults) > 0
  BY DEF SoundLibrary
<1>2. m = [lib EXCEPT !.envelopes = @ \cup new]
  BY DEF Enveloped
<1>3. \A e \in new : e \in Row /\ ~Gone(lib, e.device)
  <2>1. \A y \in lib.members : y \in Row /\ (~y.gone => ~Gone(lib, y.device))
    BY <1>1 DEF SoundLibrary, NothingForTheGone, LibraryType
  <2>2. \A y \in Row : /\ [vault |-> y.vault, device |-> y.device, gone |-> FALSE] \in Row
                        /\ [vault |-> y.vault, device |-> y.device, gone |-> FALSE].device
                              = y.device
    BY DEF Row
  <2> QED BY <2>1, <2>2, Zenon
<1> HIDE DEF new, m
<1>4. m \in LibraryType /\ m.members = lib.members /\ m.envelopes = lib.envelopes \cup new
      /\ m.vaults = lib.vaults /\ m.me = lib.me /\ m.devices = lib.devices
      /\ m.sessions = lib.sessions /\ m.invites = lib.invites
  BY <1>1, <1>2, <1>3 DEF LibraryType
<1>5. Refiles(lib, m)
  BY <1>1, <1>4 DEF Refiles
<1>6. \A x \in m.members \cup m.envelopes : x.gone \/ ~Gone(lib, x.device)
  BY <1>3, <1>4 DEF SoundLibrary, NothingForTheGone
<1> QED BY <1>4, <1>5, <1>6, RefiledIsSound DEF m

\* What is sound stays so when more identities are used up.
LEMMA SoundLater ==
  ASSUME NEW u, NEW w, NoFewer(u, w), NEW lib, SoundLibrary(lib, u)
  PROVE  SoundLibrary(lib, w)
<1>1. \A n \in 1 .. u.devices : n \in 1 .. w.devices
  BY DEF NoFewer, Identities
<1>2. \A n \in 1 .. u.tokens : n \in 1 .. w.tokens
  BY DEF NoFewer, Identities
<1>3. \A n \in 1 .. u.invites : n \in 1 .. w.invites
  BY DEF NoFewer, Identities
<1>4. DevicesStandOnce(lib, w.devices)
  BY <1>1 DEF SoundLibrary, DevicesStandOnce
<1>5. TokensStandOnce(lib.sessions, w.tokens) /\ TokensStandOnce(lib.invites, w.invites)
  BY <1>2, <1>3 DEF SoundLibrary, TokensStandOnce
<1> QED BY <1>4, <1>5 DEF SoundLibrary

\* A new device stands last in the list and has a membership.
LEMMA AddedIsSound ==
  ASSUME NEW u, NEW w, NoFewer(u, w), w.devices = u.devices + 1,
         NEW lib, SoundLibrary(lib, u), NEW v \in Nat
  PROVE  /\ SoundLibrary(AddDevice(lib, w.devices, v), w)
         /\ AddDevice(lib, w.devices, v).sessions = lib.sessions
         /\ AddDevice(lib, w.devices, v).invites = lib.invites
         /\ ~Gone(AddDevice(lib, w.devices, v), w.devices)
<1> DEFINE m == AddDevice(lib, w.devices, v)
           new == [id |-> w.devices, pending |-> FALSE, gone |-> FALSE]
           row == [vault |-> v, device |-> w.devices, gone |-> FALSE]
<1>1. lib \in LibraryType /\ SoundLibrary(lib, w) /\ w.devices \in Nat \ {0} /\ u.devices \in Nat
  BY SoundLater DEF SoundLibrary, NoFewer, Identities
<1>2. m = [lib EXCEPT !.devices = Append(@, new), !.members = @ \cup {row}]
  BY DEF AddDevice
<1>3. new \in Device /\ new.id = w.devices /\ new.pending = FALSE /\ new.gone = FALSE
  BY <1>1 DEF Device
<1>4. row \in Row /\ row.device = w.devices /\ row.gone = FALSE
  BY <1>1 DEF Row
<1> HIDE DEF new, row, m
<1>5. m \in LibraryType /\ m.devices = Append(lib.devices, new)
      /\ m.members = lib.members \cup {row} /\ m.envelopes = lib.envelopes
      /\ m.vaults = lib.vaults /\ m.me = lib.me
      /\ m.sessions = lib.sessions /\ m.invites = lib.invites
  BY <1>1, <1>2, <1>3, <1>4, AppendProperties DEF LibraryType
<1>6. /\ DOMAIN m.devices = 1 .. Len(lib.devices) + 1
      /\ DOMAIN lib.devices = 1 .. Len(lib.devices) /\ Len(lib.devices) \in Nat
      /\ m.devices[Len(lib.devices) + 1] = new
      /\ \A i \in DOMAIN lib.devices : m.devices[i] = lib.devices[i]
  BY <1>3, <1>5, DeviceRows, AppendProperties, LenProperties
<1>7. \A i \in DOMAIN lib.devices : lib.devices[i].id \in 1 .. u.devices
  BY DEF SoundLibrary, DevicesStandOnce
<1>8. \A i \in DOMAIN m.devices : i \in DOMAIN lib.devices \/ i = Len(lib.devices) + 1
  BY <1>6
<1>9. DevicesStandOnce(m, w.devices)
  <2>1. ASSUME NEW i \in DOMAIN m.devices PROVE m.devices[i].id \in 1 .. w.devices
    <3>1. w.devices \in 1 .. w.devices /\ 1 .. u.devices \subseteq 1 .. w.devices
      BY <1>1
    <3>2. CASE i \in DOMAIN lib.devices
      <4>1. m.devices[i] = lib.devices[i] /\ lib.devices[i].id \in 1 .. u.devices
        BY <1>6, <1>7, <3>2
      <4> QED BY <3>1, <4>1
    <3>3. CASE i = Len(lib.devices) + 1
      <4>1. m.devices[i].id = w.devices
        BY <1>3, <1>6, <3>3
      <4> QED BY <3>1, <4>1
    <3> QED BY <1>8, <3>2, <3>3
  <2>2. ASSUME NEW i \in DOMAIN m.devices, NEW j \in DOMAIN m.devices,
               m.devices[i].id = m.devices[j].id
        PROVE  i = j
    <3>1. i \in DOMAIN lib.devices /\ j \in DOMAIN lib.devices => i = j
      BY <1>6, <2>2 DEF SoundLibrary, DevicesStandOnce
    <3>2. ASSUME NEW k \in DOMAIN lib.devices PROVE m.devices[k].id # w.devices
      <4>1. m.devices[k] = lib.devices[k] /\ lib.devices[k].id \in 1 .. u.devices
        BY <1>6, <1>7
      <4>2. w.devices \notin 1 .. u.devices
        BY <1>1
      <4> QED BY <4>1, <4>2
    <3>3. m.devices[Len(lib.devices) + 1].id = w.devices
      BY <1>3, <1>6
    <3>4. CASE i \in DOMAIN lib.devices
      BY <1>8, <2>2, <3>1, <3>2, <3>3, <3>4
    <3>5. CASE i = Len(lib.devices) + 1
      BY <1>8, <2>2, <3>1, <3>2, <3>3, <3>5
    <3> QED BY <1>8, <3>4, <3>5
  <2> QED BY <2>1, <2>2 DEF DevicesStandOnce
<1>10. \A d : Gone(m, d) => Gone(lib, d)
  BY <1>3, <1>6, <1>8 DEF Gone
<1>11. ~Gone(lib, w.devices)
  BY <1>1, <1>7 DEF Gone
<1>12. NothingForTheGone(m)
  BY <1>4, <1>5, <1>10, <1>11 DEF SoundLibrary, NothingForTheGone
<1>13. ThisMachineFirst(m)
  <2>1. PICK k \in DOMAIN lib.devices :
          /\ lib.devices[k].id = lib.me
          /\ ~lib.devices[k].gone =>
                \A i \in DOMAIN lib.devices : ~lib.devices[i].gone =>
                    k <= i /\ (lib.devices[i].pending => i = k)
    BY DEF SoundLibrary, ThisMachineFirst
  <2>2. k \in DOMAIN m.devices /\ m.devices[k].id = m.me /\ m.devices[k] = lib.devices[k]
    BY <1>5, <1>6, <2>1
  <2>3. ASSUME ~m.devices[k].gone, NEW i \in DOMAIN m.devices, ~m.devices[i].gone
        PROVE  k <= i /\ (m.devices[i].pending => i = k)
    <3>1. CASE i \in DOMAIN lib.devices
      BY <1>6, <2>1, <2>2, <2>3, <3>1
    <3>2. CASE i = Len(lib.devices) + 1
      BY <1>3, <1>6, <2>1, <3>2
    <3> QED BY <1>8, <3>1, <3>2
  <2> QED BY <2>2, <2>3 DEF ThisMachineFirst
<1>14. SoundLibrary(m, w)
  BY <1>1, <1>5, <1>9, <1>12, <1>13 DEF SoundLibrary
<1> QED BY <1>5, <1>10, <1>11, <1>14 DEF m


\* Other sessions and invitations are sound for devices that are enrolled.
LEMMA RetokenedIsSound ==
  ASSUME NEW u, NEW lib, SoundLibrary(lib, u), NEW m \in LibraryType,
         m.me = lib.me, m.devices = lib.devices, m.vaults = lib.vaults,
         m.members = lib.members, m.envelopes = lib.envelopes,
         TokensStandOnce(m.sessions, u.tokens), TokensStandOnce(m.invites, u.invites),
         \A x \in m.sessions : x.gone \/ ~Gone(lib, x.device)
  PROVE  SoundLibrary(m, u)
<1>1. \A d : Gone(m, d) <=> Gone(lib, d)
  BY DEF Gone
<1>2. NothingForTheGone(m)
  BY <1>1 DEF SoundLibrary, NothingForTheGone
<1>3. DevicesStandOnce(m, u.devices) /\ ThisMachineFirst(m)
  BY DEF SoundLibrary, DevicesStandOnce, ThisMachineFirst
<1> QED BY <1>2, <1>3 DEF SoundLibrary

\* Sessions that are ended stand where they stood, and open nothing.
LEMMA EndedIsSound ==
  ASSUME NEW u, NEW lib, SoundLibrary(lib, u), NEW closed \in SUBSET lib.sessions
  PROVE  /\ SoundLibrary(EndSessions(lib, closed), u)
         /\ Follows(lib, EndSessions(lib, closed), u)
         /\ \A s \in closed : Ended(EndSessions(lib, closed), s.token)
         /\ EndSessions(lib, closed) \in LibraryType
         /\ EndSessions(lib, closed).invites = lib.invites
         /\ EndSessions(lib, closed).devices = lib.devices
<1> DEFINE m == EndSessions(lib, closed)
           end == {[s EXCEPT !.gone = TRUE] : s \in closed}
<1>1. lib \in LibraryType /\ lib.sessions \in SUBSET Session
  BY DEF SoundLibrary, LibraryType
<1>2. m = [lib EXCEPT !.sessions = (@ \ closed) \cup end]
  BY DEF EndSessions
<1>3. /\ \A s \in closed : [s EXCEPT !.gone = TRUE] \in end
      /\ \A x \in end : \E s \in closed : x = [s EXCEPT !.gone = TRUE]
  OBVIOUS
<1>4. \A s \in Session : /\ [s EXCEPT !.gone = TRUE] \in Session
                         /\ [s EXCEPT !.gone = TRUE].token = s.token
                         /\ [s EXCEPT !.gone = TRUE].gone = TRUE
  BY DEF Session
<1>5. \A x \in end : x \in Session /\ x.gone = TRUE /\ \E s \in closed : x.token = s.token
  <2>1. ASSUME NEW x \in end
        PROVE  x \in Session /\ x.gone = TRUE /\ \E s \in closed : x.token = s.token
    <3>1. PICK s \in closed : x = [s EXCEPT !.gone = TRUE]
      BY <1>3
    <3>2. s \in Session
      BY <1>1
    <3> QED BY <1>4, <3>1, <3>2
  <2> QED BY <2>1
<1> HIDE DEF end, m
<1>6. m \in LibraryType /\ m.sessions = (lib.sessions \ closed) \cup end
      /\ m.me = lib.me /\ m.devices = lib.devices /\ m.vaults = lib.vaults
      /\ m.members = lib.members /\ m.envelopes = lib.envelopes /\ m.invites = lib.invites
  BY <1>1, <1>2, <1>5 DEF LibraryType
<1>7. \A x, y \in end : x.token = y.token => x = y
  <2>1. ASSUME NEW x \in end, NEW y \in end, x.token = y.token PROVE x = y
    <3>1. PICK s \in closed : x = [s EXCEPT !.gone = TRUE]
      BY <1>3
    <3>2. PICK t \in closed : y = [t EXCEPT !.gone = TRUE]
      BY <1>3
    <3>3. s.token = t.token
      BY <1>1, <1>4, <2>1, <3>1, <3>2
    <3>4. s = t
      BY <3>3 DEF SoundLibrary, TokensStandOnce
    <3> QED BY <3>1, <3>2, <3>4
  <2> QED BY <2>1
<1>8. TokensStandOnce(m.sessions, u.tokens)
  BY <1>5, <1>6, <1>7 DEF SoundLibrary, TokensStandOnce
<1>9. \A x \in m.sessions : x.gone \/ ~Gone(lib, x.device)
  BY <1>5, <1>6 DEF SoundLibrary, NothingForTheGone
<1>10. TokensStandOnce(m.invites, u.invites)
  BY <1>6 DEF SoundLibrary
<1>11. SoundLibrary(m, u)
  BY <1>6, <1>8, <1>9, <1>10, RetokenedIsSound
<1>12. Follows(lib, m, u)
  BY <1>5, <1>6 DEF Follows
<1>13. \A s \in closed : Ended(m, s.token)
  BY <1>5, <1>6 DEF Ended, SoundLibrary, TokensStandOnce
<1> QED BY <1>6, <1>11, <1>12, <1>13 DEF m

\* A token that works is the token of one session, whose device is enrolled.
LEMMA UsableSession ==
  ASSUME NEW u, NEW lib, SoundLibrary(lib, u), NEW t, Usable(lib, t)
  PROVE  /\ SessionOf(lib, t) \in lib.sessions /\ SessionOf(lib, t) \in Session
         /\ SessionOf(lib, t).token = t /\ SessionOf(lib, t).gone = FALSE
         /\ ~Gone(lib, SessionOf(lib, t).device)
<1>1. PICK s \in lib.sessions : s.token = t /\ ~s.gone /\ ~Gone(lib, s.device)
  BY DEF Usable
<1>2. SessionOf(lib, t) = s
  BY <1>1 DEF SessionOf, SoundLibrary, TokensStandOnce
<1>3. s \in Session
  BY DEF SoundLibrary, LibraryType
<1> QED BY <1>1, <1>2, <1>3 DEF Session

\* Revoking a device ends all it has.
LEMMA RevokedIsSound ==
  ASSUME NEW u, NEW lib, SoundLibrary(lib, u), NEW d
  PROVE  /\ SoundLibrary(Revoked(lib, d), u)
         /\ Follows(lib, Revoked(lib, d), u)
         /\ \A s \in lib.sessions : s.device = d => Ended(Revoked(lib, d), s.token)
<1> DEFINE m == Revoked(lib, d)
           off(x) == IF x.device = d THEN [x EXCEPT !.gone = TRUE] ELSE x
           end(rows) == {off(x) : x \in rows}
           list == [i \in DOMAIN lib.devices |->
                      IF lib.devices[i].id = d THEN [lib.devices[i] EXCEPT !.gone = TRUE]
                                               ELSE lib.devices[i]]
<1>1. lib \in LibraryType /\ lib.sessions \in SUBSET Session /\ lib.members \in SUBSET Row
      /\ lib.envelopes \in SUBSET Row
  BY DEF SoundLibrary, LibraryType
<1>2. m = [lib EXCEPT !.devices = list, !.members = end(lib.members),
                      !.envelopes = end(lib.envelopes), !.sessions = end(lib.sessions)]
  BY DEF Revoked
<1>3. \A x \in Row : off(x) \in Row /\ off(x).device = x.device
                     /\ (x.device = d \/ x.gone => off(x).gone)
  BY DEF Row
<1>4. \A x \in Session : /\ off(x) \in Session /\ off(x).device = x.device
                         /\ (x.device = d \/ x.gone => off(x).gone)
                         /\ off(x).token = x.token
  BY DEF Session
<1>5. \A rows : (\A x \in rows : off(x) \in end(rows))
                /\ (\A y \in end(rows) : \E x \in rows : y = off(x))
  OBVIOUS
<1>6. /\ list \in Seq(Device) /\ DOMAIN list = DOMAIN lib.devices
      /\ \A i \in DOMAIN list : /\ list[i].id = lib.devices[i].id
                                /\ list[i].pending = lib.devices[i].pending
                                /\ list[i].gone <=> lib.devices[i].gone \/ lib.devices[i].id = d
  <2>1. \A i \in DOMAIN lib.devices : lib.devices[i] \in Device
    BY DeviceRows
  <2>2. \A i \in DOMAIN lib.devices :
          list[i] \in Device /\ list[i].id = lib.devices[i].id
          /\ list[i].pending = lib.devices[i].pending
          /\ (list[i].gone <=> lib.devices[i].gone \/ lib.devices[i].id = d)
    BY <2>1 DEF Device
  <2>3. DOMAIN list = 1 .. Len(lib.devices) /\ Len(lib.devices) \in Nat
    BY DeviceRows
  <2> HIDE DEF list
  <2>4. list \in [1 .. Len(lib.devices) -> Device]
    <3>1. list = [i \in DOMAIN lib.devices |-> list[i]]
      BY DEF list
    <3> QED BY <2>2, <2>3, <3>1, DeviceRows
  <2> QED BY <2>2, <2>3, <2>4, DeviceRows, SeqDef
<1> HIDE DEF list, off, end, m
<1>7. /\ \A x \in end(lib.members) : x \in Row
      /\ \A x \in end(lib.envelopes) : x \in Row
      /\ \A x \in end(lib.sessions) : x \in Session
  BY <1>1, <1>3, <1>4, <1>5
<1>8. m \in LibraryType /\ m.devices = list /\ m.members = end(lib.members)
      /\ m.envelopes = end(lib.envelopes) /\ m.sessions = end(lib.sessions)
      /\ m.vaults = lib.vaults /\ m.me = lib.me /\ m.invites = lib.invites
  BY <1>1, <1>2, <1>6, <1>7 DEF LibraryType
<1>9. DevicesStandOnce(m, u.devices)
  BY <1>6, <1>8 DEF SoundLibrary, DevicesStandOnce
<1>10. TokensStandOnce(m.sessions, u.tokens)
  <2>1. \A y \in end(lib.sessions) : \E x \in lib.sessions : y = off(x) /\ y.token = x.token
    BY <1>1, <1>4, <1>5
  <2> QED BY <1>8, <2>1 DEF SoundLibrary, TokensStandOnce
<1>11. \A e : Gone(m, e) => e = d \/ Gone(lib, e)
  BY <1>6, <1>8 DEF Gone
<1>12. NothingForTheGone(m)
  <2>1. ASSUME NEW rows, rows \in SUBSET Row \/ rows \in SUBSET Session,
               \A x \in rows : Gone(lib, x.device) => x.gone,
               NEW y \in end(rows), Gone(m, y.device)
        PROVE  y.gone
    BY <1>3, <1>4, <1>5, <1>11, <2>1
  <2>2. /\ \A x \in lib.members : Gone(lib, x.device) => x.gone
        /\ \A x \in lib.envelopes : Gone(lib, x.device) => x.gone
        /\ \A x \in lib.sessions : Gone(lib, x.device) => x.gone
    BY DEF SoundLibrary, NothingForTheGone
  <2>3. \A y \in end(lib.members) : Gone(m, y.device) => y.gone
    BY <1>1, <2>1, <2>2
  <2>4. \A y \in end(lib.envelopes) : Gone(m, y.device) => y.gone
    BY <1>1, <2>1, <2>2
  <2>5. \A y \in end(lib.sessions) : Gone(m, y.device) => y.gone
    BY <1>1, <2>1, <2>2
  <2> QED BY <1>8, <2>3, <2>4, <2>5 DEF NothingForTheGone
<1>13. ThisMachineFirst(m)
  <2>1. PICK k \in DOMAIN lib.devices :
          /\ lib.devices[k].id = lib.me
          /\ ~lib.devices[k].gone =>
                \A i \in DOMAIN lib.devices : ~lib.devices[i].gone =>
                    k <= i /\ (lib.devices[i].pending => i = k)
    BY DEF SoundLibrary, ThisMachineFirst
  <2> QED BY <1>6, <1>8, <2>1 DEF ThisMachineFirst
<1>14. SoundLibrary(m, u)
  BY <1>8, <1>9, <1>10, <1>12, <1>13 DEF SoundLibrary
<1>15. Follows(lib, m, u)
  <2>1. \A y \in end(lib.sessions) : \E x \in lib.sessions : x.token = y.token /\ (x.gone => y.gone)
    BY <1>1, <1>4, <1>5
  <2> QED BY <1>8, <2>1 DEF Follows
<1>16. ASSUME NEW s \in lib.sessions, s.device = d PROVE Ended(m, s.token)
  <2>1. \A y \in end(lib.sessions) : y.token = s.token => y = off(s)
    BY <1>1, <1>4, <1>5 DEF SoundLibrary, TokensStandOnce
  <2>2. off(s).gone
    BY <1>1, <1>4, <1>16
  <2> QED BY <1>8, <2>1, <2>2 DEF Ended
<1> QED BY <1>14, <1>15, <1>16 DEF m


\* A restored library has one device that is enrolled, and no tokens.
LEMMA ReboundIsSound ==
  ASSUME NEW u, NEW w, NoFewer(u, w), w.devices = u.devices + 1, NEW lib, SoundLibrary(lib, u)
  PROVE  /\ SoundLibrary(Rebound(lib, w.devices), w)
         /\ Rebound(lib, w.devices).sessions = {}
<1> DEFINE d == w.devices
           m == Rebound(lib, d)
           off(x) == [x EXCEPT !.gone = TRUE]
           end(rows) == {off(x) : x \in rows}
           list == [i \in DOMAIN lib.devices |-> off(lib.devices[i])]
           new == [id |-> d, pending |-> TRUE, gone |-> FALSE]
           own == {[vault |-> v, device |-> d, gone |-> FALSE] : v \in Vaults(lib)}
<1>1. lib \in LibraryType /\ SoundLibrary(lib, w) /\ d \in Nat \ {0} /\ u.devices \in Nat
  BY SoundLater DEF SoundLibrary, NoFewer, Identities
<1>2. m = [lib EXCEPT !.me = d, !.devices = Append(list, new),
                      !.members = end(lib.members) \cup own,
                      !.envelopes = end(lib.envelopes), !.sessions = {}, !.invites = {}]
  BY DEF Rebound
<1>3. new \in Device /\ new.id = d /\ new.pending = TRUE /\ new.gone = FALSE
  BY <1>1 DEF Device
<1>4. \A e \in own : e \in Row /\ e.device = d
  <2>1. lib.vaults \in Seq(Nat)
    BY <1>1 DEF LibraryType
  <2>2. Vaults(lib) \subseteq Nat
    BY <2>1, ElementOfSeq, LenProperties DEF Vaults
  <2>3. \A v \in Nat : /\ [vault |-> v, device |-> d, gone |-> FALSE] \in Row
                       /\ [vault |-> v, device |-> d, gone |-> FALSE].device = d
    BY <1>1 DEF Row
  <2> QED BY <2>2, <2>3, Zenon
<1>5. \A x \in Row : off(x) \in Row /\ off(x).gone = TRUE
  BY DEF Row
<1>6. \A e \in end(lib.members) \cup end(lib.envelopes) : e \in Row /\ e.gone = TRUE
  <2>1. lib.members \in SUBSET Row /\ lib.envelopes \in SUBSET Row
    BY <1>1 DEF LibraryType
  <2> QED BY <1>5, <2>1
<1>7. /\ list \in Seq(Device) /\ DOMAIN list = 1 .. Len(lib.devices)
      /\ Len(list) = Len(lib.devices) /\ Len(list) \in Nat
      /\ \A i \in 1 .. Len(list) : list[i].id \in 1 .. u.devices /\ list[i].id = lib.devices[i].id
                                   /\ list[i].gone
  <2>1. \A i \in DOMAIN lib.devices :
          list[i] \in Device /\ list[i].id = lib.devices[i].id /\ list[i].gone
    BY DeviceRows DEF Device
  <2>2. DOMAIN lib.devices = 1 .. Len(lib.devices) /\ Len(lib.devices) \in Nat
    BY DeviceRows
  <2>3. list = [i \in DOMAIN lib.devices |-> list[i]]
    OBVIOUS
  <2> HIDE DEF list
  <2>4. list \in [1 .. Len(lib.devices) -> Device]
    BY <2>1, <2>2, <2>3
  <2>5. list \in Seq(Device)
    BY <2>2, <2>4, SeqDef
  <2>6. Len(list) = Len(lib.devices)
    BY <2>2, <2>4, <2>5, LenProperties
  <2> QED BY <2>1, <2>2, <2>4, <2>5, <2>6 DEF SoundLibrary, DevicesStandOnce
<1> HIDE DEF off, end, list, new, own, m
<1>8. m \in LibraryType /\ m.me = d /\ m.devices = Append(list, new)
      /\ m.members = end(lib.members) \cup own /\ m.envelopes = end(lib.envelopes)
      /\ m.sessions = {} /\ m.invites = {} /\ m.vaults = lib.vaults
  BY <1>1, <1>2, <1>3, <1>4, <1>6, <1>7, AppendProperties DEF LibraryType
<1>9. /\ DOMAIN m.devices = 1 .. Len(list) + 1
      /\ m.devices[Len(list) + 1] = new
      /\ \A i \in 1 .. Len(list) : m.devices[i] = list[i]
  BY <1>3, <1>7, <1>8, AppendProperties, LenProperties
<1>10. \A i \in DOMAIN m.devices : i \in 1 .. Len(list) \/ i = Len(list) + 1
  BY <1>7, <1>9
<1>11. DevicesStandOnce(m, d)
  <2>1. d = u.devices + 1 /\ u.devices \in Nat
    BY <1>1
  <2> HIDE DEF d
  <2>2. \A k \in 1 .. Len(list) : m.devices[k].id \in 1 .. u.devices
    BY <1>7, <1>9
  <2>3. \A k \in 1 .. Len(list) : m.devices[k].id \in 1 .. d /\ m.devices[k].id # d
    BY <2>1, <2>2
  <2>4. ASSUME NEW i \in DOMAIN m.devices PROVE m.devices[i].id \in 1 .. d
    <3>1. m.devices[Len(list) + 1].id \in 1 .. d
      <4>1. m.devices[Len(list) + 1].id = d
        BY <1>3, <1>9
      <4> QED BY <2>1, <4>1
    <3>2. CASE i \in 1 .. Len(list)
      BY <2>3, <3>2
    <3>3. CASE i = Len(list) + 1
      BY <3>1, <3>3
    <3> QED BY <1>10, <3>2, <3>3
  <2>5. ASSUME NEW i \in DOMAIN m.devices, NEW j \in DOMAIN m.devices,
               m.devices[i].id = m.devices[j].id
        PROVE  i = j
    <3>1. i \in 1 .. Len(list) /\ j \in 1 .. Len(list) => i = j
      <4> SUFFICES ASSUME i \in 1 .. Len(list), j \in 1 .. Len(list) PROVE i = j
        OBVIOUS
      <4>1. i \in DOMAIN lib.devices /\ j \in DOMAIN lib.devices
        BY <1>7, DeviceRows
      <4>2. lib.devices[i].id = lib.devices[j].id
        BY <1>7, <1>9, <2>5
      <4> QED BY <4>1, <4>2 DEF SoundLibrary, DevicesStandOnce
    <3>2. m.devices[Len(list) + 1].id = d
      BY <1>3, <1>9
    <3>3. \A k \in 1 .. Len(list) : m.devices[k].id # d
      BY <2>3
    <3>4. CASE i \in 1 .. Len(list)
      BY <1>10, <2>5, <3>1, <3>2, <3>3, <3>4
    <3>5. CASE i = Len(list) + 1
      BY <1>10, <2>5, <3>1, <3>2, <3>3, <3>5
    <3> QED BY <1>10, <3>4, <3>5
  <2> QED BY <2>4, <2>5 DEF DevicesStandOnce
<1>12. ~Gone(m, d)
  <2>1. m.devices[Len(list) + 1].gone = FALSE
    BY <1>3, <1>9
  <2>2. d \notin 1 .. u.devices
    BY <1>1
  <2>3. ASSUME NEW i \in 1 .. Len(list) PROVE m.devices[i].id # d
    BY <1>7, <1>9, <2>2
  <2> QED BY <1>10, <2>1, <2>3 DEF Gone
<1>13. NothingForTheGone(m)
  BY <1>4, <1>6, <1>8, <1>12 DEF NothingForTheGone
<1>14. ThisMachineFirst(m)
  <2>1. Len(list) + 1 \in DOMAIN m.devices /\ m.devices[Len(list) + 1].id = m.me
    BY <1>3, <1>7, <1>8, <1>9
  <2>2. \A i \in DOMAIN m.devices : ~m.devices[i].gone => i = Len(list) + 1
    BY <1>7, <1>9, <1>10
  <2>3. Len(list) + 1 <= Len(list) + 1
    BY <1>7
  <2> QED BY <2>1, <2>2, <2>3 DEF ThisMachineFirst
<1>15. TokensStandOnce(m.sessions, w.tokens) /\ TokensStandOnce(m.invites, w.invites)
  BY <1>8 DEF TokensStandOnce
<1>16. SoundLibrary(m, w)
  BY <1>1, <1>8, <1>11, <1>13, <1>14, <1>15 DEF SoundLibrary
<1> QED BY <1>8, <1>16 DEF m

-----------------------------------------------------------------------------
(* A step of a handler: the library it makes is sound and follows the one in *)
(* memory, and the save succeeds or not.                                     *)

\* What is ended or spent in a library is so in one that follows it.
LEMMA DeadFollows ==
  ASSUME NEW u \in Identities, NEW l, NEW m, Follows(l, m, u)
  PROVE  /\ \A t \in 1 .. u.tokens : Ended(l, t) => Ended(m, t)
         /\ \A t \in Nat : t <= u.invites /\ Spent(l, t) => Spent(m, t)
<1>1. u.tokens \in Nat /\ u.invites \in Nat
  BY DEF Identities
<1>2. ASSUME NEW t \in 1 .. u.tokens, Ended(l, t) PROVE Ended(m, t)
  <2>1. ~(t > u.tokens)
    BY <1>1
  <2> QED BY <1>2, <2>1 DEF Follows, Ended
<1>3. ASSUME NEW t \in Nat, t <= u.invites, Spent(l, t) PROVE Spent(m, t)
  <2>1. ~(t > u.invites)
    BY <1>1, <1>3
  <2> QED BY <1>3, <2>1 DEF Follows, Spent
<1> QED BY <1>2, <1>3

\* Saved or not, the database has the library of the handler or the one it had.
Stored(lib) == mem' = lib /\ disk' \in {disk, lib}

\* A handler that makes a sound library of the one in memory, and answers only
\* for what it ended or spent in it, keeps the invariant.
LEMMA StepKeeps ==
  ASSUME MembershipInv, NoFewer(used, used'), NEW lib, SoundLibrary(lib, used'),
         Follows(mem, lib, used), Stored(lib), archive' = archive,
         \A t \in dead' : \/ t \in dead
                          \/ t \in 1 .. used'.tokens /\ Ended(lib, t) /\ disk' = lib,
         \A x \in paired' : \/ x \in paired
                            \/ /\ x \in Nat \X Nat /\ x[1] <= used'.invites
                               /\ Spent(lib, x[1]) /\ disk' = lib,
         TokenPairsOnce'
  PROVE  MembershipInv'
<1>1. used \in Identities /\ used' \in Identities
  BY DEF NoFewer
<1>2. SoundLibrary(mem, used') /\ SoundLibrary(disk, used') /\ (archive # <<>> => SoundLibrary(archive[1], used'))
  BY SoundLater DEF MembershipInv
<1>3. SoundLibrary(mem, used)' /\ SoundLibrary(disk, used)' /\ (archive # <<>> => SoundLibrary(archive[1], used))'
  BY <1>2 DEF Stored
<1>4. ASSUME NEW t \in dead' PROVE (t \in 1 .. used.tokens /\ Ended(mem, t) /\ Ended(disk, t))'
  <2>1. CASE t \in dead
    <3>1. t \in 1 .. used.tokens /\ Ended(mem, t) /\ Ended(disk, t)
      BY <2>1 DEF MembershipInv
    <3>2. t \in 1 .. used'.tokens
      BY <1>1, <3>1 DEF NoFewer, Identities
    <3>3. Ended(lib, t)
      BY <1>1, <3>1, DeadFollows
    <3> QED BY <3>1, <3>2, <3>3 DEF Stored, Ended
  <2>2. CASE t \in 1 .. used'.tokens /\ Ended(lib, t) /\ disk' = lib
    BY <2>2 DEF Stored, Ended
  <2> QED BY <1>4, <2>1, <2>2
<1>5. ASSUME NEW x \in paired'
      PROVE  (x \in Nat \X Nat /\ x[1] <= used.invites /\ Spent(mem, x[1]) /\ Spent(disk, x[1]))'
  <2>1. CASE x \in paired
    <3>1. x \in Nat \X Nat /\ x[1] \in Nat /\ x[1] <= used.invites
          /\ Spent(mem, x[1]) /\ Spent(disk, x[1])
      BY <2>1 DEF MembershipInv
    <3>2. x[1] <= used'.invites
      BY <1>1, <3>1 DEF NoFewer, Identities
    <3>3. Spent(lib, x[1])
      BY <1>1, <3>1, DeadFollows
    <3> QED BY <3>1, <3>2, <3>3 DEF Stored, Spent
  <2>2. CASE x \in Nat \X Nat /\ x[1] <= used'.invites /\ Spent(lib, x[1]) /\ disk' = lib
    BY <2>2 DEF Stored, Spent
  <2> QED BY <1>5, <2>1, <2>2
<1> QED BY <1>1, <1>3, <1>4, <1>5 DEF MembershipInv

\* A handler that answers for nothing.
LEMMA QuietStepKeeps ==
  ASSUME MembershipInv, NoFewer(used, used'), NEW lib, SoundLibrary(lib, used'),
         Follows(mem, lib, used), Stored(lib), UNCHANGED <<archive, paired, dead>>
  PROVE  MembershipInv'
<1>1. TokenPairsOnce'
  BY DEF MembershipInv, TokenPairsOnce
<1> QED BY <1>1, StepKeeps

\* A handler that makes no identity.
LEMMA NoFewerRefl ==
  ASSUME NEW u \in Identities PROVE NoFewer(u, u)
  BY DEF NoFewer, Identities

\* Both ways a save can go.
LEMMA SaveStores ==
  ASSUME NEW lib, Saved(lib) \/ Unsaved(lib)
  PROVE  Stored(lib)
  BY DEF Saved, Unsaved, Stored

\* A handler that uses up one identity of one kind.
LEMMA FreshUsesOne ==
  ASSUME used \in Identities, NEW what \in {"devices", "vaults", "invites", "tokens"},
         NEW bound, Fresh(what, bound)
  PROVE  /\ NoFewer(used, used') /\ used'[what] = used[what] + 1
         /\ \A k \in {"devices", "vaults", "invites", "tokens"} : k # what => used'[k] = used[k]
  BY DEF Fresh, NoFewer, Identities

\* Filling in defaults and saving.
LEMMA TouchKeeps == ASSUME MembershipInv, Touch PROVE MembershipInv'
<1>1. used \in Identities /\ used' = used /\ NoFewer(used, used') /\ SoundLibrary(mem, used')
  BY NoFewerRefl DEF MembershipInv, Touch
<1>2. PICK lib \in {mem, ensure_distributed_defaults(mem)} :
        Saved(lib) \/ Saved(Enveloped(lib)) \/ Unsaved(Enveloped(lib))
  BY DEF Touch
<1>3. SoundLibrary(lib, used') /\ lib.sessions = mem.sessions /\ lib.invites = mem.invites
  BY <1>1, <1>2, DefaultsAreSound DEF Refiles
<1>4. SoundLibrary(Enveloped(lib), used') /\ Enveloped(lib).sessions = mem.sessions
      /\ Enveloped(lib).invites = mem.invites
  BY <1>3, EnvelopedIsSound DEF Refiles
<1>5. Stored(lib) \/ Stored(Enveloped(lib))
  BY <1>2, SaveStores
<1>6. Follows(mem, lib, used) /\ Follows(mem, Enveloped(lib), used)
  BY <1>3, <1>4, SameTokensFollow
<1>7. UNCHANGED <<archive, paired, dead>>
  BY DEF Touch
<1> QED BY <1>1, <1>3, <1>4, <1>5, <1>6, <1>7, QuietStepKeeps

\* create_pairing_session writes an invitation with a token of its own.
LEMMA CreatePairingSessionKeeps ==
  ASSUME MembershipInv, NEW v, create_pairing_session(v)
  PROVE  MembershipInv'
<1> DEFINE l == ensure_distributed_defaults(mem)
           p == [token |-> used.invites + 1, vault |-> v, used |-> FALSE]
           lib == [l EXCEPT !.invites = @ \cup {p}]
<1>1. used \in Identities /\ NoFewer(used, used') /\ used'.invites = used.invites + 1
      /\ used.invites \in Nat
  BY FreshUsesOne DEF MembershipInv, create_pairing_session, Identities
<1>2. SoundLibrary(l, used) /\ SoundLibrary(l, used') /\ l.sessions = mem.sessions /\ l.invites = mem.invites
      /\ l \in LibraryType
  BY <1>1, DefaultsAreSound, SoundLater DEF MembershipInv, Refiles, SoundLibrary
<1>3. v \in Nat
  <2>1. mem.vaults \in Seq(Nat)
    BY DEF MembershipInv, SoundLibrary, LibraryType
  <2> QED BY <2>1, ElementOfSeq, LenProperties DEF create_pairing_session, Vaults
<1>4. p \in Invite /\ p.token = used.invites + 1
  BY <1>1, <1>3 DEF Invite
<1>5. Stored(lib) /\ UNCHANGED <<archive, paired, dead>>
  BY SaveStores DEF create_pairing_session
<1> HIDE DEF l, p
<1>6. lib \in LibraryType /\ lib.invites = l.invites \cup {p} /\ lib.sessions = l.sessions
      /\ lib.me = l.me /\ lib.devices = l.devices /\ lib.vaults = l.vaults
      /\ lib.members = l.members /\ lib.envelopes = l.envelopes
  BY <1>2, <1>4 DEF LibraryType
<1> HIDE DEF lib
<1>7. \A x \in l.invites : x.token \in 1 .. used.invites
  BY <1>2 DEF SoundLibrary, TokensStandOnce
<1>8. TokensStandOnce(lib.invites, used'.invites)
  <2>1. \A x \in l.invites : x.token \in 1 .. used'.invites /\ x.token # p.token
    BY <1>1, <1>4, <1>7
  <2>2. p.token \in 1 .. used'.invites
    BY <1>1, <1>4
  <2> QED BY <1>2, <1>6, <2>1, <2>2 DEF SoundLibrary, TokensStandOnce
<1>9. \A x \in lib.sessions : x.gone \/ ~Gone(l, x.device)
  BY <1>2, <1>6 DEF SoundLibrary, NothingForTheGone
<1>10. SoundLibrary(lib, used')
  BY <1>2, <1>6, <1>8, <1>9, RetokenedIsSound DEF SoundLibrary
<1>11. Follows(mem, lib, used)
  BY <1>1, <1>2, <1>4, <1>6 DEF Follows
<1> QED BY <1>1, <1>5, <1>10, <1>11, QuietStepKeeps


\* A vault of a library has a number.
LEMMA VaultIsNumber ==
  ASSUME NEW u, NEW lib, SoundLibrary(lib, u), NEW v \in Vaults(lib)
  PROVE  v \in Nat
<1>1. lib.vaults \in Seq(Nat)
  BY DEF SoundLibrary, LibraryType
<1> QED BY <1>1, ElementOfSeq, LenProperties DEF Vaults

\* What pairing makes: a new device, its session, and a token that is spent.
LEMMA PairedIsSound ==
  ASSUME NEW u, NEW w, NoFewer(u, w), w.devices = u.devices + 1, w.tokens = u.tokens + 1,
         NEW lib, SoundLibrary(lib, u), NEW p \in lib.invites, NEW v \in Nat,
         u.devices = used.devices, u.tokens = used.tokens
  PROVE  /\ SoundLibrary(PairedLibrary(lib, p, v), w)
         /\ Follows(lib, PairedLibrary(lib, p, v), u)
         /\ Spent(PairedLibrary(lib, p, v), p.token)
<1> DEFINE a == AddDevice(lib, w.devices, v)
           q == [p EXCEPT !.used = TRUE]
           s == [token |-> w.tokens, device |-> w.devices, vault |-> v, gone |-> FALSE]
           m == PairedLibrary(lib, p, v)
<1>1. m = [a EXCEPT !.invites = (@ \ {p}) \cup {q}, !.sessions = @ \cup {s}]
  BY DEF PairedLibrary
<1>2. /\ SoundLibrary(a, w) /\ a \in LibraryType /\ a.sessions = lib.sessions /\ a.invites = lib.invites
      /\ ~Gone(a, w.devices)
  BY AddedIsSound DEF SoundLibrary
<1>3. /\ u.tokens \in Nat /\ w.tokens \in Nat /\ w.devices \in Nat /\ u.invites \in Nat
      /\ w.invites \in Nat /\ u.invites <= w.invites
  BY DEF NoFewer, Identities
<1>4. p \in Invite
  BY DEF SoundLibrary, LibraryType
<1>5. q \in Invite /\ q.token = p.token /\ q.used
  BY <1>4 DEF Invite
<1>6. s \in Session /\ s.token = w.tokens /\ s.device = w.devices /\ s.gone = FALSE
  BY <1>3 DEF Session
<1> HIDE DEF a, q, s, m
<1>7. m \in LibraryType /\ m.invites = (a.invites \ {p}) \cup {q} /\ m.sessions = a.sessions \cup {s}
      /\ m.me = a.me /\ m.devices = a.devices /\ m.vaults = a.vaults
      /\ m.members = a.members /\ m.envelopes = a.envelopes
  BY <1>1, <1>2, <1>5, <1>6 DEF LibraryType
<1>8. TokensStandOnce(m.invites, w.invites)
  BY <1>2, <1>5, <1>7 DEF SoundLibrary, TokensStandOnce
<1>9. \A x \in lib.sessions : x.token \in 1 .. u.tokens
  BY DEF SoundLibrary, TokensStandOnce
<1>10. TokensStandOnce(m.sessions, w.tokens)
  <2>1. \A x \in lib.sessions : x.token \in 1 .. w.tokens /\ x.token # s.token
    BY <1>3, <1>6, <1>9
  <2>2. s.token \in 1 .. w.tokens
    BY <1>3, <1>6
  <2> QED BY <1>2, <1>7, <2>1, <2>2 DEF SoundLibrary, TokensStandOnce
<1>11. \A x \in m.sessions : x.gone \/ ~Gone(a, x.device)
  BY <1>2, <1>6, <1>7 DEF SoundLibrary, NothingForTheGone
<1>12. SoundLibrary(m, w)
  BY <1>2, <1>7, <1>8, <1>10, <1>11, RetokenedIsSound
<1>13. Follows(lib, m, u)
  <2>1. s.token > u.tokens
    BY <1>3, <1>6
  <2> QED BY <1>2, <1>5, <1>7, <2>1 DEF Follows
<1>14. Spent(m, p.token)
  BY <1>2, <1>5, <1>7 DEF Spent, SoundLibrary, TokensStandOnce
<1> QED BY <1>12, <1>13, <1>14 DEF m

\* Pairing uses up a device and a token.
LEMMA PairUsesTwo ==
  ASSUME NEW u \in Identities, NEW w, w = [u EXCEPT !.devices = @ + 1, !.tokens = @ + 1]
  PROVE  /\ NoFewer(u, w) /\ w.devices = u.devices + 1 /\ w.tokens = u.tokens + 1
         /\ w.invites = u.invites /\ u.invites \in Nat /\ u.devices \in Nat
<1>1. u.devices \in Nat /\ u.tokens \in Nat /\ u.vaults \in Nat /\ u.invites \in Nat
  BY DEF Identities
<1>2. w = [devices |-> u.devices + 1, vaults |-> u.vaults, invites |-> u.invites,
           tokens |-> u.tokens + 1]
  BY DEF Identities
<1>3. w.devices = u.devices + 1 /\ w.tokens = u.tokens + 1 /\ w.vaults = u.vaults
      /\ w.invites = u.invites /\ w \in Identities
  BY <1>1, <1>2 DEF Identities
<1> QED BY <1>1, <1>3 DEF NoFewer

\* pair_mobile_device: whoever was paired with this token before spent it.
LEMMA PairKeeps ==
  ASSUME MembershipInv, NEW p \in mem.invites, NEW v, Pair(p, v)
  PROVE  MembershipInv'
<1> DEFINE l == ensure_distributed_defaults(mem)
           lib == PairedLibrary(l, p, v)
           pair == <<p.token, used.devices + 1>>
<1>1. used \in Identities /\ used' = [used EXCEPT !.devices = @ + 1, !.tokens = @ + 1]
  BY DEF MembershipInv, Pair
<1>2. NoFewer(used, used') /\ used'.devices = used.devices + 1
      /\ used'.tokens = used.tokens + 1 /\ used'.invites = used.invites
      /\ used.invites \in Nat /\ used.devices \in Nat
  BY <1>1, PairUsesTwo
<1>3. SoundLibrary(l, used) /\ l.sessions = mem.sessions /\ l.invites = mem.invites
  BY DefaultsAreSound DEF MembershipInv, Refiles
<1>4. v \in Nat
  BY VaultIsNumber DEF MembershipInv, Pair
<1>5. SoundLibrary(lib, used') /\ Follows(l, lib, used) /\ Spent(lib, p.token)
  BY <1>2, <1>3, <1>4, PairedIsSound
<1>6. Follows(mem, lib, used)
  BY <1>3, <1>5 DEF Follows
<1>7. archive' = archive /\ dead' = dead
  BY DEF Pair
<1>8. CASE Saved(lib) /\ paired' = paired \cup {pair}
  <2>1. Stored(lib) /\ disk' = lib
    BY <1>8 DEF Saved, Stored
  <2>2. p \in Invite /\ p.token \in 1 .. used.invites
    BY DEF MembershipInv, SoundLibrary, LibraryType, TokensStandOnce
  <2>3. pair \in Nat \X Nat /\ pair[1] = p.token /\ pair[1] <= used'.invites
    BY <1>2, <2>2
  <2>4. \A x \in paired : x[1] # p.token
    BY DEF MembershipInv, Spent, Pair
  <2>5. TokenPairsOnce'
    BY <1>8, <2>3, <2>4 DEF MembershipInv, TokenPairsOnce
  <2> HIDE DEF lib, pair
  <2>6. \A x \in paired' : \/ x \in paired
                           \/ /\ x \in Nat \X Nat /\ x[1] <= used'.invites
                              /\ Spent(lib, x[1]) /\ disk' = lib
    BY <1>5, <1>8, <2>1, <2>3
  <2> QED BY <1>2, <1>5, <1>6, <1>7, <2>1, <2>5, <2>6, StepKeeps
<1>9. CASE Unsaved(lib) /\ paired' = paired
  <2>1. Stored(lib)
    BY <1>9, SaveStores
  <2> HIDE DEF lib
  <2> QED BY <1>2, <1>5, <1>6, <1>7, <1>9, <2>1, QuietStepKeeps
<1> QED BY <1>8, <1>9 DEF Pair

\* An answer about sessions that were ended, or none.
LEMMA AnswerKeeps ==
  ASSUME MembershipInv, NoFewer(used, used'), NEW lib, SoundLibrary(lib, used'),
         Follows(mem, lib, used), NEW tokens, \A t \in tokens : Ended(lib, t),
         \A t \in tokens : \E s \in mem.sessions : t = s.token,
         \/ Saved(lib) /\ dead' = dead \cup tokens
         \/ Unsaved(lib) /\ UNCHANGED dead,
         UNCHANGED <<archive, paired>>
  PROVE  MembershipInv'
<1>1. TokenPairsOnce'
  BY DEF MembershipInv, TokenPairsOnce
<1>2. Stored(lib) /\ (Saved(lib) => disk' = lib)
  BY DEF Saved, Unsaved, Stored
<1>3. ASSUME NEW t \in tokens PROVE t \in 1 .. used'.tokens
  <2>1. t \in 1 .. used.tokens
    BY <1>3 DEF MembershipInv, SoundLibrary, TokensStandOnce
  <2> QED BY <2>1 DEF NoFewer, Identities
<1>4. \A t \in dead' : \/ t \in dead
                       \/ t \in 1 .. used'.tokens /\ Ended(lib, t) /\ disk' = lib
  BY <1>2, <1>3
<1>5. \A x \in paired' : x \in paired
  OBVIOUS
<1> QED BY <1>1, <1>2, <1>4, <1>5, StepKeeps

\* refresh_mobile_session ends the session it is asked under and makes one like it.
LEMMA RefreshMobileSessionKeeps ==
  ASSUME MembershipInv, NEW t, refresh_mobile_session(t)
  PROVE  MembershipInv'
<1> DEFINE o == SessionOf(mem, t)
           l == EndSessions(mem, {o})
           n == [o EXCEPT !.token = used.tokens + 1]
           lib == [l EXCEPT !.sessions = @ \cup {n}]
<1>1. used \in Identities /\ NoFewer(used, used') /\ used'.tokens = used.tokens + 1
      /\ used.tokens \in Nat
  BY FreshUsesOne DEF MembershipInv, refresh_mobile_session, Identities
<1>2. o \in mem.sessions /\ o \in Session /\ o.token = t /\ o.gone = FALSE
      /\ ~Gone(mem, o.device)
  BY UsableSession DEF MembershipInv, refresh_mobile_session
<1>3. SoundLibrary(l, used) /\ Follows(mem, l, used) /\ Ended(l, t) /\ l \in LibraryType
      /\ l.devices = mem.devices
  BY <1>2, EndedIsSound DEF MembershipInv
<1>4. n \in Session /\ n.token = used.tokens + 1 /\ n.device = o.device
  BY <1>1, <1>2 DEF Session
<1>5. \/ Saved(lib) /\ dead' = dead \cup {t}
      \/ Unsaved(lib) /\ UNCHANGED dead
  BY DEF refresh_mobile_session
<1>6. UNCHANGED <<archive, paired>>
  BY DEF refresh_mobile_session
<1> HIDE DEF o, l, n
<1>7. lib \in LibraryType /\ lib.sessions = l.sessions \cup {n} /\ lib.invites = l.invites
      /\ lib.me = l.me /\ lib.devices = l.devices /\ lib.vaults = l.vaults
      /\ lib.members = l.members /\ lib.envelopes = l.envelopes
  BY <1>3, <1>4 DEF LibraryType
<1> HIDE DEF lib
<1>8. \A x \in l.sessions : x.token \in 1 .. used.tokens
  BY <1>3 DEF SoundLibrary, TokensStandOnce
<1>9. TokensStandOnce(lib.sessions, used'.tokens)
  <2>1. \A x \in l.sessions : x.token \in 1 .. used'.tokens /\ x.token # n.token
    BY <1>1, <1>4, <1>8
  <2>2. n.token \in 1 .. used'.tokens
    BY <1>1, <1>4
  <2> QED BY <1>3, <1>7, <2>1, <2>2 DEF SoundLibrary, TokensStandOnce
<1>10. SoundLibrary(l, used')
  BY <1>1, <1>3, SoundLater
<1>11. \A x \in lib.sessions : x.gone \/ ~Gone(l, x.device)
  BY <1>2, <1>3, <1>4, <1>7 DEF SoundLibrary, NothingForTheGone, Gone
<1>12. SoundLibrary(lib, used')
  BY <1>7, <1>9, <1>10, <1>11, RetokenedIsSound DEF SoundLibrary
<1>13. n.token > used.tokens
  BY <1>1, <1>4
<1>14. Follows(mem, lib, used)
  BY <1>3, <1>7, <1>13 DEF Follows
<1>15. Ended(lib, t)
  <2>1. n.token # t
    BY <1>1, <1>2, <1>4 DEF MembershipInv, SoundLibrary, TokensStandOnce
  <2> QED BY <1>3, <1>7, <2>1 DEF Ended
<1> DEFINE tokens == {t}
<1>16. /\ \A x \in tokens : Ended(lib, x)
       /\ \A x \in tokens : \E s \in mem.sessions : x = s.token
       /\ \/ Saved(lib) /\ dead' = dead \cup tokens
          \/ Unsaved(lib) /\ UNCHANGED dead
  BY <1>2, <1>5, <1>15
<1> HIDE DEF tokens
<1> QED BY <1>1, <1>5, <1>6, <1>12, <1>14, <1>16, AnswerKeeps

\* revoke_current_mobile_session and revoke_mobile_device_sessions.
LEMMA RevokeMobileSessionsKeeps ==
  ASSUME MembershipInv, NEW t, NEW d, revoke_mobile_sessions(t, d)
  PROVE  MembershipInv'
<1>1. PICK all \in BOOLEAN :
        LET here == {s \in mem.sessions : s.vault = SessionOf(mem, t).vault /\ s.device = d /\ ~s.gone}
            closed == IF all THEN here ELSE {SessionOf(mem, t)}
            lib == EndSessions(mem, closed)
        IN  \/ Saved(lib) /\ dead' = dead \cup {s.token : s \in closed}
            \/ Unsaved(lib) /\ UNCHANGED dead
  BY DEF revoke_mobile_sessions
<1> DEFINE here == {s \in mem.sessions : s.vault = SessionOf(mem, t).vault /\ s.device = d /\ ~s.gone}
           closed == IF all THEN here ELSE {SessionOf(mem, t)}
           lib == EndSessions(mem, closed)
           tokens == {s.token : s \in closed}
<1>2. used \in Identities /\ NoFewer(used, used') /\ used' = used /\ UNCHANGED <<archive, paired>>
  BY NoFewerRefl DEF MembershipInv, revoke_mobile_sessions
<1>3. closed \in SUBSET mem.sessions
  <2>1. SessionOf(mem, t) \in mem.sessions
    BY UsableSession DEF MembershipInv, revoke_mobile_sessions
  <2> QED BY <2>1
<1>4. \/ Saved(lib) /\ dead' = dead \cup tokens
      \/ Unsaved(lib) /\ UNCHANGED dead
  BY <1>1
<1> HIDE DEF closed
<1>5. SoundLibrary(lib, used') /\ Follows(mem, lib, used) /\ \A s \in closed : Ended(lib, s.token)
  BY <1>2, <1>3, EndedIsSound DEF MembershipInv
<1>6. \A x \in tokens : Ended(lib, x) /\ \E s \in mem.sessions : x = s.token
  BY <1>3, <1>5
<1> HIDE DEF lib, tokens
<1> QED BY <1>2, <1>4, <1>5, <1>6, AnswerKeeps

\* revoke_device answers that every session of the device is over.
LEMMA RevokeDeviceKeeps ==
  ASSUME MembershipInv, NEW d, revoke_device(d)
  PROVE  MembershipInv'
<1> DEFINE lib == Revoked(mem, d)
           tokens == {s.token : s \in {x \in mem.sessions : x.device = d}}
<1>1. used \in Identities /\ NoFewer(used, used') /\ used' = used /\ UNCHANGED <<archive, paired>>
  BY NoFewerRefl DEF MembershipInv, revoke_device
<1>2. \/ Saved(lib) /\ dead' = dead \cup tokens
      \/ Unsaved(lib) /\ UNCHANGED dead
  BY DEF revoke_device
<1>3. SoundLibrary(lib, used') /\ Follows(mem, lib, used)
      /\ \A s \in mem.sessions : s.device = d => Ended(lib, s.token)
  BY <1>1, RevokedIsSound DEF MembershipInv
<1>4. \A x \in tokens : Ended(lib, x) /\ \E s \in mem.sessions : x = s.token
  BY <1>3
<1> HIDE DEF lib, tokens
<1> QED BY <1>1, <1>2, <1>3, <1>4, AnswerKeeps


\* create_vault: what the first vault had goes to the new one, or this machine
\* becomes a member of one vault more.
LEMMA CreateVaultKeeps ==
  ASSUME MembershipInv, create_vault
  PROVE  MembershipInv'
<1> DEFINE v == used.vaults + 1
           moved(rows) == {[x EXCEPT !.vault = v] : x \in rows}
           renamed == [mem EXCEPT !.vaults = <<v>>, !.bootstrap = FALSE,
                                  !.members = moved(mem.members),
                                  !.envelopes = moved(mem.envelopes)]
           row == [vault |-> v, device |-> local_device_id(mem), gone |-> FALSE]
           added == [mem EXCEPT !.vaults = Append(@, v), !.members = @ \cup {row}]
           l == IF Replaceable(mem) THEN ensure_local_vault_member(renamed, v) ELSE added
           lib == Enveloped(l)
<1>1. used \in Identities /\ NoFewer(used, used') /\ v \in Nat
  BY FreshUsesOne DEF MembershipInv, create_vault, Identities
<1>2. SoundLibrary(mem, used') /\ mem \in LibraryType
  BY <1>1, SoundLater DEF MembershipInv, SoundLibrary
<1>3. (Saved(lib) \/ Unsaved(lib)) /\ local_device_id(mem) # 0
      /\ UNCHANGED <<archive, paired, dead>>
  BY DEF create_vault
<1>4. SoundLibrary(renamed, used') /\ Refiles(mem, renamed)
  <2>1. \A x \in Row : /\ [x EXCEPT !.vault = v] \in Row
                       /\ [x EXCEPT !.vault = v].device = x.device
                       /\ [x EXCEPT !.vault = v].gone = x.gone
    BY <1>1 DEF Row
  <2>2. \A rows : \A y \in moved(rows) : \E x \in rows : y = [x EXCEPT !.vault = v]
    OBVIOUS
  <2>3. mem.members \in SUBSET Row /\ mem.envelopes \in SUBSET Row
    BY <1>2 DEF LibraryType
  <2> HIDE DEF moved
  <2>4. \A rows \in SUBSET Row : \A y \in moved(rows) :
          y \in Row /\ \E x \in rows : y.device = x.device /\ y.gone = x.gone
    <3>1. ASSUME NEW rows \in SUBSET Row, NEW y \in moved(rows)
          PROVE  y \in Row /\ \E x \in rows : y.device = x.device /\ y.gone = x.gone
      <4>1. PICK x \in rows : y = [x EXCEPT !.vault = v]
        BY <2>2
      <4>2. x \in Row
        OBVIOUS
      <4> QED BY <2>1, <4>1, <4>2
    <3> QED BY <3>1
  <2>5. <<v>> \in Seq(Nat) /\ Len(<<v>>) > 0
    BY <1>1
  <2>6. renamed \in LibraryType /\ renamed.members = moved(mem.members)
        /\ renamed.envelopes = moved(mem.envelopes) /\ renamed.vaults = <<v>>
        /\ renamed.me = mem.me /\ renamed.devices = mem.devices
        /\ renamed.sessions = mem.sessions /\ renamed.invites = mem.invites
    BY <1>2, <2>3, <2>4, <2>5 DEF LibraryType
  <2> HIDE DEF renamed
  <2>7. Refiles(mem, renamed)
    BY <2>5, <2>6 DEF Refiles
  <2>8. \A y \in renamed.members \cup renamed.envelopes : y.gone \/ ~Gone(mem, y.device)
    BY <1>2, <2>3, <2>4, <2>6 DEF SoundLibrary, NothingForTheGone
  <2> QED BY <1>2, <2>7, <2>8, RefiledIsSound
<1>5. SoundLibrary(added, used') /\ Refiles(mem, added)
  <2>1. local_device_id(mem) \in Nat /\ ~Gone(mem, local_device_id(mem))
    BY <1>2, <1>3, LocalIsLive
  <2>2. row \in Row /\ row.device = local_device_id(mem)
    BY <1>1, <2>1 DEF Row
  <2>3. mem.vaults \in Seq(Nat)
    BY <1>2 DEF LibraryType
  <2>4. Append(mem.vaults, v) \in Seq(Nat) /\ Len(Append(mem.vaults, v)) > 0
    BY <1>1, <2>3, AppendProperties, LenProperties
  <2> HIDE DEF row, v
  <2>5. added \in LibraryType /\ added.members = mem.members \cup {row}
        /\ added.envelopes = mem.envelopes /\ added.vaults = Append(mem.vaults, v)
        /\ added.me = mem.me /\ added.devices = mem.devices
        /\ added.sessions = mem.sessions /\ added.invites = mem.invites
    BY <1>2, <2>2, <2>4 DEF LibraryType
  <2> HIDE DEF added
  <2>6. Refiles(mem, added)
    BY <2>4, <2>5 DEF Refiles
  <2>7. \A y \in added.members \cup added.envelopes : y.gone \/ ~Gone(mem, y.device)
    BY <1>2, <2>1, <2>2, <2>5 DEF SoundLibrary, NothingForTheGone
  <2> QED BY <1>2, <2>6, <2>7, RefiledIsSound
<1>6. Stored(lib)
  BY <1>3, SaveStores
<1> HIDE DEF renamed, added, v
<1>7. SoundLibrary(l, used') /\ l.sessions = mem.sessions /\ l.invites = mem.invites
  BY <1>1, <1>4, <1>5, EnsureIsSound DEF Refiles
<1> HIDE DEF l
<1>8. SoundLibrary(lib, used') /\ lib.sessions = mem.sessions /\ lib.invites = mem.invites
  BY <1>7, EnvelopedIsSound DEF Refiles
<1> HIDE DEF lib
<1> QED BY <1>1, <1>3, <1>6, <1>8, SameTokensFollow, QuietStepKeeps

\* create_device and enroll_device.
LEMMA EnrollDeviceKeeps ==
  ASSUME MembershipInv, NEW v, enroll_device(v)
  PROVE  MembershipInv'
<1> DEFINE l == ensure_distributed_defaults(mem)
           lib == AddDevice(l, used.devices + 1, v)
<1>1. NoFewer(used, used') /\ used'.devices = used.devices + 1
  BY FreshUsesOne DEF MembershipInv, enroll_device, Identities
<1>2. SoundLibrary(l, used) /\ l.sessions = mem.sessions /\ l.invites = mem.invites
  BY DefaultsAreSound DEF MembershipInv, Refiles
<1>3. v \in Nat
  BY VaultIsNumber DEF MembershipInv, enroll_device
<1>4. SoundLibrary(lib, used') /\ lib.sessions = mem.sessions /\ lib.invites = mem.invites
  BY <1>1, <1>2, <1>3, AddedIsSound
<1>5. Stored(lib) /\ UNCHANGED <<archive, paired, dead>>
  BY SaveStores DEF enroll_device
<1> HIDE DEF lib
<1> QED BY <1>1, <1>4, <1>5, SameTokensFollow, QuietStepKeeps

\* The first key of the device that is local here takes nothing from anybody.
LEMMA RefreshLocalEndpointKeeps ==
  ASSUME MembershipInv, refresh_local_endpoint_payload
  PROVE  MembershipInv'
<1>1. PICK k \in DOMAIN mem.devices :
        LET lib == [mem EXCEPT !.devices[k].pending = FALSE] IN Saved(lib) \/ Unsaved(lib)
  BY DEF refresh_local_endpoint_payload
<1> DEFINE lib == [mem EXCEPT !.devices[k].pending = FALSE]
           list == [mem.devices EXCEPT ![k].pending = FALSE]
<1>2. NoFewer(used, used') /\ used' = used /\ SoundLibrary(mem, used') /\ mem \in LibraryType
      /\ UNCHANGED <<archive, paired, dead>>
  BY NoFewerRefl DEF MembershipInv, refresh_local_endpoint_payload, SoundLibrary
<1>3. /\ list \in Seq(Device) /\ DOMAIN list = DOMAIN mem.devices
      /\ \A i \in DOMAIN list : /\ list[i].id = mem.devices[i].id
                                /\ list[i].gone = mem.devices[i].gone
                                /\ list[i].pending => mem.devices[i].pending
  <2>1. \A i \in DOMAIN mem.devices : mem.devices[i] \in Device
    BY <1>2, DeviceRows
  <2>2. \A x \in Device : /\ [x EXCEPT !.pending = FALSE] \in Device
                          /\ [x EXCEPT !.pending = FALSE].id = x.id
                          /\ [x EXCEPT !.pending = FALSE].gone = x.gone
                          /\ [x EXCEPT !.pending = FALSE].pending = FALSE
    BY DEF Device
  <2>3. DOMAIN mem.devices = 1 .. Len(mem.devices) /\ Len(mem.devices) \in Nat
        /\ mem.devices \in Seq(Device)
    BY <1>2, DeviceRows
  <2>4. list = [mem.devices EXCEPT ![k] = [mem.devices[k] EXCEPT !.pending = FALSE]]
    OBVIOUS
  <2>5. /\ list[k] = [mem.devices[k] EXCEPT !.pending = FALSE]
        /\ \A i \in (DOMAIN mem.devices) \ {k} : list[i] = mem.devices[i]
        /\ DOMAIN list = DOMAIN mem.devices
    BY <2>4
  <2>6. list \in Seq(Device)
    BY <2>1, <2>2, <2>3, <2>4, ExceptSeq
  <2> HIDE DEF list
  <2>7. ASSUME NEW i \in DOMAIN list
        PROVE  /\ list[i].id = mem.devices[i].id /\ list[i].gone = mem.devices[i].gone
               /\ list[i].pending => mem.devices[i].pending
    <3>1. CASE i = k
      BY <2>1, <2>2, <2>5, <3>1
    <3>2. CASE i # k
      BY <2>5, <3>2
    <3> QED BY <3>1, <3>2
  <2> QED BY <2>5, <2>6, <2>7
<1>4. Stored(lib)
  BY <1>1, SaveStores
<1>5. lib = [mem EXCEPT !.devices = list]
  BY <1>2
<1> HIDE DEF list, lib
<1>6. lib \in LibraryType /\ lib.devices = list /\ lib.members = mem.members
      /\ lib.envelopes = mem.envelopes /\ lib.sessions = mem.sessions
      /\ lib.invites = mem.invites /\ lib.me = mem.me /\ lib.vaults = mem.vaults
  BY <1>2, <1>3, <1>5 DEF LibraryType
<1>7. \A d : Gone(lib, d) <=> Gone(mem, d)
  BY <1>3, <1>6 DEF Gone
<1>8. NothingForTheGone(lib) /\ DevicesStandOnce(lib, used'.devices)
  BY <1>2, <1>3, <1>6, <1>7 DEF SoundLibrary, NothingForTheGone, DevicesStandOnce
<1>9. ThisMachineFirst(lib)
  <2>1. PICK j \in DOMAIN mem.devices :
          /\ mem.devices[j].id = mem.me
          /\ ~mem.devices[j].gone =>
                \A i \in DOMAIN mem.devices : ~mem.devices[i].gone =>
                    j <= i /\ (mem.devices[i].pending => i = j)
    BY <1>2 DEF SoundLibrary, ThisMachineFirst
  <2> QED BY <1>3, <1>6, <2>1 DEF ThisMachineFirst
<1>10. SoundLibrary(lib, used')
  BY <1>2, <1>6, <1>8, <1>9 DEF SoundLibrary
<1> QED BY <1>2, <1>4, <1>6, <1>10, SameTokensFollow, QuietStepKeeps

\* An import files a blob.
LEMMA FileBlobKeeps == ASSUME MembershipInv, FileBlob PROVE MembershipInv'
<1> DEFINE l == Enveloped(mem)
           lib == [l EXCEPT !.filed = TRUE]
<1>1. NoFewer(used, used') /\ used' = used /\ UNCHANGED <<archive, paired, dead>>
  BY NoFewerRefl DEF MembershipInv, FileBlob
<1>2. SoundLibrary(l, used) /\ l.sessions = mem.sessions /\ l.invites = mem.invites /\ l \in LibraryType
  BY EnvelopedIsSound DEF MembershipInv, Refiles
<1>3. Stored(lib)
  BY SaveStores DEF FileBlob
<1> HIDE DEF l
<1>4. lib \in LibraryType /\ lib.devices = l.devices /\ lib.members = l.members
      /\ lib.envelopes = l.envelopes /\ lib.sessions = l.sessions
      /\ lib.invites = l.invites /\ lib.me = l.me /\ lib.vaults = l.vaults
  BY <1>2 DEF LibraryType
<1> HIDE DEF lib
<1>5. Refiles(l, lib) /\ \A x \in lib.members \cup lib.envelopes : x.gone \/ ~Gone(l, x.device)
  BY <1>2, <1>4 DEF Refiles, SoundLibrary, NothingForTheGone
<1>6. SoundLibrary(lib, used')
  BY <1>1, <1>2, <1>5, RefiledIsSound
<1> QED BY <1>1, <1>2, <1>3, <1>4, <1>6, SameTokensFollow, QuietStepKeeps

\* A restart serves what the database has, with the defaults filled in.
LEMMA RestartDaemonKeeps == ASSUME MembershipInv, RestartDaemon PROVE MembershipInv'
<1> DEFINE l == ensure_distributed_defaults(disk)
           lib == Enveloped(l)
<1>1. mem' = lib /\ disk' \in {disk, lib} /\ UNCHANGED <<archive, paired, dead, used>>
  BY DEF RestartDaemon
<1>2. SoundLibrary(l, used) /\ l.sessions = disk.sessions /\ l.invites = disk.invites
  BY DefaultsAreSound DEF MembershipInv, Refiles
<1> HIDE DEF l
<1>3. SoundLibrary(lib, used) /\ lib.sessions = disk.sessions /\ lib.invites = disk.invites
  BY <1>2, EnvelopedIsSound DEF Refiles
<1> HIDE DEF lib
<1>4. SoundLibrary(mem, used)' /\ SoundLibrary(disk, used)' /\ (archive # <<>> => SoundLibrary(archive[1], used))'
  BY <1>1, <1>3 DEF MembershipInv
<1>5. mem'.sessions = disk.sessions /\ mem'.invites = disk.invites
      /\ disk'.sessions = disk.sessions /\ disk'.invites = disk.invites
  BY <1>1, <1>3
<1>6. (\A t \in dead : t \in 1 .. used.tokens /\ Ended(mem, t) /\ Ended(disk, t))'
  BY <1>1, <1>5 DEF MembershipInv, Ended
<1>7. (\A x \in paired : x \in Nat \X Nat /\ x[1] <= used.invites
                         /\ Spent(mem, x[1]) /\ Spent(disk, x[1]))'
  BY <1>1, <1>5 DEF MembershipInv, Spent
<1>8. TokenPairsOnce' /\ used' \in Identities
  BY <1>1 DEF MembershipInv, TokenPairsOnce
<1> QED BY <1>4, <1>6, <1>7, <1>8 DEF MembershipInv

\* A backup is the database as it is.
LEMMA TakeBackupKeeps == ASSUME MembershipInv, TakeBackup PROVE MembershipInv'
<1>1. archive' = <<disk>> /\ archive'[1] = disk /\ UNCHANGED <<mem, disk, paired, dead, used>>
  BY DEF TakeBackup
<1>2. TokenPairsOnce'
  BY <1>1 DEF MembershipInv, TokenPairsOnce
<1>3. SoundLibrary(mem, used)' /\ SoundLibrary(disk, used)' /\ SoundLibrary(archive[1], used)'
  BY <1>1 DEF MembershipInv
<1>4. (\A t \in dead : t \in 1 .. used.tokens /\ Ended(mem, t) /\ Ended(disk, t))'
  BY <1>1 DEF MembershipInv
<1>5. (\A x \in paired : x \in Nat \X Nat /\ x[1] <= used.invites
                         /\ Spent(mem, x[1]) /\ Spent(disk, x[1]))'
  BY <1>1 DEF MembershipInv
<1> QED BY <1>1, <1>2, <1>3, <1>4, <1>5 DEF MembershipInv

\* A restore serves an older library, in which no token of it is left.
LEMMA RestoreLibraryKeeps == ASSUME MembershipInv, RestoreLibrary PROVE MembershipInv'
<1> DEFINE lib == Rebound(archive[1], used.devices + 1)
<1>1. used \in Identities /\ used' = [used EXCEPT !.devices = @ + 1] /\ archive # <<>>
      /\ SoundLibrary(archive[1], used) /\ mem' = lib /\ disk' = lib /\ paired' = {}
      /\ UNCHANGED <<archive, dead>>
  BY DEF MembershipInv, RestoreLibrary
<1>2. NoFewer(used, used') /\ used'.devices = used.devices + 1 /\ used'.tokens = used.tokens
  BY <1>1 DEF NoFewer, Identities
<1>3. SoundLibrary(lib, used') /\ lib.sessions = {}
  BY <1>1, <1>2, ReboundIsSound
<1> HIDE DEF lib
<1>4. SoundLibrary(mem, used)' /\ SoundLibrary(disk, used)' /\ (archive # <<>> => SoundLibrary(archive[1], used))'
  BY <1>1, <1>2, <1>3, SoundLater
<1>5. (\A t \in dead : t \in 1 .. used.tokens /\ Ended(mem, t) /\ Ended(disk, t))'
  BY <1>1, <1>2, <1>3 DEF MembershipInv, Ended
<1>6. TokenPairsOnce' /\ used' \in Identities
  BY <1>1, <1>2 DEF TokenPairsOnce, NoFewer
<1>7. (\A x \in paired : x \in Nat \X Nat /\ x[1] <= used.invites
                         /\ Spent(mem, x[1]) /\ Spent(disk, x[1]))'
  BY <1>1
<1> QED BY <1>4, <1>5, <1>6, <1>7 DEF MembershipInv

-----------------------------------------------------------------------------
(* The theorems. *)

\* A new library is sound.
LEMMA InitIsSound == MembershipInit => MembershipInv
<1> SUFFICES ASSUME MembershipInit PROVE MembershipInv
  OBVIOUS
<1> DEFINE device == [id |-> 1, pending |-> TRUE, gone |-> FALSE]
           row == [vault |-> 1, device |-> 1, gone |-> FALSE]
<1>1. used \in Identities /\ used.devices = 1 /\ mem = NewLibrary /\ disk = NewLibrary
      /\ archive = <<>> /\ paired = {} /\ dead = {}
  BY DEF MembershipInit, Identities
<1>2. device \in Device /\ row \in Row /\ device.id = 1 /\ device.gone = FALSE
  BY DEF Device, Row
<1>3. NewLibrary \in LibraryType
  BY <1>2 DEF NewLibrary, LibraryType
<1>4. /\ NewLibrary.devices = <<device>> /\ NewLibrary.me = 1 /\ NewLibrary.vaults = <<1>>
      /\ NewLibrary.sessions = {} /\ NewLibrary.invites = {}
  BY DEF NewLibrary
<1> HIDE DEF device, row
<1>5. DOMAIN NewLibrary.devices = {1} /\ NewLibrary.devices[1] = device /\ Len(NewLibrary.vaults) > 0
  BY <1>4
<1>6. \A d : ~Gone(NewLibrary, d)
  BY <1>2, <1>5 DEF Gone
<1>7. DevicesStandOnce(NewLibrary, 1) /\ NothingForTheGone(NewLibrary)
  BY <1>2, <1>5, <1>6 DEF DevicesStandOnce, NothingForTheGone
<1>8. ThisMachineFirst(NewLibrary)
  BY <1>2, <1>4, <1>5 DEF ThisMachineFirst
<1>9. SoundLibrary(NewLibrary, used)
  BY <1>1, <1>3, <1>4, <1>5, <1>7, <1>8 DEF SoundLibrary, TokensStandOnce
<1> QED BY <1>1, <1>9 DEF MembershipInv, TokenPairsOnce

\* Every step keeps the invariant.
LEMMA NextKeeps == MembershipInv /\ [MembershipNext]_memberVars => MembershipInv'
<1> SUFFICES ASSUME MembershipInv, [MembershipNext]_memberVars PROVE MembershipInv'
  OBVIOUS
<1>1. CASE Touch \/ create_vault \/ refresh_local_endpoint_payload \/ RestartDaemon
           \/ FileBlob \/ TakeBackup \/ RestoreLibrary
  BY <1>1, TouchKeeps, CreateVaultKeeps, RefreshLocalEndpointKeeps, RestartDaemonKeeps,
     FileBlobKeeps, TakeBackupKeeps, RestoreLibraryKeeps
<1>2. CASE \E v \in 0 .. MaxVaults :
             \/ create_pairing_session(v) \/ enroll_device(v)
             \/ \E p \in mem.invites : Pair(p, v)
  BY <1>2, CreatePairingSessionKeeps, EnrollDeviceKeeps, PairKeeps
<1>3. CASE \E t \in 1 .. MaxTokens :
             \/ refresh_mobile_session(t)
             \/ \E d \in 1 .. MaxDevices : revoke_mobile_sessions(t, d)
  BY <1>3, RefreshMobileSessionKeeps, RevokeMobileSessionsKeeps
<1>4. CASE \E d \in 1 .. MaxDevices : revoke_device(d)
  BY <1>4, RevokeDeviceKeeps
<1>5. CASE UNCHANGED memberVars
  <2>1. UNCHANGED <<mem, disk, archive, paired, dead, used>>
    BY <1>5 DEF memberVars
  <2>2. used' \in Identities /\ SoundLibrary(mem, used)' /\ SoundLibrary(disk, used)'
        /\ (archive # <<>> => SoundLibrary(archive[1], used))'
    BY <2>1 DEF MembershipInv
  <2>3. (\A t \in dead : t \in 1 .. used.tokens /\ Ended(mem, t) /\ Ended(disk, t))'
    BY <2>1 DEF MembershipInv
  <2>4. (\A x \in paired : x \in Nat \X Nat /\ x[1] <= used.invites
                           /\ Spent(mem, x[1]) /\ Spent(disk, x[1]))'
    BY <2>1 DEF MembershipInv
  <2>5. TokenPairsOnce'
    BY <2>1 DEF MembershipInv, TokenPairsOnce
  <2> QED BY <2>2, <2>3, <2>4, <2>5 DEF MembershipInv
<1> QED BY <1>1, <1>2, <1>3, <1>4, <1>5 DEF MembershipNext

\* The invariant is one.
THEOREM MembershipInvariance == MembershipSpec => []MembershipInv
<1>1. MembershipInit => MembershipInv
  BY InitIsSound
<1>2. MembershipInv /\ [MembershipNext]_memberVars => MembershipInv'
  BY NextKeeps
<1> QED BY <1>1, <1>2, PTL DEF MembershipSpec

\* revoke_device takes memberships, key references and sessions from a device
\* for good: no handler that fills in defaults, no failed save, no restart and no
\* restore gives one back.
THEOREM TheRevokedHaveNothing == MembershipSpec => []RevokedHasNothing
<1>1. MembershipInv => RevokedHasNothing
  BY DEF MembershipInv, SoundLibrary, NothingForTheGone, RevokedHasNothing
<1> QED BY <1>1, MembershipInvariance, PTL

\* A bearer token opens nothing after its end was answered, and one pairing token
\* pairs one device, for any number of failed saves, restarts and restores.
THEOREM TokensComeToAnEnd == MembershipSpec => []TokensEnd
<1>1. MembershipInv => TokensEnd
  BY DEF MembershipInv, TokensEnd, DeadTokensStayDead, Usable, Ended
<1> QED BY <1>1, MembershipInvariance, PTL

\* While this machine is enrolled it is the device that local_device_id finds, so
\* the defaults never make a phone or another desktop an administrator.
THEOREM ThisMachineIsTheDefault == MembershipSpec => []OnlyThisMachineByDefault
<1>1. MembershipInv => OnlyThisMachineByDefault
  BY LocalIsThis DEF MembershipInv, OnlyThisMachineByDefault
<1> QED BY <1>1, MembershipInvariance, PTL

-----------------------------------------------------------------------------
(* The update of the database.  The table of the blobs has all of its rows  *)
(* or none of them (Whole), whatever start was interrupted; and the version *)
(* is recorded only by the transaction that finds every chunk row's blob.   *)
(* What a start has done is known from the step it has come to (Ordered),   *)
(* and a database that has the version has everything (Migrated).           *)

\* The rows of the old database that say which vault has an asset.
Said(a) == {v \in Owners : <<a, v>> \in old.tables["blob_records"] \cup old.evidence}

MigrationTypes ==
    /\ DOMAIN tables = Rebuilt /\ DOMAIN copies = Rebuilt
    /\ old.tables["blob_records"] \subseteq Blobs /\ old.evidence = evidence
    /\ old.version \in 0 .. 23 /\ version \in {old.version, SCHEMA_VERSION}
    /\ columns \subseteq ColumnVersions
    /\ \A c \in ColumnVersions : c <= old.version => c \in columns

Whole ==
    \A rows \in {tables["blob_records"], copies["blob_records"]} :
        rows \in {old.tables["blob_records"], {}, Absent}

Rebuilding == {"drop_copy", "create", "fill", "drop", "rename"}

Ordered ==
    /\ step[1] \in Rebuilding => version < 11
    /\ step[1] \in Rebuilding \cup {"late_columns"} => \A c \in Lacking : c >= 11
    /\ step[1] \in {"tokens", "owners"} => Lacking = {}
    /\ plain => version < 21
    /\ step[1] = "owners" => ~plain
    /\ tables["blob_records"] = Absent =>
          step[1] = "open" \/ (step[1] = "rename" /\ step[2] = "blob_records")
    /\ step[1] \in {"fill", "drop", "rename"} /\ step[2] = "blob_records" =>
          copies["blob_records"] # Absent
    /\ step[1] = "serving" => version = SCHEMA_VERSION

Migrated ==
    /\ tables["blob_records"] = old.tables["blob_records"]
    /\ columns = ColumnVersions /\ ~plain
    /\ \A a \in Assets : IF \E v \in old.known : Said(a) = {v} THEN owner[a] \in Said(a)
                         ELSE owner[a] = NoOwner

\* The inductive invariant.
MigrationInv ==
    /\ MigrationTypes /\ Whole /\ Ordered
    /\ version = SCHEMA_VERSION => Migrated

\* A missing table is no table of blobs.
LEMMA AbsentIsNoRows == \A rows : rows \subseteq Blobs => rows # Absent
<1>1. <<"absent">> \notin Assets \X Owners
  OBVIOUS
<1> QED BY <1>1 DEF Blobs, Absent

\* The column that is added next is one that is lacking.
LEMMA LeastIsLacking ==
  ASSUME NEW S, S \subseteq ColumnVersions, S # {}
  PROVE  Least(S) \in S
<1>1. \E c \in S : \A d \in S : c <= d
  <2>1. \A c \in S : c \in {6, 10, 13, 14, 16, 22}
    BY DEF ColumnVersions
  <2>2. CASE 6 \in S
    BY <2>1, <2>2
  <2>3. CASE 6 \notin S /\ 10 \in S
    BY <2>1, <2>3
  <2>4. CASE 6 \notin S /\ 10 \notin S /\ 13 \in S
    BY <2>1, <2>4
  <2>5. CASE 6 \notin S /\ 10 \notin S /\ 13 \notin S /\ 14 \in S
    BY <2>1, <2>5
  <2>6. CASE 6 \notin S /\ 10 \notin S /\ 13 \notin S /\ 14 \notin S /\ 16 \in S
    BY <2>1, <2>6
  <2>7. CASE 6 \notin S /\ 10 \notin S /\ 13 \notin S /\ 14 \notin S /\ 16 \notin S
    BY <2>1, <2>7
  <2> QED BY <2>2, <2>3, <2>4, <2>5, <2>6, <2>7
<1> QED BY <1>1 DEF Least

\* The owner that is written is the one vault the rows name, if it exists.
LEMMA OwnersAreUnanimous ==
  ASSUME NEW says \in SUBSET Owners, NEW known
  PROVE  IF \E v \in known : says = {v} THEN Unanimous(says, known) \in says
         ELSE Unanimous(says, known) = NoOwner
<1>1. IsFiniteSet(says)
  BY MigrationAssumption, FS_Subset
<1>2. Cardinality(says) = 1 <=> \E v : says = {v}
  BY <1>1, FS_Singleton
<1>3. CASE \E v \in known : says = {v}
  <2>1. PICK v \in known : says = {v}
    BY <1>3
  <2>2. Unanimous(says, known) = CHOOSE w \in says : TRUE
    BY <1>2, <2>1 DEF Unanimous
  <2> QED BY <1>3, <2>1, <2>2
<1>4. CASE ~ \E v \in known : says = {v}
  <2>1. ~(Cardinality(says) = 1 /\ says \subseteq known)
    BY <1>2, <1>4
  <2> QED BY <1>4, <2>1 DEF Unanimous
<1> QED BY <1>3, <1>4

\* An old database: nothing is lost, and nothing is migrated.
LEMMA MigrationStarts == MigrationInit => MigrationInv
<1> SUFFICES ASSUME MigrationInit PROVE MigrationInv
  OBVIOUS
<1>1. PICK v \in OldVersions, blobs \in SUBSET Blobs, more \in SUBSET Blobs, known \in SUBSET Owners :
        \E sent \in SUBSET blobs :
        /\ tables = [t \in Rebuilt |-> IF t = "blob_records" THEN blobs ELSE sent]
        /\ copies = [t \in Rebuilt |-> Absent]
        /\ version = v
        /\ columns = {c \in ColumnVersions : c <= v}
        /\ plain = (v < 21)
        /\ evidence = more
        /\ step = <<"open">>
        /\ old = [tables |-> tables, evidence |-> more, known |-> known, version |-> v]
  <2>1. PICK v \in OldVersions, blobs \in SUBSET Blobs, more \in SUBSET Blobs,
             known \in SUBSET Owners :
          \E sent \in SUBSET blobs :
          /\ v < 12 => more = {}
          /\ v < 9 => blobs = {}
          /\ v < 11 => \A b \in blobs : b[2] \in known
          /\ tables = [t \in Rebuilt |-> IF t = "blob_records" THEN blobs ELSE sent]
          /\ copies = [t \in Rebuilt |-> Absent]
          /\ version = v
          /\ columns = {c \in ColumnVersions : c <= v}
          /\ plain = (v < 21)
          /\ owner = [a \in Assets |-> NoOwner]
          /\ evidence = more
          /\ step = <<"open">> /\ crashes = 0
          /\ old = [tables |-> tables, evidence |-> more, known |-> known, version |-> v]
    BY Zenon DEF MigrationInit
  <2>2. PICK sent \in SUBSET blobs :
          /\ tables = [t \in Rebuilt |-> IF t = "blob_records" THEN blobs ELSE sent]
          /\ copies = [t \in Rebuilt |-> Absent]
          /\ version = v
          /\ columns = {c \in ColumnVersions : c <= v}
          /\ plain = (v < 21)
          /\ evidence = more
          /\ step = <<"open">>
          /\ old = [tables |-> tables, evidence |-> more, known |-> known, version |-> v]
    BY <2>1
  <2> QED BY <2>2
<1>2. v \in 0 .. 23 /\ v # SCHEMA_VERSION
  BY MigrationAssumption DEF SCHEMA_VERSION
<1>3. "blob_records" \in Rebuilt
  BY DEF Rebuilt
<1>4. tables["blob_records"] = blobs /\ old.tables = tables /\ old.version = v /\ old.evidence = more
  BY <1>1, <1>3
<1>5. MigrationTypes
  BY <1>1, <1>2, <1>4 DEF MigrationTypes
<1>6. Whole
  BY <1>1, <1>3, <1>4 DEF Whole
<1>7. tables["blob_records"] # Absent
  BY <1>1, <1>4, AbsentIsNoRows
<1>8. Ordered
  <2>1. plain => version < 21
    BY <1>1, <1>2
  <2>2. step[1] = "open"
    BY <1>1
  <2> QED BY <1>7, <2>1, <2>2 DEF Ordered, Rebuilding
<1> QED BY <1>1, <1>2, <1>5, <1>6, <1>8 DEF MigrationInv

\* Every statement of a start, and every interruption, preserves the invariant.
LEMMA MigrationSteps == MigrationInv /\ [MigrationNext]_migrationVars => MigrationInv'
<1> SUFFICES ASSUME MigrationInv, [MigrationNext]_migrationVars PROVE MigrationInv'
  OBVIOUS
<1> DEFINE B == old.tables["blob_records"]
<1>1. MigrationTypes /\ Whole /\ Ordered /\ (version = SCHEMA_VERSION => Migrated)
  BY DEF MigrationInv
<1>2. "blob_records" \in Rebuilt /\ B # Absent /\ {} # Absent
  BY <1>1, AbsentIsNoRows DEF MigrationTypes, Rebuilt, Absent
<1>3. CASE Bootstrap
  <2>1. version <= SCHEMA_VERSION
    BY <1>1 DEF MigrationTypes, SCHEMA_VERSION
  <2>2. /\ step[1] = "open" /\ step'[1] = "columns"
        /\ tables' = [t \in Rebuilt |-> IF tables[t] = Absent THEN {} ELSE tables[t]]
        /\ UNCHANGED <<copies, version, columns, plain, owner, evidence, crashes, old>>
    BY <1>1, <1>3, <2>1 DEF Bootstrap, MigrationTypes, SCHEMA_VERSION
  <2>3. tables'["blob_records"] = IF tables["blob_records"] = Absent THEN {} ELSE tables["blob_records"]
    BY <1>2, <2>2
  <2>4. MigrationTypes'
    BY <1>1, <2>2 DEF MigrationTypes, Blobs
  <2>5. Whole'
    BY <1>1, <2>2, <2>3 DEF Whole
  <2>6. Ordered'
    BY <1>1, <1>2, <2>2, <2>3 DEF Ordered, Rebuilding, Lacking
  <2>7. version' = SCHEMA_VERSION => Migrated'
    BY <1>1, <1>2, <2>2, <2>3 DEF Migrated, Said
  <2> QED BY <2>4, <2>5, <2>6, <2>7 DEF MigrationInv
<1>4. CASE AddColumns \/ AddLateColumns
  <2>1. UNCHANGED <<tables, copies, version, plain, owner, evidence, crashes, old>>
    BY <1>4 DEF AddColumns, AddLateColumns
  <2>2. columns \subseteq columns' /\ columns' \subseteq ColumnVersions
    <3>1. Lacking \subseteq ColumnVersions
      BY DEF Lacking
    <3>2. Lacking # {} => Least(Lacking) \in ColumnVersions
      BY <3>1, LeastIsLacking
    <3> QED BY <1>1, <1>4, <3>2 DEF AddColumns, AddLateColumns, MigrationTypes
  <2>3. MigrationTypes'
    BY <1>1, <2>1, <2>2 DEF MigrationTypes, Blobs
  <2>4. Whole'
    BY <1>1, <2>1 DEF Whole
  <2>5. Ordered'
    <3>1. step[1] \in {"columns", "late_columns"}
      <4>1. step = <<"columns">> \/ step = <<"late_columns">>
        BY <1>4, Zenon DEF AddColumns, AddLateColumns
      <4> QED BY <4>1
    <3>2. version < 11 \/ version >= 11
      BY <1>1 DEF MigrationTypes, SCHEMA_VERSION
    <3>3. \A c \in ColumnVersions : c < 11 \/ c >= 11
      BY DEF ColumnVersions
    <3>4. Lacking' = {c \in ColumnVersions : version < c /\ c \notin columns'}
      BY <2>1 DEF Lacking
    <3>5. \/ step' = step
          \/ /\ columns' = columns /\ {c \in Lacking : c < 11} = {}
             /\ step'[1] = IF version < 11 THEN "drop_copy" ELSE "late_columns"
          \/ columns' = columns /\ Lacking = {} /\ step'[1] = "tokens"
      BY <1>4 DEF AddColumns, AddLateColumns
    <3>6. Lacking' \subseteq Lacking /\ Lacking \subseteq ColumnVersions
      BY <2>2, <3>4 DEF Lacking
    <3>7. tables["blob_records"] # Absent
      BY <1>1, <3>1 DEF Ordered
    <3>8. CASE step' = step
      BY <1>1, <2>1, <3>1, <3>6, <3>7, <3>8 DEF Ordered, Rebuilding
    <3>9. CASE /\ columns' = columns /\ {c \in Lacking : c < 11} = {}
               /\ step'[1] = IF version < 11 THEN "drop_copy" ELSE "late_columns"
      <4>1. \A c \in Lacking' : c >= 11
        BY <3>3, <3>6, <3>9
      <4> QED BY <1>1, <2>1, <3>7, <3>9, <4>1 DEF Ordered, Rebuilding
    <3>10. CASE columns' = columns /\ Lacking = {} /\ step'[1] = "tokens"
      BY <1>1, <2>1, <3>6, <3>7, <3>10 DEF Ordered, Rebuilding
    <3> QED BY <3>5, <3>8, <3>9, <3>10
  <2>6. version' = SCHEMA_VERSION => Migrated'
    BY <1>1, <2>1, <2>2 DEF Migrated, Said
  <2> QED BY <2>3, <2>4, <2>5, <2>6 DEF MigrationInv
<1>5. ASSUME NEW t \in Rebuilt, DropLeftover(t) \/ CreateCopy(t) \/ FillCopy(t) \/ DropOld(t) \/ Rename(t)
      PROVE  MigrationInv'
  <2>1. /\ step[1] \in Rebuilding /\ step[2] = t
        /\ UNCHANGED <<version, columns, plain, owner, evidence, crashes, old>>
    BY <1>5 DEF DropLeftover, CreateCopy, FillCopy, DropOld, Rename, Statement, Rebuilding
  <2>2. version < 11 /\ version # SCHEMA_VERSION /\ \A c \in Lacking : c >= 11
    BY <1>1, <2>1 DEF Ordered, MigrationTypes, SCHEMA_VERSION
  <2>3. \/ /\ step[1] = "drop_copy" /\ step'[1] = "create" /\ tables' = tables
           /\ copies' = [copies EXCEPT ![t] = Absent]
        \/ /\ step[1] = "create" /\ step'[1] = "fill" /\ tables' = tables
           /\ copies' = [copies EXCEPT ![t] = {}]
        \/ /\ step[1] = "fill" /\ step'[1] = "drop" /\ step'[2] = t /\ tables' = tables
           /\ copies' = [copies EXCEPT ![t] = tables[t]]
        \/ /\ step[1] = "drop" /\ step'[1] = "rename" /\ step'[2] = t /\ copies' = copies
           /\ tables' = [tables EXCEPT ![t] = Absent]
        \/ /\ step[1] = "rename" /\ step'[1] \in {"drop_copy", "late_columns"}
           /\ tables' = [tables EXCEPT ![t] = copies[t]]
           /\ copies' = [copies EXCEPT ![t] = Absent]
    BY <1>5 DEF DropLeftover, CreateCopy, FillCopy, DropOld, Rename, Statement
  <2>4. DOMAIN tables' = Rebuilt /\ DOMAIN copies' = Rebuilt
    BY <1>1, <2>3 DEF MigrationTypes
  <2>5. MigrationTypes'
    BY <1>1, <2>1, <2>4 DEF MigrationTypes, Blobs
  <2>6. Whole'
    <3>1. /\ tables'["blob_records"] \in {tables["blob_records"], copies["blob_records"], Absent}
          /\ copies'["blob_records"] \in {tables["blob_records"], copies["blob_records"], Absent, {}}
      BY <1>1, <1>2, <2>3 DEF MigrationTypes
    <3> QED BY <1>1, <2>1, <3>1 DEF Whole
  <2>7. Lacking' = Lacking
    BY <2>1 DEF Lacking
  <2>8. /\ t = "blob_records" => step'[2] = t \/ step'[1] \notin {"drop", "rename"}
        /\ t # "blob_records" => step'[2] = t \/ step'[1] \notin {"fill", "drop", "rename"}
        /\ step'[1] = "fill" => step'[2] = t
    BY <1>5 DEF DropLeftover, CreateCopy, FillCopy, DropOld, Rename, Statement
  <2>9. tables'["blob_records"] = Absent => step'[1] = "rename" /\ step'[2] = "blob_records"
    BY <1>1, <1>2, <2>1, <2>3 DEF MigrationTypes, Ordered, Rebuilding
  <2>10. step'[1] \in {"fill", "drop", "rename"} /\ step'[2] = "blob_records" =>
          copies'["blob_records"] # Absent
    BY <1>1, <1>2, <2>1, <2>3, <2>8 DEF MigrationTypes, Ordered, Rebuilding
  <2>11. Ordered'
    BY <1>1, <2>1, <2>2, <2>3, <2>7, <2>9, <2>10 DEF Ordered, Rebuilding
  <2> QED BY <2>1, <2>2, <2>5, <2>6, <2>11 DEF MigrationInv
<1>6. CASE HashTokens
  <2>1. /\ step[1] = "tokens" /\ plain' = (plain /\ version >= 21) /\ step'[1] = "owners"
        /\ UNCHANGED <<tables, copies, version, columns, owner, evidence, crashes, old>>
    BY <1>6 DEF HashTokens
  <2>2. ~plain'
    <3>1. plain => ~(version >= 21)
      BY <1>1 DEF Ordered, MigrationTypes, SCHEMA_VERSION
    <3> QED BY <2>1, <3>1, Zenon
  <2>3. Lacking' = {} /\ tables["blob_records"] # Absent
    BY <1>1, <2>1 DEF Ordered, Lacking
  <2>4. MigrationTypes'
    BY <1>1, <2>1 DEF MigrationTypes, Blobs
  <2>5. Whole'
    BY <1>1, <2>1 DEF Whole
  <2>6. Ordered'
    BY <1>1, <2>1, <2>2, <2>3 DEF Ordered, Rebuilding
  <2>7. version' = SCHEMA_VERSION => Migrated'
    BY <1>1, <2>1, <2>2 DEF Migrated, Said
  <2> QED BY <2>4, <2>5, <2>6, <2>7 DEF MigrationInv
<1>7. CASE MigrateOwners
  <2>1. step[1] = "owners" /\ UNCHANGED <<tables, copies, columns, plain, evidence, crashes, old>>
        /\ step'[1] \in {"serving", "refused"}
    BY <1>7 DEF MigrateOwners
  <2>2. ~plain /\ Lacking = {} /\ tables["blob_records"] # Absent
    BY <1>1, <2>1 DEF Ordered
  <2>3. Whole'
    BY <1>1, <2>1 DEF Whole
  <2>4. CASE version = SCHEMA_VERSION
    <3>1. step'[1] = "serving" /\ UNCHANGED <<owner, version>>
      BY <1>7, <2>4 DEF MigrateOwners, SCHEMA_VERSION
    <3>2. MigrationTypes'
      BY <1>1, <2>1, <3>1 DEF MigrationTypes, Blobs
    <3>3. Ordered'
      BY <2>1, <2>2, <2>4, <3>1 DEF Ordered, Rebuilding
    <3>4. Migrated'
      BY <1>1, <2>1, <2>4, <3>1 DEF Migrated, Said
    <3> QED BY <2>3, <3>2, <3>3, <3>4 DEF MigrationInv
  <2>5. CASE version # SCHEMA_VERSION
    <3>1. version = old.version /\ ~(version >= SCHEMA_VERSION)
      BY <1>1, <2>5 DEF MigrationTypes, SCHEMA_VERSION
    <3>2. CASE ReferencesHold
      <4>1. /\ owner' = [a \in Assets |-> Unanimous(Says(a), old.known)]
            /\ version' = SCHEMA_VERSION /\ step'[1] = "serving"
        <5>1. /\ owner' = [a \in Assets |-> Unanimous(Says(a), old.known)]
              /\ version' = SCHEMA_VERSION /\ step' = <<"serving">>
          BY <1>7, <3>1, <3>2, Zenon DEF MigrateOwners
        <5> QED BY <5>1
      <4>2. tables["blob_records"] = B
        BY <1>1, <2>2, <3>2 DEF ReferencesHold, ChunkRows, Whole
      <4>3. columns = ColumnVersions
        <5>1. \A c \in ColumnVersions : version < c \/ c <= version
          BY <1>1, <3>1 DEF MigrationTypes, ColumnVersions
        <5> QED BY <1>1, <2>2, <3>1, <5>1 DEF MigrationTypes, Lacking
      <4>4. \A a \in Assets : Says(a) = Said(a)
        BY <1>1, <2>2, <4>2 DEF Says, Said, MigrationTypes
      <4>5. \A a \in Assets : IF \E v \in old.known : Said(a) = {v} THEN owner'[a] \in Said(a)
                              ELSE owner'[a] = NoOwner
        <5> SUFFICES ASSUME NEW a \in Assets
                     PROVE  IF \E v \in old.known : Said(a) = {v} THEN owner'[a] \in Said(a)
                            ELSE owner'[a] = NoOwner
          OBVIOUS
        <5>1. owner'[a] = Unanimous(Said(a), old.known)
          BY <4>1, <4>4
        <5>2. Said(a) \in SUBSET Owners
          BY DEF Said
        <5> QED BY <5>1, <5>2, OwnersAreUnanimous
      <4>6. Migrated'
        BY <2>1, <2>2, <4>2, <4>3, <4>5 DEF Migrated, Said
      <4>7. MigrationTypes'
        BY <1>1, <2>1, <4>1 DEF MigrationTypes, Blobs
      <4>8. Ordered'
        BY <2>1, <2>2, <4>1 DEF Ordered, Rebuilding
      <4> QED BY <2>3, <4>6, <4>7, <4>8 DEF MigrationInv
    <3>3. CASE ~ReferencesHold
      <4>1. step'[1] = "refused" /\ UNCHANGED <<owner, version>>
        <5>1. step' = <<"refused">> /\ UNCHANGED <<owner, version>>
          BY <1>7, <3>1, <3>3, Zenon DEF MigrateOwners
        <5> QED BY <5>1
      <4>2. MigrationTypes'
        BY <1>1, <2>1, <4>1 DEF MigrationTypes, Blobs
      <4>3. Ordered'
        BY <2>1, <2>2, <4>1 DEF Ordered, Rebuilding
      <4> QED BY <2>3, <2>5, <4>1, <4>2, <4>3 DEF MigrationInv
    <3> QED BY <3>2, <3>3
  <2> QED BY <2>4, <2>5
<1>8. CASE Crash
  <2>1. step'[1] = "open" /\ UNCHANGED <<tables, copies, version, columns, plain, owner, evidence, old>>
    BY <1>8 DEF Crash
  <2>2. MigrationTypes'
    BY <1>1, <2>1 DEF MigrationTypes, Blobs
  <2>3. Whole'
    BY <1>1, <2>1 DEF Whole
  <2>4. Ordered'
    BY <1>1, <2>1 DEF Ordered, Rebuilding
  <2>5. version' = SCHEMA_VERSION => Migrated'
    BY <1>1, <2>1 DEF Migrated, Said
  <2> QED BY <2>2, <2>3, <2>4, <2>5 DEF MigrationInv
<1>9. CASE UNCHANGED migrationVars
  <2>1. UNCHANGED <<tables, copies, version, columns, plain, owner, evidence, step, crashes, old>>
    BY <1>9 DEF migrationVars
  <2>2. MigrationTypes'
    BY <1>1, <2>1 DEF MigrationTypes, Blobs
  <2>3. Whole'
    BY <1>1, <2>1 DEF Whole
  <2>4. Ordered'
    BY <1>1, <2>1 DEF Ordered, Lacking
  <2>5. version' = SCHEMA_VERSION => Migrated'
    BY <1>1, <2>1 DEF Migrated, Said
  <2> QED BY <2>2, <2>3, <2>4, <2>5 DEF MigrationInv
<1> QED BY <1>3, <1>4, <1>5, <1>6, <1>7, <1>8, <1>9 DEF MigrationNext, Opening

\* A store that is served after an update, however often that was interrupted,
\* has the schema its version claims, the owners that all the evidence of the
\* old database agreed on, and every blob row.
THEOREM UpdatedIsWhole == MigrationSpec => []ServedIsWhole
<1>1. MigrationInv => ServedIsWhole
  <2> SUFFICES ASSUME MigrationInv PROVE ServedIsWhole
    OBVIOUS
  <2>1. ASSUME step = <<"serving">> PROVE version = SCHEMA_VERSION /\ Migrated
    BY <2>1 DEF MigrationInv, Ordered
  <2>2. BlobRowsSurvive
    BY <2>1 DEF BlobRowsSurvive, Migrated
  <2>3. ServedIsMigrated
    BY <2>1 DEF ServedIsMigrated, Migrated, Said
  <2> QED BY <2>2, <2>3 DEF ServedIsWhole
<1> QED BY <1>1, MigrationStarts, MigrationSteps, PTL DEF MigrationSpec


-----------------------------------------------------------------------------
(* Backups.  While an export has the lock nothing else moves the rows or    *)
(* the files, so what it copies is what it listed (Exporting); it writes    *)
(* only to a directory without a snapshot, and one that has a manifest but  *)
(* no snapshot has been damaged.  A restore that has put its database into  *)
(* the destination is alone there: the others find it taken (Restoring).    *)

RootShape == /\ DOMAIN root = Roots
             /\ \A r \in Roots : DOMAIN root[r] = {"files", "db", "manifest"}

\* What the export that has the lock has done.
Exporting ==
    /\ export.at \in {"idle", "snapshot", "copy"}
    /\ export.at # "idle" =>
        /\ DOMAIN export = {"at", "root", "todo", "files"}
        /\ export.root \in Roots /\ export.files = Entries(orig) /\ export.todo \subseteq export.files
    /\ export.at = "snapshot" => export.todo = export.files
    /\ export.at = "copy" =>
        /\ root[export.root].db \in {{}, {saved}}
        /\ export.root \notin hurt =>
            /\ root[export.root].manifest = {} /\ root[export.root].db = {saved}
            /\ export.files \ export.todo \subseteq root[export.root].files

ExportSide == RootShape /\ Exporting /\ CatalogMatchesFiles /\ ManifestIsTrue

\* What a restore has done, and what it goes by.
DestShape == DOMAIN dest = {"files", "db", "report", "of"}

CallShape ==
    /\ DOMAIN call = Restores
    /\ \A x \in Restores : call[x].at \in {"database", "files"} =>
        /\ DOMAIN call[x] = {"at", "root", "manifest", "todo"}
        /\ NeedsNoKey(call[x].manifest)
        /\ call[x].at = "database" => call[x].todo = call[x].manifest.files

Restoring ==
    /\ dest.db = {} => dest.files = {} /\ dest.report = "none" /\ dest.of = {}
    /\ \A x \in Restores : call[x].at = "files" =>
        /\ dest.db = {call[x].manifest.catalog} /\ dest.of = {}
        /\ dest.files = call[x].manifest.files \ call[x].todo
        /\ call[x].todo \subseteq call[x].manifest.files
        /\ \A y \in Restores : call[y].at = "files" => y = x

RestoreSide == DestShape /\ CallShape /\ Restoring /\ RestoredIsUsable

\* The inductive invariant.
BackupInv == ExportSide /\ RestoreSide

\* A file of an original is the one entry that has its path.
LEMMA PathsDiffer ==
  ASSUME NEW of, NEW e \in Entries(of), NEW f \in Entries(of), Path(e) = Path(f)
  PROVE  e = f
<1>1. e.of = f.of /\ (e.seal = 0 <=> f.seal = 0)
  BY DEF Path
<1>2. \A g \in Entries(of) : g.seal \in {0, of[g.of].rows} /\ g = [of |-> g.of, seal |-> g.seal]
  BY DEF Entries
<1> QED BY <1>1, <1>2

\* Nothing is exported, and nothing restored.
LEMMA BackupStarts == BackupInit => BackupInv
<1> SUFFICES ASSUME BackupInit PROVE BackupInv
  OBVIOUS
<1>1. root = [r \in Roots |-> Nothing] /\ export = Idle /\ dest = Empty
      /\ call = [x \in Restores |-> Idle]
  BY DEF BackupInit
<1>2. ExportSide
  BY <1>1 DEF ExportSide, RootShape, Exporting, CatalogMatchesFiles, ManifestIsTrue, Nothing, Idle
<1>3. RestoreSide
  BY <1>1 DEF RestoreSide, DestShape, CallShape, Restoring, RestoredIsUsable, RestoredIsTheBackup,
              EncryptedComesWithKeys, Empty, Idle
<1> QED BY <1>2, <1>3 DEF BackupInv

\* What is restored does not depend on what the daemon does with its originals.
LEMMA RestoresApart ==
  ASSUME RestoreSide, dest' = dest, DOMAIN call' = Restores,
         \A x \in Restores : call'[x] = call[x] \/ call'[x].at \notin {"database", "files"}
  PROVE  RestoreSide'
<1>1. DestShape' /\ RestoredIsUsable'
  BY DEF RestoreSide, DestShape, RestoredIsUsable, RestoredIsTheBackup, EncryptedComesWithKeys, Encrypted
<1>2. CallShape'
  BY DEF RestoreSide, CallShape, NeedsNoKey, Encrypted
<1>3. Restoring'
  BY DEF RestoreSide, Restoring
<1> QED BY <1>1, <1>2, <1>3 DEF RestoreSide

\* Without an export under way, or when one ends, the directories stay true.
LEMMA NoExport ==
  ASSUME ExportSide, UNCHANGED <<root, hurt>>, export'.at = "idle"
  PROVE  ExportSide'
BY DEF ExportSide, RootShape, Exporting, CatalogMatchesFiles, ManifestIsTrue, Agrees, Manifest

\* The handlers that move originals wait for the export; a failure ends it.
LEMMA LibraryPreserves ==
  ASSUME BackupInv,
         \/ Refresh \/ RefreshUnsaved \/ Restart \/ SetPolicy
         \/ \E o \in Originals : Evict(o) \/ LoseFile(o)
         \/ RefuseExport \/ MissingEntry \/ StopExport
  PROVE  BackupInv'
<1>1. UNCHANGED <<root, hurt, dest>> /\ export'.at = "idle"
  <2>1. Idle.at = "idle"
    BY DEF Idle
  <2> QED BY <2>1 DEF Refresh, RefreshUnsaved, Restart, SetPolicy, Evict, LoseFile, RefuseExport, MissingEntry, StopExport
<1>2. /\ DOMAIN call' = Restores
      /\ \A x \in Restores : call'[x] = call[x] \/ call'[x].at \notin {"database", "files"}
  <2>1. CASE Restart
    BY <2>1 DEF Restart
  <2>2. CASE ~Restart
    BY <2>2 DEF BackupInv, RestoreSide, CallShape, Refresh, RefreshUnsaved, SetPolicy, Evict, LoseFile,
                RefuseExport, MissingEntry, StopExport
  <2> QED BY <2>1, <2>2
<1> QED BY <1>1, <1>2, NoExport, RestoresApart DEF BackupInv

\* An export lists what it is going to copy.
LEMMA StartExportPreserves ==
  ASSUME BackupInv, NEW r \in Roots, StartExport(r)
  PROVE  BackupInv'
<1>1. PICK bad \in SUBSET {o \in Originals : NeedsSeal(o)} :
        /\ orig' = Refreshed(bad)
        /\ export' = [at |-> "snapshot", root |-> r, todo |-> EntriesAfter(bad), files |-> EntriesAfter(bad)]
  BY DEF StartExport
<1>2. UNCHANGED <<policy, root, dest, call, hurt>>
  BY DEF StartExport
<1>3. EntriesAfter(bad) = Entries(orig)'
  BY <1>1, <1>2 DEF EntriesAfter, Entries
<1>4. Exporting'
  BY <1>1, <1>3 DEF Exporting
<1>5. ExportSide'
  BY <1>2, <1>4 DEF BackupInv, ExportSide, RootShape, CatalogMatchesFiles, ManifestIsTrue, Agrees, Manifest
<1> QED BY <1>2, <1>5, RestoresApart DEF BackupInv, RestoreSide, CallShape

\* The snapshot is of the rows the entries were listed from.
LEMMA SnapshotPreserves == BackupInv /\ TakeSnapshot => BackupInv'
<1> SUFFICES ASSUME BackupInv, TakeSnapshot PROVE BackupInv'
  OBVIOUS
<1> DEFINE at == export.root
<1>1. /\ RootShape /\ Exporting /\ CatalogMatchesFiles /\ ManifestIsTrue
      /\ export.at = "snapshot" /\ root[at].db = {}
      /\ root' = [root EXCEPT ![at].db = {saved}] /\ export' = [export EXCEPT !.at = "copy"]
      /\ UNCHANGED <<orig, saved, policy, dest, call, faults, hurt>>
  BY DEF TakeSnapshot, Vacant, BackupInv, ExportSide
<1>2. at \in Roots /\ DOMAIN export = {"at", "root", "todo", "files"}
  BY <1>1 DEF Exporting
<1>3. /\ root'[at].db = {saved} /\ root'[at].files = root[at].files /\ root'[at].manifest = root[at].manifest
      /\ DOMAIN root'[at] = {"files", "db", "manifest"}
      /\ DOMAIN root' = Roots /\ \A r \in Roots \ {at} : root'[r] = root[r]
  BY <1>1, <1>2 DEF RootShape
<1>4. export'.at = "copy" /\ export'.root = at /\ export'.todo = export.todo /\ export'.files = export.files
      /\ DOMAIN export' = DOMAIN export
  BY <1>1, <1>2
<1>5. at \notin hurt => root[at].manifest = {}
  BY <1>1, <1>2 DEF ManifestIsTrue, Agrees
<1>6. RootShape'
  BY <1>1, <1>3 DEF RootShape
<1>7. Exporting'
  <2>1. Entries(orig)' = Entries(orig)
    BY <1>1 DEF Entries
  <2>2. export.files = Entries(orig) /\ export.todo \subseteq export.files
    BY <1>1 DEF Exporting
  <2> QED BY <1>1, <1>2, <1>3, <1>4, <1>5, <2>1, <2>2 DEF Exporting
<1>8. CatalogMatchesFiles'
  BY <1>1, <1>3 DEF CatalogMatchesFiles
<1>9. ManifestIsTrue'
  BY <1>1, <1>3, <1>5 DEF ManifestIsTrue, Agrees, Manifest
<1> QED BY <1>1, <1>6, <1>7, <1>8, <1>9, RestoresApart DEF BackupInv, ExportSide, RestoreSide, CallShape


\* A copied file takes the place of none that the export has copied before.
LEMMA CopyPreserves == BackupInv /\ CopyEntry => BackupInv'
<1> SUFFICES ASSUME BackupInv, CopyEntry PROVE BackupInv'
  OBVIOUS
<1> DEFINE at == export.root
<1>1. /\ RootShape /\ Exporting /\ CatalogMatchesFiles /\ ManifestIsTrue /\ export.at = "copy"
      /\ UNCHANGED <<orig, saved, policy, dest, call, faults, hurt>>
  BY DEF CopyEntry, BackupInv, ExportSide
<1>2. PICK e \in export.todo :
        /\ root' = [root EXCEPT ![at].files = WithFile(@, Copied(e))]
        /\ export' = IF Copied(e) = e THEN [export EXCEPT !.todo = @ \ {e}] ELSE Idle
  BY DEF CopyEntry
<1>3. at \in Roots /\ DOMAIN export = {"at", "root", "todo", "files"}
      /\ export.files = Entries(orig) /\ export.todo \subseteq export.files
  BY <1>1 DEF Exporting
<1>4. /\ root'[at].db = root[at].db /\ root'[at].manifest = root[at].manifest
      /\ root'[at].files = WithFile(root[at].files, Copied(e))
      /\ DOMAIN root'[at] = {"files", "db", "manifest"}
      /\ DOMAIN root' = Roots /\ \A r \in Roots \ {at} : root'[r] = root[r]
  BY <1>1, <1>2, <1>3 DEF RootShape
<1>5. RootShape'
  BY <1>1, <1>4 DEF RootShape
<1>6. CatalogMatchesFiles'
  BY <1>1, <1>4 DEF CatalogMatchesFiles
<1>7. ManifestIsTrue'
  <2>1. at \notin hurt => root[at].manifest = {}
    BY <1>1 DEF Exporting
  <2> QED BY <1>1, <1>4, <2>1 DEF ManifestIsTrue, Agrees, Manifest
<1>8. Exporting'
  <2>1. CASE Copied(e) # e
    BY <1>2, <2>1 DEF Exporting, Idle
  <2>2. CASE Copied(e) = e
    <3>1. /\ export'.at = "copy" /\ export'.root = at /\ export'.files = export.files
          /\ export'.todo = export.todo \ {e} /\ DOMAIN export' = DOMAIN export
      BY <1>1, <1>2, <1>3, <2>2
    <3>2. Entries(orig)' = Entries(orig)
      BY <1>1 DEF Entries
    <3>3. ASSUME at \notin hurt
          PROVE  export.files \ (export.todo \ {e}) \subseteq root'[at].files
      <4>1. export.files \ export.todo \subseteq root[at].files
        BY <1>1, <3>3 DEF Exporting
      <4>2. root'[at].files = {f \in root[at].files : Path(f) # Path(e)} \cup {e}
        BY <1>4, <2>2 DEF WithFile
      <4>3. \A f \in export.files : Path(f) = Path(e) => f = e
        BY <1>3, PathsDiffer
      <4> QED BY <4>1, <4>2, <4>3
    <3> QED BY <1>1, <1>3, <1>4, <3>1, <3>2, <3>3 DEF Exporting
  <2> QED BY <2>1, <2>2
<1> QED BY <1>1, <1>5, <1>6, <1>7, <1>8, RestoresApart DEF BackupInv, ExportSide, RestoreSide, CallShape

\* The manifest says what the directory has, and the rows are those of its
\* files unless a failed save had set them apart before.
LEMMA ManifestPreserves == BackupInv /\ WriteManifest => BackupInv'
<1> SUFFICES ASSUME BackupInv, WriteManifest PROVE BackupInv'
  OBVIOUS
<1> DEFINE at == export.root
           m == [catalog |-> The(root[at].db), files |-> export.files, version |-> Version,
                 available |-> verify_backup_locked, unsaved |-> saved # Rows(orig)]
<1>1. /\ RootShape /\ Exporting /\ CatalogMatchesFiles /\ ManifestIsTrue
      /\ export.at = "copy" /\ export.todo = {} /\ root[at].db # {}
      /\ root' = [root EXCEPT ![at].manifest = {m}] /\ export' = Idle
      /\ UNCHANGED <<orig, saved, policy, dest, call, faults, hurt>>
  BY DEF WriteManifest, BackupInv, ExportSide
<1>2. at \in Roots /\ export.files = Entries(orig) /\ root[at].db = {saved}
  BY <1>1 DEF Exporting
<1>3. m.catalog = saved /\ m.files = Entries(orig) /\ (m.unsaved \/ saved = Rows(orig))
  BY <1>2 DEF The
<1> HIDE DEF m
<1>4. /\ root'[at].db = {saved} /\ root'[at].files = root[at].files /\ root'[at].manifest = {m}
      /\ DOMAIN root'[at] = {"files", "db", "manifest"}
      /\ DOMAIN root' = Roots /\ \A r \in Roots \ {at} : root'[r] = root[r]
  BY <1>1, <1>2 DEF RootShape
<1>5. RootShape'
  BY <1>1, <1>4 DEF RootShape
<1>6. Exporting'
  BY <1>1 DEF Exporting, Idle
<1>7. m.unsaved \/ \A o \in Originals : m.catalog[o].local =>
                      [of |-> o, seal |-> m.catalog[o].rows] \in m.files
  <2> SUFFICES ASSUME saved = Rows(orig), NEW o \in Originals, m.catalog[o].local
               PROVE  [of |-> o, seal |-> m.catalog[o].rows] \in m.files
    BY <1>3
  <2>1. m.catalog = Rows(orig) /\ m.files = Entries(orig)
    BY <1>3
  <2>2. Rows(orig)[o] = [rows |-> orig[o].rows, local |-> orig[o].local]
    BY DEF Rows
  <2>3. Rows(orig)[o].rows = orig[o].rows /\ Rows(orig)[o].local = orig[o].local
    BY <2>2
  <2>4. orig[o].local
    BY <2>1, <2>3, Zenon
  <2> QED BY <2>1, <2>3, <2>4 DEF Entries
<1>8. CatalogMatchesFiles'
  BY <1>1, <1>4, <1>7 DEF CatalogMatchesFiles
<1>9. at \notin hurt => root'[at].db = {m.catalog} /\ m.files \subseteq root'[at].files
  <2>1. at \notin hurt => export.files \subseteq root[at].files
    BY <1>1 DEF Exporting
  <2> QED BY <1>2, <1>3, <1>4, <2>1
<1>10. ManifestIsTrue'
  <2> SUFFICES ASSUME NEW r \in Roots \ hurt', root'[r].manifest # {} PROVE Agrees(r)'
    BY DEF ManifestIsTrue
  <2>1. CASE r = at
    <3>1. Manifest(r)' = m /\ root'[r].manifest # {}
      BY <1>4, <2>1 DEF Manifest, The
    <3> QED BY <1>1, <1>9, <2>1, <3>1 DEF Agrees
  <2>2. CASE r # at
    BY <1>1, <1>4, <2>2 DEF ManifestIsTrue, Agrees, Manifest
  <2> QED BY <2>1, <2>2
<1> QED BY <1>1, <1>5, <1>6, <1>8, <1>10, RestoresApart DEF BackupInv, ExportSide, RestoreSide, CallShape

\* A damaged directory is one that nothing is promised of.
LEMMA DamagePreserves ==
  ASSUME BackupInv, NEW r \in Roots, Damage(r)
  PROVE  BackupInv'
<1>1. /\ RootShape /\ Exporting /\ CatalogMatchesFiles /\ ManifestIsTrue
      /\ hurt' = hurt \cup {r} /\ UNCHANGED <<orig, saved, policy, export, dest, call>>
  BY DEF Damage, BackupInv, ExportSide
<1>2. /\ DOMAIN root' = Roots /\ \A s \in Roots \ {r} : root'[s] = root[s]
      /\ DOMAIN root'[r] = {"files", "db", "manifest"} /\ root'[r].manifest = root[r].manifest
      /\ root'[r].db \in {{}, root[r].db}
  BY <1>1 DEF Damage, RootShape
<1>3. RootShape'
  BY <1>1, <1>2 DEF RootShape
<1>4. Exporting'
  <2>1. Entries(orig)' = Entries(orig)
    BY <1>1 DEF Entries
  <2> QED BY <1>1, <1>2, <2>1 DEF Exporting
<1>5. CatalogMatchesFiles'
  BY <1>1, <1>2 DEF CatalogMatchesFiles
<1>6. ManifestIsTrue'
  BY <1>1, <1>2 DEF ManifestIsTrue, Agrees, Manifest
<1> QED BY <1>1, <1>3, <1>4, <1>5, <1>6, RestoresApart DEF BackupInv, ExportSide, RestoreSide, CallShape


\* The steps of a restore change no exported directory.
LEMMA ExportsApart ==
  ASSUME ExportSide, UNCHANGED <<orig, saved, policy, root, export, hurt>>
  PROVE  ExportSide'
<1>1. Entries(orig)' = Entries(orig)
  BY DEF Entries
<1> QED BY <1>1 DEF ExportSide, RootShape, Exporting, CatalogMatchesFiles, ManifestIsTrue, Agrees, Manifest

\* A restore that gives up leaves what it has written, and nobody goes on with it.
LEMMA GivesUp ==
  ASSUME RestoreSide, NEW x \in Restores, GiveUp(x), dest' = dest
  PROVE  RestoreSide'
<1>1. DOMAIN call' = Restores /\ call'[x].at = "failed"
      /\ \A y \in Restores \ {x} : call'[y] = call[y]
  BY DEF GiveUp, RestoreSide, CallShape
<1> QED BY <1>1, RestoresApart

\* A restore goes by a manifest that was true, and whose catalog it may set down.
LEMMA PlanPreserves ==
  ASSUME BackupInv, NEW x \in Restores, NEW r \in Roots, PlanRestore(x, r)
  PROVE  BackupInv'
<1> DEFINE m == Manifest(r)
           n == [at |-> IF m.version = 3 THEN "stage" ELSE "database", root |-> r, manifest |-> m,
                 todo |-> m.files]
<1>1. /\ RestoreSide /\ ExportSide /\ Safe(r)
      /\ call' = [call EXCEPT ![x] = n]
      /\ UNCHANGED <<orig, saved, policy, root, export, dest, faults, hurt>>
  BY DEF PlanRestore, BackupInv
<1>2. /\ DOMAIN n = {"at", "root", "manifest", "todo"} /\ n.manifest = m /\ n.todo = m.files
      /\ n.at = IF m.version = 3 THEN "stage" ELSE "database"
  OBVIOUS
<1>3. m.version = 3 \/ NeedsNoKey(m)
  BY <1>1 DEF Safe
<1> HIDE DEF n, m
<1>4. DOMAIN call' = Restores /\ call'[x] = n /\ \A y \in Restores \ {x} : call'[y] = call[y]
  BY <1>1 DEF RestoreSide, CallShape
<1>5. CallShape'
  BY <1>1, <1>2, <1>3, <1>4 DEF RestoreSide, CallShape, NeedsNoKey, Encrypted
<1>6. Restoring'
  BY <1>1, <1>2, <1>4 DEF RestoreSide, Restoring
<1>7. DestShape' /\ RestoredIsUsable'
  BY <1>1 DEF RestoreSide, DestShape, RestoredIsUsable, RestoredIsTheBackup, EncryptedComesWithKeys, Encrypted
<1> QED BY <1>1, <1>5, <1>6, <1>7, ExportsApart DEF BackupInv, RestoreSide

\* The destination is taken in one step, whole, and with its keys.
LEMMA PublishPreserves ==
  ASSUME BackupInv, NEW x \in Restores, StageAndPublish(x)
  PROVE  BackupInv'
<1>1. RestoreSide /\ ExportSide /\ ExportSide'
  BY ExportsApart DEF StageAndPublish, BackupInv
<1>2. CASE GiveUp(x) /\ UNCHANGED dest
  BY <1>1, <1>2, GivesUp DEF BackupInv
<1>3. CASE ~(GiveUp(x) /\ UNCHANGED dest)
  <2>1. /\ dest = Empty
        /\ dest' = [files |-> call[x].manifest.files, report |-> "activated", of |-> {call[x].manifest},
                    db |-> {call[x].manifest.catalog}]
        /\ call' = [call EXCEPT ![x] = [at |-> "done"]]
    BY <1>3 DEF StageAndPublish
  <2>2. /\ DestShape' /\ dest'.db = {call[x].manifest.catalog} /\ dest'.of = {call[x].manifest}
        /\ dest'.files = call[x].manifest.files /\ dest'.report = "activated"
    BY <2>1 DEF DestShape
  <2>3. DOMAIN call' = Restores /\ call'[x].at = "done" /\ \A y \in Restores \ {x} : call'[y] = call[y]
    BY <1>1, <2>1 DEF RestoreSide, CallShape
  <2>4. \A y \in Restores : call[y].at # "files"
    BY <1>1, <2>1 DEF RestoreSide, Restoring, Empty
  <2>5. CallShape'
    BY <1>1, <2>3 DEF RestoreSide, CallShape, NeedsNoKey, Encrypted
  <2>6. Restoring'
    BY <2>2, <2>3, <2>4 DEF Restoring
  <2>7. RestoredIsUsable'
    BY <2>2 DEF RestoredIsUsable, RestoredIsTheBackup, EncryptedComesWithKeys
  <2> QED BY <1>1, <2>2, <2>5, <2>6, <2>7 DEF BackupInv, RestoreSide
<1> QED BY <1>2, <1>3

\* Who writes the database first has the destination.
LEMMA DatabasePreserves ==
  ASSUME BackupInv, NEW x \in Restores, CopyDatabase(x)
  PROVE  BackupInv'
<1>1. RestoreSide /\ ExportSide /\ ExportSide' /\ call[x].at = "database"
  BY ExportsApart DEF CopyDatabase, BackupInv
<1>2. CASE GiveUp(x) /\ UNCHANGED dest
  BY <1>1, <1>2, GivesUp DEF BackupInv
<1>3. CASE ~(GiveUp(x) /\ UNCHANGED dest)
  <2>1. /\ dest.db = {} /\ dest' = [dest EXCEPT !.db = {call[x].manifest.catalog}]
        /\ call' = [call EXCEPT ![x].at = "files"]
    BY <1>3 DEF CopyDatabase
  <2>2. /\ DestShape' /\ dest'.db = {call[x].manifest.catalog} /\ dest'.of = {}
        /\ dest'.files = {} /\ dest'.report = "none"
    BY <1>1, <2>1 DEF RestoreSide, DestShape, Restoring
  <2>3. /\ DOMAIN call' = Restores /\ \A y \in Restores \ {x} : call'[y] = call[y]
        /\ DOMAIN call'[x] = {"at", "root", "manifest", "todo"} /\ call'[x].at = "files"
        /\ call'[x].manifest = call[x].manifest /\ call'[x].todo = call[x].manifest.files
    BY <1>1, <2>1 DEF RestoreSide, CallShape
  <2>4. \A y \in Restores : call[y].at # "files"
    BY <1>1, <2>1 DEF RestoreSide, Restoring
  <2>5. NeedsNoKey(call[x].manifest)
    BY <1>1 DEF RestoreSide, CallShape
  <2>6. CallShape'
    BY <1>1, <2>3, <2>5 DEF RestoreSide, CallShape, NeedsNoKey, Encrypted
  <2>7. Restoring'
    BY <2>2, <2>3, <2>4 DEF Restoring
  <2>8. RestoredIsUsable'
    BY <2>2, <2>5 DEF RestoredIsUsable, RestoredIsTheBackup, EncryptedComesWithKeys, NeedsNoKey, Encrypted
  <2> QED BY <1>1, <2>2, <2>6, <2>7, <2>8 DEF BackupInv, RestoreSide
<1> QED BY <1>2, <1>3

\* A file is taken from what is left to do to what is there.
LEMMA FilePreserves ==
  ASSUME BackupInv, NEW x \in Restores, CopyFile(x)
  PROVE  BackupInv'
<1>1. RestoreSide /\ ExportSide /\ ExportSide' /\ call[x].at = "files"
  BY ExportsApart DEF CopyFile, BackupInv
<1>2. CASE GiveUp(x) /\ UNCHANGED dest
  BY <1>1, <1>2, GivesUp DEF BackupInv
<1>3. CASE ~(GiveUp(x) /\ UNCHANGED dest)
  <2>1. PICK e \in call[x].todo :
          /\ dest' = [dest EXCEPT !.files = @ \cup {e}]
          /\ call' = [call EXCEPT ![x].todo = @ \ {e}]
    BY <1>3 DEF CopyFile
  <2>2. /\ DestShape' /\ dest'.db = dest.db /\ dest'.of = dest.of
        /\ dest'.files = dest.files \cup {e} /\ dest'.report = dest.report
    BY <1>1, <2>1 DEF RestoreSide, DestShape
  <2>3. /\ DOMAIN call' = Restores /\ \A y \in Restores \ {x} : call'[y] = call[y]
        /\ DOMAIN call'[x] = {"at", "root", "manifest", "todo"} /\ call'[x].at = "files"
        /\ call'[x].manifest = call[x].manifest /\ call'[x].todo = call[x].todo \ {e}
    BY <1>1, <2>1 DEF RestoreSide, CallShape
  <2>4. /\ dest.db = {call[x].manifest.catalog} /\ dest.of = {}
        /\ dest.files = call[x].manifest.files \ call[x].todo
        /\ call[x].todo \subseteq call[x].manifest.files
        /\ \A y \in Restores : call[y].at = "files" => y = x
    BY <1>1 DEF RestoreSide, Restoring
  <2>5. CallShape'
    BY <1>1, <2>3 DEF RestoreSide, CallShape, NeedsNoKey, Encrypted
  <2>6. dest'.files = call[x].manifest.files \ call'[x].todo
    BY <2>2, <2>3, <2>4
  <2>7. Restoring'
    BY <2>2, <2>3, <2>4, <2>6 DEF Restoring
  <2>8. RestoredIsUsable'
    BY <1>1, <2>2, <2>4 DEF RestoreSide, RestoredIsUsable, RestoredIsTheBackup, EncryptedComesWithKeys, Encrypted
  <2> QED BY <1>1, <2>2, <2>5, <2>7, <2>8 DEF BackupInv, RestoreSide
<1> QED BY <1>2, <1>3

\* What is reported has nothing left to do, and the destination to itself.
LEMMA ReportPreserves ==
  ASSUME BackupInv, NEW x \in Restores, Report(x)
  PROVE  BackupInv'
<1>1. RestoreSide /\ ExportSide /\ ExportSide' /\ call[x].at = "files" /\ call[x].todo = {}
      /\ dest' = [dest EXCEPT !.report = "staged", !.of = {call[x].manifest}]
      /\ call' = [call EXCEPT ![x] = [at |-> "done"]]
  BY ExportsApart DEF Report, BackupInv
<1>2. /\ DestShape' /\ dest'.db = dest.db /\ dest'.of = {call[x].manifest}
      /\ dest'.files = dest.files /\ dest'.report = "staged"
  BY <1>1 DEF RestoreSide, DestShape
<1>3. DOMAIN call' = Restores /\ call'[x].at = "done" /\ \A y \in Restores \ {x} : call'[y] = call[y]
  BY <1>1 DEF RestoreSide, CallShape
<1>4. /\ dest.db = {call[x].manifest.catalog} /\ dest.files = call[x].manifest.files
      /\ \A y \in Restores : call[y].at = "files" => y = x
  BY <1>1 DEF RestoreSide, Restoring
<1>5. CallShape'
  BY <1>1, <1>3 DEF RestoreSide, CallShape, NeedsNoKey, Encrypted
<1>6. Restoring'
  BY <1>2, <1>3, <1>4 DEF Restoring
<1>7. NeedsNoKey(call[x].manifest)
  BY <1>1 DEF RestoreSide, CallShape
<1>8. RestoredIsUsable'
  BY <1>2, <1>4, <1>7 DEF RestoredIsUsable, RestoredIsTheBackup, EncryptedComesWithKeys, NeedsNoKey, Encrypted
<1> QED BY <1>1, <1>2, <1>5, <1>6, <1>8 DEF BackupInv, RestoreSide

\* Every step of the daemon, of the restores and of the disk preserves it.
THEOREM BackupInvariance == BackupSpec => []BackupInv
<1>1. BackupInv /\ [BackupNext]_backupVars => BackupInv'
  <2> SUFFICES ASSUME BackupInv, [BackupNext]_backupVars PROVE BackupInv'
    OBVIOUS
  <2>1. ASSUME NEW x \in Restores, StopRestore(x) PROVE BackupInv'
    BY <2>1, ExportsApart, GivesUp DEF StopRestore, BackupInv
  <2>2. CASE UNCHANGED backupVars
    BY <2>2, ExportsApart, RestoresApart DEF backupVars, BackupInv, RestoreSide, CallShape
  <2> QED BY <2>1, <2>2, LibraryPreserves, StartExportPreserves, SnapshotPreserves, CopyPreserves,
             ManifestPreserves, DamagePreserves, PlanPreserves, PublishPreserves, DatabasePreserves,
             FilePreserves, ReportPreserves DEF BackupNext
<1> QED BY <1>1, BackupStarts, PTL DEF BackupSpec

\* An exported directory stays what its manifest says, and its catalog is of
\* the moment of its files, wherever an export stops and whatever follows.
THEOREM ExportsStayTrue == BackupSpec => []BackupsStayTrue
<1>1. BackupInv => BackupsStayTrue
  BY DEF BackupInv, ExportSide, BackupsStayTrue
<1> QED BY <1>1, BackupInvariance, PTL

\* Of any number of restores into one directory, what one reports done is all
\* of its own backup, and ciphertext is set down with its keys only.
THEOREM RestoresAreWhole == BackupSpec => []RestoredIsUsable
<1>1. BackupInv => RestoredIsUsable
  BY DEF BackupInv, RestoreSide
<1> QED BY <1>1, BackupInvariance, PTL

-----------------------------------------------------------------------------
(* Theorems about Indexing, for any photos and any rebuilds that overlap.   *)
(*                                                                          *)
(* The argument.  While the daemon runs photos are only added, so what a    *)
(* rebuild chose is still there when it replaces the rows of it; a restart  *)
(* may take photos back but ends the rebuilds too.  A rebuild finds no more *)
(* than it scanned, and the rows of all it scanned give way to its own.     *)

\* What an index has, in memory or in the database.
SoundIndex(i) ==
    /\ DOMAIN i = {"photos", "rows", "jobs", "logs"}
    /\ \A row, other \in i.rows :
          /\ row.photo \in i.photos
          /\ row.kind = other.kind /\ row.photo = other.photo => row = other

Running ==
    [at : {"reading"}, kind : ResultKinds, scanned : SUBSET Photos, todo : SUBSET Photos,
     found : SUBSET Photos, unread : SUBSET Photos, failed : BOOLEAN]

\* What a rebuild has chosen and found is of the library.
OfTheLibrary(run) ==
    run.at = "reading" => /\ run.scanned \subseteq index.photos
                          /\ run.found \cup run.todo \subseteq run.scanned

IndexInv ==
    /\ SoundIndex(index) /\ SoundIndex(indexRows)
    /\ rebuild \in [Rebuilds -> {NoRebuild} \cup Running]
    /\ \A r \in Rebuilds : OfTheLibrary(rebuild[r])

-----------------------------------------------------------------------------
\* Jobs and log lines change, photos and rows do not.
WithJobs(i, jobs, logs) == [i EXCEPT !.jobs = jobs, !.logs = logs]

\* Such a change keeps an index sound.
LEMMA JobsChange ==
  ASSUME NEW i, SoundIndex(i), NEW jobs, NEW logs
  PROVE  /\ SoundIndex(WithJobs(i, jobs, logs))
         /\ WithJobs(i, jobs, logs).photos = i.photos /\ WithJobs(i, jobs, logs).rows = i.rows
<1> DEFINE j == WithJobs(i, jobs, logs)
<1>1. j.photos = i.photos /\ j.rows = i.rows /\ DOMAIN j = {"photos", "rows", "jobs", "logs"}
  <2>1. DOMAIN i = {"photos", "rows", "jobs", "logs"}
    BY DEF SoundIndex
  <2> QED BY <2>1 DEF WithJobs
<1> HIDE DEF j
<1>2. SoundIndex(j)
  BY <1>1 DEF SoundIndex
<1> QED BY <1>1, <1>2 DEF j

\* A job is noted.
LEMMA JobIsNoted ==
  ASSUME NEW i, SoundIndex(i), NEW job, NEW logged \in BOOLEAN
  PROVE  /\ SoundIndex(WithJob(i, job, logged))
         /\ WithJob(i, job, logged).photos = i.photos /\ WithJob(i, job, logged).rows = i.rows
<1>1. WithJob(i, job, logged) =
        WithJobs(i, i.jobs \cup {job}, IF logged THEN i.logs \cup {job.id} ELSE i.logs)
  BY DEF WithJob, WithJobs
<1> QED BY <1>1, JobsChange

\* The index is saved, or memory is ahead of the database.
LEMMA SavedIsSound ==
  ASSUME IndexInv, NEW i, SoundIndex(i), SaveIndex(i)
  PROVE  SoundIndex(index)' /\ SoundIndex(indexRows)' /\ index'.photos = i.photos
<1>1. index' = i /\ (indexRows' = i \/ indexRows' = indexRows)
  BY DEF SaveIndex
<1> QED BY <1>1 DEF IndexInv, SoundIndex

\* Photos are added only, and rebuilds stay what they are.
LEMMA AddsOnly ==
  ASSUME IndexInv, NEW i, SoundIndex(i), SaveIndex(i), index.photos \subseteq i.photos, UNCHANGED rebuild
  PROVE  IndexInv'
<1>1. SoundIndex(index)' /\ SoundIndex(indexRows)' /\ index'.photos = i.photos
  BY SavedIsSound
<1> QED BY <1>1 DEF IndexInv, OfTheLibrary

\* A step that saves nothing.
LEMMA NothingSaved ==
  ASSUME IndexInv, UNCHANGED <<index, indexRows, rebuild>>
  PROVE  IndexInv'
  BY DEF IndexInv, SoundIndex, OfTheLibrary

\* A rebuild goes on.
LEMMA RebuildGoesOn ==
  ASSUME IndexInv, NEW r \in Rebuilds, NEW run \in {NoRebuild} \cup Running, OfTheLibrary(run),
         UNCHANGED <<index, indexRows>>, rebuild' = [rebuild EXCEPT ![r] = run]
  PROVE  IndexInv'
<1>1. \A q \in Rebuilds : rebuild'[q] = IF q = r THEN run ELSE rebuild[q]
  BY DEF IndexInv
<1>2. rebuild' \in [Rebuilds -> {NoRebuild} \cup Running]
  BY DEF IndexInv
<1> QED BY <1>1, <1>2 DEF IndexInv, SoundIndex, OfTheLibrary

\* A photo is imported.
LEMMA ImportKeeps ==
  ASSUME IndexInv, NEW a \in Photos, ImportPhoto(a)
  PROVE  IndexInv'
<1> DEFINE i == WithJob(index, completed_job("import"), FALSE)
           j == [i EXCEPT !.photos = @ \cup {a}]
<1>1. SoundIndex(i) /\ i.photos = index.photos
  BY JobIsNoted DEF IndexInv
<1> HIDE DEF i
<1>2. /\ j.photos = i.photos \cup {a} /\ j.rows = i.rows
      /\ DOMAIN j = {"photos", "rows", "jobs", "logs"}
  BY <1>1 DEF SoundIndex
<1> HIDE DEF j
<1>3. SoundIndex(j) /\ index.photos \subseteq j.photos
  BY <1>1, <1>2 DEF SoundIndex
<1>4. SaveIndex(j) /\ UNCHANGED rebuild
  BY DEF ImportPhoto, j, i
<1> QED BY <1>3, <1>4, AddsOnly

\* Jobs fail, are canceled and retried.
LEMMA JobsKeep ==
  ASSUME IndexInv,
         \/ \E kind \in ResultKinds \cup {"semantic", "people"} : record_failed_job(kind)
         \/ \E job \in index.jobs : cancel_job(job) \/ retry_job(job)
  PROVE  IndexInv'
<1>1. ASSUME NEW kind \in ResultKinds \cup {"semantic", "people"}, record_failed_job(kind) PROVE IndexInv'
  BY <1>1, JobIsNoted, AddsOnly DEF record_failed_job, IndexInv
<1>2. ASSUME NEW job \in index.jobs, retry_job(job) PROVE IndexInv'
  BY <1>2, JobIsNoted, AddsOnly DEF retry_job, IndexInv
<1>3. ASSUME NEW job \in index.jobs, cancel_job(job) PROVE IndexInv'
  <2> DEFINE jobs == (index.jobs \ {job}) \cup {[job EXCEPT !.status = "canceled"]}
             logs == index.logs \cup {job.id}
             i == WithJobs(index, jobs, logs)
  <2>2. SaveIndex(i) /\ UNCHANGED rebuild
    BY <1>3 DEF cancel_job, WithJobs
  <2> HIDE DEF jobs, logs
  <2>3. SoundIndex(i) /\ i.photos = index.photos
    BY JobsChange DEF IndexInv
  <2> HIDE DEF i
  <2> QED BY <2>2, <2>3, AddsOnly
<1> QED BY <1>1, <1>2, <1>3

\* A rebuild chooses its photos.
LEMMA StartKeeps ==
  ASSUME IndexInv, NEW r \in Rebuilds, NEW kind \in ResultKinds, NEW chosen \in SUBSET Photos,
         NEW force \in BOOLEAN, StartRebuild(r, kind, chosen, force)
  PROVE  IndexInv'
<1> DEFINE todo == {a \in index.photos \cap chosen : force \/ a \notin indexed(index, kind)}
           run == [at |-> "reading", kind |-> kind, scanned |-> todo, todo |-> todo, found |-> {},
                   unread |-> {}, failed |-> FALSE]
<1>1. todo \subseteq Photos /\ todo \subseteq index.photos
  OBVIOUS
<1>2. UNCHANGED <<index, indexRows>> /\ rebuild' = [rebuild EXCEPT ![r] = run]
  BY DEF StartRebuild
<1> HIDE DEF todo
<1>3. run \in Running /\ OfTheLibrary(run)
  BY <1>1 DEF Running, OfTheLibrary
<1> HIDE DEF run
<1> QED BY <1>2, <1>3, RebuildGoesOn

\* A rebuild reads a file.
LEMMA ReadKeeps ==
  ASSUME IndexInv, NEW r \in Rebuilds, NEW a \in Photos, ReadPhoto(r, a)
  PROVE  IndexInv'
<1> DEFINE run == rebuild[r]
<1>1. run.at = "reading" /\ run \in Running /\ OfTheLibrary(run) /\ a \in run.todo
  BY DEF ReadPhoto, IndexInv, NoRebuild
<1>2. UNCHANGED <<index, indexRows>>
  BY DEF ReadPhoto
<1>3. ASSUME NEW found \in {run.found, run.found \cup {a}}, NEW unread \in SUBSET Photos, NEW failed \in BOOLEAN,
             rebuild' = [rebuild EXCEPT ![r] = [run EXCEPT !.found = found, !.unread = unread, !.failed = failed,
                                                           !.todo = @ \ {a}]]
      PROVE  IndexInv'
  <2> DEFINE next == [run EXCEPT !.found = found, !.unread = unread, !.failed = failed, !.todo = @ \ {a}]
  <2>1. next \in Running /\ OfTheLibrary(next)
    BY <1>1, <1>3 DEF Running, OfTheLibrary
  <2>2. rebuild' = [rebuild EXCEPT ![r] = next]
    BY <1>3
  <2> HIDE DEF next
  <2> QED BY <1>2, <2>1, <2>2, RebuildGoesOn
<1> DEFINE next(f) == [rebuild EXCEPT ![r] = [f EXCEPT !.todo = @ \ {a}]]
<1>4. \/ rebuild' = next([run EXCEPT !.unread = @ \cup {a}])
      \/ rebuild' = next([run EXCEPT !.found = @ \cup {a}])
      \/ rebuild' = next(run)
      \/ rebuild' = next([run EXCEPT !.unread = @ \cup {a}, !.failed = TRUE])
  BY DEF ReadPhoto
<1>5. run.unread \in SUBSET Photos /\ run.failed \in BOOLEAN /\ run.unread \cup {a} \in SUBSET Photos
  BY <1>1 DEF Running
<1> HIDE DEF run
<1>6. CASE rebuild' = next([run EXCEPT !.unread = @ \cup {a}])
  <2>1. rebuild' = [rebuild EXCEPT ![r] = [run EXCEPT !.found = run.found, !.unread = run.unread \cup {a},
                                                      !.failed = run.failed, !.todo = @ \ {a}]]
    BY <1>1, <1>6 DEF Running
  <2> QED BY <1>3, <1>5, <2>1
<1>7. CASE rebuild' = next([run EXCEPT !.found = @ \cup {a}])
  <2>1. rebuild' = [rebuild EXCEPT ![r] = [run EXCEPT !.found = run.found \cup {a}, !.unread = run.unread,
                                                      !.failed = run.failed, !.todo = @ \ {a}]]
    BY <1>1, <1>7 DEF Running
  <2> QED BY <1>3, <1>5, <2>1
<1>8. CASE rebuild' = next(run)
  <2>1. rebuild' = [rebuild EXCEPT ![r] = [run EXCEPT !.found = run.found, !.unread = run.unread,
                                                      !.failed = run.failed, !.todo = @ \ {a}]]
    BY <1>1, <1>8 DEF Running
  <2> QED BY <1>3, <1>5, <2>1
<1>9. CASE rebuild' = next([run EXCEPT !.unread = @ \cup {a}, !.failed = TRUE])
  <2>1. rebuild' = [rebuild EXCEPT ![r] = [run EXCEPT !.found = run.found, !.unread = run.unread \cup {a},
                                                      !.failed = TRUE, !.todo = @ \ {a}]]
    BY <1>1, <1>9 DEF Running
  <2> QED BY <1>3, <1>5, <2>1
<1> QED BY <1>4, <1>6, <1>7, <1>8, <1>9

\* The rows of what was scanned give way to those of what was found.
LEMMA FinishKeeps ==
  ASSUME IndexInv, NEW r \in Rebuilds, FinishRebuild(r)
  PROVE  IndexInv'
<1> DEFINE run == rebuild[r]
<1>1. run.at = "reading" /\ run \in Running /\ OfTheLibrary(run)
  BY DEF FinishRebuild, IndexInv, NoRebuild
<1> DEFINE status == IF run.failed /\ run.found = {} THEN "failed" ELSE "completed"
           job == [completed_job(run.kind) EXCEPT !.status = status]
           i == WithJob(index, job, TRUE)
           rows == Replaced(i.rows, run.kind, run.scanned) \cup {RowOf(run.kind, a, job.id) : a \in run.found}
           j == [i EXCEPT !.rows = rows]
<1>2. SaveIndex(j) /\ rebuild' = [rebuild EXCEPT ![r] = NoRebuild]
  BY DEF FinishRebuild
<1>3. SoundIndex(i) /\ i.photos = index.photos
  BY JobIsNoted DEF IndexInv
<1> HIDE DEF job, i, run
<1>4. ASSUME NEW row \in rows, NEW other \in rows
      PROVE  /\ row.photo \in i.photos
             /\ row.kind = other.kind /\ row.photo = other.photo => row = other
  <2>1. ASSUME NEW a \in run.found
        PROVE  /\ RowOf(run.kind, a, job.id).kind = run.kind /\ RowOf(run.kind, a, job.id).photo = a
               /\ a \in run.scanned /\ a \in i.photos
    BY <1>1, <1>3 DEF RowOf, OfTheLibrary
  <2>2. ASSUME NEW x \in Replaced(i.rows, run.kind, run.scanned)
        PROVE  x \in i.rows /\ ~(x.kind = run.kind /\ x.photo \in run.scanned)
    BY DEF Replaced
  <2>3. CASE row \in Replaced(i.rows, run.kind, run.scanned) /\ other \in Replaced(i.rows, run.kind, run.scanned)
    BY <1>3, <2>2, <2>3 DEF SoundIndex
  <2>4. CASE row \in Replaced(i.rows, run.kind, run.scanned) /\ other \notin Replaced(i.rows, run.kind, run.scanned)
    BY <1>3, <2>1, <2>2, <2>4 DEF SoundIndex
  <2>5. CASE row \notin Replaced(i.rows, run.kind, run.scanned)
    BY <2>1, <2>2, <2>5
  <2> QED BY <2>3, <2>4, <2>5
<1> HIDE DEF rows
<1>5. j.photos = i.photos /\ j.rows = rows /\ DOMAIN j = {"photos", "rows", "jobs", "logs"}
  BY <1>3 DEF SoundIndex
<1> HIDE DEF j
<1>6. SoundIndex(j) /\ j.photos = index.photos
  BY <1>3, <1>4, <1>5 DEF SoundIndex
<1>7. SoundIndex(index)' /\ SoundIndex(indexRows)' /\ index'.photos = index.photos
  BY <1>2, <1>6, SavedIsSound
<1>8. \A q \in Rebuilds : rebuild'[q] = IF q = r THEN NoRebuild ELSE rebuild[q]
  BY <1>2 DEF IndexInv
<1>9. rebuild' \in [Rebuilds -> {NoRebuild} \cup Running]
  BY <1>2 DEF IndexInv
<1> QED BY <1>7, <1>8, <1>9 DEF IndexInv, OfTheLibrary, NoRebuild

\* A start has the photos and rows of the database, and no rebuild.
LEMMA RestartKeeps ==
  ASSUME IndexInv, RestartIndex
  PROVE  IndexInv'
<1> DEFINE compacted == compact_job_history(indexRows)
<1>1. SoundIndex(compacted) /\ SoundIndex(indexRows)
  BY JobsChange DEF compact_job_history, WithJobs, IndexInv
<1>2. /\ index' = compacted /\ (indexRows' = compacted \/ indexRows' = indexRows)
      /\ rebuild' = [r \in Rebuilds |-> NoRebuild]
  BY DEF RestartIndex
<1> HIDE DEF compacted
<1>3. SoundIndex(index)' /\ SoundIndex(indexRows)'
  BY <1>1, <1>2 DEF SoundIndex
<1>4. \A r \in Rebuilds : rebuild'[r] = NoRebuild
  BY <1>2
<1> QED BY <1>2, <1>3, <1>4 DEF IndexInv, OfTheLibrary, NoRebuild

\* A library without photos.
LEMMA IndexStarts == IndexInit => IndexInv
<1> SUFFICES ASSUME IndexInit PROVE IndexInv
  OBVIOUS
<1>1. SoundIndex(index) /\ SoundIndex(indexRows)
  BY DEF IndexInit, SoundIndex
<1> QED BY <1>1 DEF IndexInit, IndexInv, OfTheLibrary, NoRebuild

\* Every step keeps it.
LEMMA IndexKept == IndexInv /\ [IndexNext]_indexVars => IndexInv'
<1> SUFFICES ASSUME IndexInv, [IndexNext]_indexVars PROVE IndexInv'
  OBVIOUS
<1>1. ASSUME NEW a \in Photos, FileVanishes(a) \/ FileAppears(a) PROVE IndexInv'
  BY <1>1, NothingSaved DEF FileVanishes, FileAppears
<1>2. CASE Activated
  BY <1>2, NothingSaved DEF Activated
<1>3. CASE UNCHANGED indexVars
  BY <1>3, NothingSaved DEF indexVars
<1> QED BY <1>1, <1>2, <1>3, ImportKeeps, JobsKeep, StartKeeps, ReadKeeps, FinishKeeps, RestartKeeps
       DEF IndexNext

\* The invariant of the index holds in every state.
THEOREM IndexInvariance == IndexSpec => []IndexInv
<1> QED BY IndexStarts, IndexKept, PTL DEF IndexSpec

\* However many rebuilds overlap, a photo has the rows of one run of each kind,
\* and a row is of a photo the library has (rebuild_ocr, rebuild_scenes).
THEOREM ResultsAreOfOneRun == IndexSpec => []OneResultPerPhoto
<1>1. IndexInv => OneResultPerPhoto
  BY DEF IndexInv, SoundIndex, OneResultPerPhoto
<1> QED BY <1>1, IndexInvariance, PTL

-----------------------------------------------------------------------------
(* The history of jobs.                                                     *)
(*                                                                          *)
(* The argument.  Jobs are numbered as they come and none goes while the    *)
(* daemon runs, so memory carries every job of the database, with the same  *)
(* outcome once it has one (Carries).  A start takes what the database has  *)
(* and leaves out completed imports only; the newest that is left out has   *)
(* MaxKept completed imports after it, which all stay.                      *)

Job ==
    [id : 1 .. MaxJobs, kind : ResultKinds \cup {"import", "semantic", "people"},
     status : {"completed", "failed", "queued", "canceled"}, retry : BOOLEAN]

\* The jobs of an index, and its log lines.
Numbered(i) ==
    /\ DOMAIN i = {"photos", "rows", "jobs", "logs"}
    /\ i.jobs \subseteq Job /\ IsFiniteSet(i.jobs)
    /\ \A job, other \in i.jobs : job.id = other.id => job = other
    /\ LogsFit(i)

\* What n knows of the jobs of m.
Carries(n, m) ==
    \A job \in m.jobs : \E other \in n.jobs :
        other.id = job.id /\ (ended(job) => other = job)

HistoryInv == Numbered(index) /\ Numbered(indexRows) /\ Carries(index, indexRows)

\* What a step may do to the history.
KeepsHistory ==
    /\ LogsFit(index')
    /\ \A job \in index.jobs :
          (\A other \in index'.jobs : other.id # job.id) =>
             /\ rebuild' = [r \in Rebuilds |-> NoRebuild]
             /\ \/ job.id \notin {row.id : row \in indexRows.jobs}
                \/ /\ job.kind = "import" /\ job.status = "completed"
                   /\ Cardinality({other \in index'.jobs :
                         other.id > job.id /\ other.kind = "import"
                         /\ other.status = "completed"}) >= MaxKept

\* The next job has a number that no job has.
LEMMA NextIsNew ==
  ASSUME Numbered(index)
  PROVE  NextJob \in 1 .. MaxJobs + 1 /\ \A job \in index.jobs : job.id < NextJob
<1> DEFINE T == {n \in 1 .. MaxJobs + 1 : \A job \in index.jobs : job.id < n}
<1>1. MaxJobs \in Nat /\ \A job \in index.jobs : job.id \in 1 .. MaxJobs
  BY IndexAssumption DEF Numbered, Job
<1>2. MaxJobs + 1 \in T /\ T \subseteq Nat
  BY <1>1
<1>3. \E x \in T : \A y \in T : x <= y
  BY <1>2, LeastOf
<1>4. Min(T) \in T
  BY <1>3 DEF Min
<1> QED BY <1>4 DEF NextJob

\* The index that is saved has a job more, or a job that is over.
LEMMA SavedHistory ==
  ASSUME HistoryInv, NEW i, Numbered(i), Carries(i, index), SaveIndex(i)
  PROVE  HistoryInv' /\ KeepsHistory
<1>1. index' = i /\ (indexRows' = i \/ indexRows' = indexRows)
  BY DEF SaveIndex
<1>2. Carries(i, i)
  BY DEF Carries
<1>3. Carries(i, indexRows)
  <2> SUFFICES ASSUME NEW job \in indexRows.jobs
               PROVE  \E other \in i.jobs : other.id = job.id /\ (ended(job) => other = job)
    BY DEF Carries
  <2>1. PICK x \in index.jobs : x.id = job.id /\ (ended(job) => x = job)
    BY DEF HistoryInv, Carries
  <2>2. PICK y \in i.jobs : y.id = x.id /\ (ended(x) => y = x)
    BY <2>1 DEF Carries
  <2> QED BY <2>1, <2>2
<1>4. HistoryInv'
  BY <1>1, <1>2, <1>3 DEF HistoryInv, Numbered, Carries, LogsFit
<1>5. \A job \in index.jobs : \E other \in index'.jobs : other.id = job.id
  BY <1>1 DEF Carries
<1> QED BY <1>1, <1>4, <1>5 DEF KeepsHistory, Numbered

\* A step that saves nothing.
LEMMA NothingSavedOfJobs ==
  ASSUME HistoryInv, UNCHANGED <<index, indexRows>>
  PROVE  HistoryInv' /\ KeepsHistory
  BY DEF HistoryInv, Numbered, Carries, KeepsHistory, LogsFit

\* A new job, with or without a log line.
LEMMA NewJob ==
  ASSUME HistoryInv, NextJob <= MaxJobs, NEW job \in Job, job.id = NextJob, NEW logged \in BOOLEAN
  PROVE  Numbered(WithJob(index, job, logged)) /\ Carries(WithJob(index, job, logged), index)
<1> DEFINE i == WithJob(index, job, logged)
<1>1. /\ DOMAIN index = {"photos", "rows", "jobs", "logs"}
      /\ index.jobs \subseteq Job /\ IsFiniteSet(index.jobs) /\ LogsFit(index)
      /\ \A x, y \in index.jobs : x.id = y.id => x = y
  BY DEF HistoryInv, Numbered
<1>2. /\ DOMAIN i = {"photos", "rows", "jobs", "logs"} /\ i.jobs = index.jobs \cup {job}
      /\ i.logs \subseteq index.logs \cup {job.id}
  BY <1>1 DEF WithJob
<1> HIDE DEF i
<1>3. IsFiniteSet(i.jobs)
  BY <1>1, <1>2, FS_AddElement
<1>4. \A x \in index.jobs : x.id # job.id
  <2>1. \A x \in index.jobs : x.id < NextJob /\ x.id \in Nat /\ NextJob \in Nat
    BY <1>1, NextIsNew DEF HistoryInv, Job
  <2> QED BY <2>1
<1>5. \A x, y \in i.jobs : x.id = y.id => x = y
  BY <1>1, <1>2, <1>4
<1>6. LogsFit(i)
  BY <1>1, <1>2 DEF LogsFit
<1>7. Numbered(i)
  BY <1>1, <1>2, <1>3, <1>5, <1>6 DEF Numbered
<1>8. Carries(i, index)
  BY <1>2 DEF Carries
<1> QED BY <1>7, <1>8 DEF i

\* The job that a handler notes.
LEMMA NotedJobs ==
  ASSUME HistoryInv, NextJob <= MaxJobs, NEW kind \in ResultKinds \cup {"import", "semantic", "people"},
         NEW status \in {"completed", "failed", "queued", "canceled"}
  PROVE  /\ completed_job(kind) \in Job /\ completed_job(kind).id = NextJob
         /\ [completed_job(kind) EXCEPT !.status = status] \in Job
         /\ [completed_job(kind) EXCEPT !.status = status].id = NextJob
         /\ [completed_job(kind) EXCEPT !.status = status, !.retry = TRUE] \in Job
         /\ [completed_job(kind) EXCEPT !.status = status, !.retry = TRUE].id = NextJob
<1>1. NextJob \in 1 .. MaxJobs
  BY NextIsNew, IndexAssumption DEF HistoryInv
<1> QED BY <1>1 DEF completed_job, Job

\* Only what is beside the jobs is changed too.
LEMMA SameJobs ==
  ASSUME NEW i, NEW j, Numbered(i), Carries(i, index), DOMAIN j = DOMAIN i, j.jobs = i.jobs, j.logs = i.logs
  PROVE  Numbered(j) /\ Carries(j, index)
  BY DEF Numbered, Carries, LogsFit

\* An import.
LEMMA ImportIsNoted ==
  ASSUME HistoryInv, NEW a \in Photos, ImportPhoto(a)
  PROVE  HistoryInv' /\ KeepsHistory
<1> DEFINE i == WithJob(index, completed_job("import"), FALSE)
           j == [i EXCEPT !.photos = @ \cup {a}]
<1>1. SaveIndex(j)
  BY DEF ImportPhoto
<1>2. NextJob <= MaxJobs
  BY <1>1 DEF SaveIndex
<1>3. completed_job("import") \in Job /\ completed_job("import").id = NextJob
  BY <1>2, NotedJobs
<1>4. Numbered(i) /\ Carries(i, index)
  BY <1>2, <1>3, NewJob
<1> HIDE DEF i
<1>5. DOMAIN j = DOMAIN i /\ j.jobs = i.jobs /\ j.logs = i.logs
  BY <1>4 DEF Numbered
<1> HIDE DEF j
<1>6. Numbered(j) /\ Carries(j, index)
  BY <1>4, <1>5, SameJobs
<1> QED BY <1>1, <1>6, SavedHistory

\* A rebuild ends.
LEMMA FinishIsNoted ==
  ASSUME HistoryInv, IndexInv, NEW r \in Rebuilds, FinishRebuild(r)
  PROVE  HistoryInv' /\ KeepsHistory
<1> DEFINE run == rebuild[r]
           status == IF run.failed /\ run.found = {} THEN "failed" ELSE "completed"
           job == [completed_job(run.kind) EXCEPT !.status = status]
           i == WithJob(index, job, TRUE)
           rows == Replaced(i.rows, run.kind, run.scanned) \cup {RowOf(run.kind, a, job.id) : a \in run.found}
           j == [i EXCEPT !.rows = rows]
<1>1. SaveIndex(j)
  BY DEF FinishRebuild
<1>2. NextJob <= MaxJobs
  BY <1>1 DEF SaveIndex
<1>3. run.kind \in ResultKinds
  BY DEF FinishRebuild, IndexInv, Running, NoRebuild
<1>4. status \in {"completed", "failed", "queued", "canceled"}
  OBVIOUS
<1> HIDE DEF status, run
<1>5. job \in Job /\ job.id = NextJob
  BY <1>2, <1>3, <1>4, NotedJobs
<1> HIDE DEF job
<1>6. Numbered(i) /\ Carries(i, index)
  BY <1>2, <1>5, NewJob
<1> HIDE DEF i, rows
<1>7. DOMAIN j = DOMAIN i /\ j.jobs = i.jobs /\ j.logs = i.logs
  BY <1>6 DEF Numbered
<1> HIDE DEF j
<1>8. Numbered(j) /\ Carries(j, index)
  BY <1>6, <1>7, SameJobs
<1> QED BY <1>1, <1>8, SavedHistory

\* Jobs fail, are canceled and retried.
LEMMA JobsAreNoted ==
  ASSUME HistoryInv,
         \/ \E kind \in ResultKinds \cup {"semantic", "people"} : record_failed_job(kind)
         \/ \E job \in index.jobs : cancel_job(job) \/ retry_job(job)
  PROVE  HistoryInv' /\ KeepsHistory
<1>1. ASSUME NEW kind \in ResultKinds \cup {"semantic", "people"}, record_failed_job(kind)
      PROVE  HistoryInv' /\ KeepsHistory
  <2> DEFINE job == [completed_job(kind) EXCEPT !.status = "failed"]
             i == WithJob(index, job, TRUE)
  <2>1. SaveIndex(i) /\ NextJob <= MaxJobs
    BY <1>1 DEF record_failed_job, SaveIndex
  <2>2. job \in Job /\ job.id = NextJob
    BY <2>1, NotedJobs
  <2> HIDE DEF job
  <2>3. Numbered(i) /\ Carries(i, index)
    BY <2>1, <2>2, NewJob
  <2> HIDE DEF i
  <2> QED BY <2>1, <2>3, SavedHistory
<1>2. ASSUME NEW old_job \in index.jobs, retry_job(old_job) PROVE HistoryInv' /\ KeepsHistory
  <2> DEFINE job == [completed_job(old_job.kind) EXCEPT !.status = "queued", !.retry = TRUE]
             i == WithJob(index, job, TRUE)
  <2>1. SaveIndex(i) /\ NextJob <= MaxJobs
    BY <1>2 DEF retry_job, SaveIndex
  <2>2. old_job.kind \in ResultKinds \cup {"import", "semantic", "people"}
    BY <1>2 DEF HistoryInv, Numbered, Job
  <2>3. job \in Job /\ job.id = NextJob
    BY <2>1, <2>2, NotedJobs
  <2> HIDE DEF job
  <2>4. Numbered(i) /\ Carries(i, index)
    BY <2>1, <2>3, NewJob
  <2> HIDE DEF i
  <2> QED BY <2>1, <2>4, SavedHistory
<1>3. ASSUME NEW job \in index.jobs, cancel_job(job) PROVE HistoryInv' /\ KeepsHistory
  <2> DEFINE canceled == [job EXCEPT !.status = "canceled"]
             i == WithJobs(index, (index.jobs \ {job}) \cup {canceled}, index.logs \cup {job.id})
  <2>1. SaveIndex(i)
    BY <1>3 DEF cancel_job, WithJobs
  <2>2. /\ DOMAIN index = {"photos", "rows", "jobs", "logs"}
        /\ index.jobs \subseteq Job /\ IsFiniteSet(index.jobs) /\ LogsFit(index)
        /\ \A x, y \in index.jobs : x.id = y.id => x = y
    BY DEF HistoryInv, Numbered
  <2>3. canceled \in Job /\ canceled.id = job.id
    BY <2>2 DEF Job
  <2> HIDE DEF canceled
  <2>4. /\ DOMAIN i = {"photos", "rows", "jobs", "logs"} /\ i.jobs = (index.jobs \ {job}) \cup {canceled}
        /\ i.logs = index.logs \cup {job.id}
    BY <2>2 DEF WithJobs
  <2> HIDE DEF i
  <2>5. IsFiniteSet(i.jobs)
    <3>1. IsFiniteSet(index.jobs \ {job})
      BY <2>2, FS_RemoveElement
    <3> QED BY <2>4, <3>1, FS_AddElement
  <2>6. \A x, y \in i.jobs : x.id = y.id => x = y
    BY <2>2, <2>3, <2>4
  <2>7. LogsFit(i)
    BY <2>2, <2>3, <2>4 DEF LogsFit
  <2>8. Numbered(i)
    BY <2>2, <2>3, <2>4, <2>5, <2>6, <2>7 DEF Numbered
  <2>9. Carries(i, index)
    BY <1>3, <2>3, <2>4 DEF Carries, cancel_job
  <2> QED BY <2>1, <2>8, <2>9, SavedHistory
<1> QED BY <1>1, <1>2, <1>3

\* What a start leaves out is an old completed import: MaxKept newer ones stay.
LEMMA NewerAreKept ==
  ASSUME NEW jobs, jobs \subseteq Job, IsFiniteSet(jobs), NEW job \in jobs, job \notin Kept(jobs),
         \A x, y \in jobs : x.id = y.id => x = y
  PROVE  /\ job.kind = "import" /\ job.status = "completed"
         /\ Cardinality({other \in Kept(jobs) : other.id > job.id /\ other.kind = "import"
                                                 /\ other.status = "completed"}) >= MaxKept
<1> DEFINE C(x) == {other \in jobs : compactable(other) /\ other.id >= x.id}
           N == {other \in Kept(jobs) : other.id > job.id /\ other.kind = "import"
                                        /\ other.status = "completed"}
           left == {x \in jobs : x \notin Kept(jobs)}
           T == {MaxJobs - x.id : x \in left}
<1>1. MaxJobs \in Nat /\ MaxKept \in Nat /\ \A x \in jobs : x.id \in 1 .. MaxJobs
  BY IndexAssumption DEF Job
<1>2. \E x \in left : \A y \in left : y.id <= x.id
  <2>1. T \subseteq Nat /\ T # {}
    BY <1>1
  <2>2. PICK n \in T : \A m \in T : n <= m
    BY <2>1, LeastOf
  <2>3. PICK x \in left : n = MaxJobs - x.id
    OBVIOUS
  <2>4. \A y \in left : MaxJobs - x.id <= MaxJobs - y.id
    BY <2>2, <2>3
  <2>5. \A y \in left : y.id <= x.id
    BY <1>1, <2>4
  <2> QED BY <2>5
<1>3. PICK last \in left : \A y \in left : y.id <= last.id
  BY <1>2
<1>4. \A x \in left : compactable(x) /\ ~(Cardinality(C(x)) <= MaxKept)
  BY DEF Kept
<1>5. job \in left /\ last \in jobs /\ last \in C(last)
  BY <1>1, <1>3, <1>4
<1>6. IsFiniteSet(C(last)) /\ IsFiniteSet(Kept(jobs))
  <2>1. C(last) \in SUBSET jobs /\ Kept(jobs) \in SUBSET jobs
    BY DEF Kept
  <2> QED BY <2>1, FS_Subset
<1>7. C(last) \ {last} \subseteq N
  <2> SUFFICES ASSUME NEW x \in C(last), x # last PROVE x \in N
    OBVIOUS
  <2>1. x \in jobs /\ compactable(x) /\ x.id >= last.id /\ last.id >= job.id
    BY <1>3, <1>5
  <2>2. x.id # last.id
    BY <1>5, <2>1
  <2>3. x.id > last.id /\ x.id > job.id
    BY <1>1, <1>5, <2>1, <2>2
  <2>4. x \notin left
    BY <1>1, <1>3, <1>5, <2>1, <2>3
  <2> QED BY <2>1, <2>3, <2>4 DEF compactable
<1>8. IsFiniteSet(N)
  <2>1. N \in SUBSET Kept(jobs)
    OBVIOUS
  <2> QED BY <1>6, <2>1, FS_Subset
<1> HIDE DEF C, N, left
<1>9. Cardinality(C(last) \ {last}) = Cardinality(C(last)) - 1
  BY <1>5, <1>6, FS_RemoveElement
<1>10. Cardinality(C(last)) \in Nat /\ Cardinality(N) \in Nat
  BY <1>6, <1>8, FS_CardinalityType
<1>11. Cardinality(C(last) \ {last}) <= Cardinality(N)
  BY <1>7, <1>8, FS_Subset
<1>12. Cardinality(N) >= MaxKept
  BY <1>1, <1>3, <1>4, <1>9, <1>10, <1>11
<1>13. job.kind = "import" /\ job.status = "completed"
  BY <1>4, <1>5 DEF compactable
<1> QED BY <1>12, <1>13 DEF N

\* A start loses what was not saved, and old imports.
LEMMA RestartLosesOldImports ==
  ASSUME HistoryInv, RestartIndex
  PROVE  HistoryInv' /\ KeepsHistory
<1> DEFINE jobs == indexRows.jobs
           kept == Kept(jobs)
<1>1. /\ DOMAIN indexRows = {"photos", "rows", "jobs", "logs"} /\ jobs \subseteq Job
      /\ IsFiniteSet(jobs) /\ \A x, y \in jobs : x.id = y.id => x = y
  BY DEF HistoryInv, Numbered
<1>2. kept \subseteq jobs /\ IsFiniteSet(kept)
  <2>1. kept \in SUBSET jobs
    BY DEF Kept
  <2> QED BY <1>1, <2>1, FS_Subset
<1> HIDE DEF kept
<1> DEFINE i == compact_job_history(indexRows)
<1>3. /\ DOMAIN i = {"photos", "rows", "jobs", "logs"} /\ i.jobs = kept
      /\ i.logs = indexRows.logs \cap {job.id : job \in kept}
  BY <1>1 DEF compact_job_history, kept
<1> HIDE DEF i
<1>4. Numbered(i)
  BY <1>1, <1>2, <1>3 DEF Numbered, LogsFit
<1>5. index' = i /\ indexRows' = i /\ rebuild' = [r \in Rebuilds |-> NoRebuild]
  BY <1>4 DEF RestartIndex, Numbered, i
<1>6. HistoryInv'
  BY <1>4, <1>5 DEF HistoryInv, Numbered, Carries, LogsFit
<1>7. ASSUME NEW job \in index.jobs, \A other \in index'.jobs : other.id # job.id,
             job.id \in {row.id : row \in indexRows.jobs}
      PROVE  /\ job.kind = "import" /\ job.status = "completed"
             /\ Cardinality({other \in index'.jobs : other.id > job.id /\ other.kind = "import"
                                                      /\ other.status = "completed"}) >= MaxKept
  <2>1. PICK x \in jobs : x.id = job.id
    BY <1>7
  <2>2. x \notin kept
    BY <1>3, <1>5, <1>7, <2>1
  <2>3. /\ x.kind = "import" /\ x.status = "completed"
        /\ Cardinality({other \in kept : other.id > x.id /\ other.kind = "import"
                                          /\ other.status = "completed"}) >= MaxKept
    BY <1>1, <2>2, NewerAreKept DEF kept
  <2>4. PICK y \in index.jobs : y.id = x.id /\ y = x
    BY <2>3 DEF HistoryInv, Carries, ended
  <2>5. job = x
    BY <2>1, <2>4 DEF HistoryInv, Numbered
  <2>6. index'.jobs = kept
    BY <1>3, <1>5
  <2> QED BY <2>3, <2>5, <2>6
<1> QED BY <1>4, <1>5, <1>6, <1>7 DEF KeepsHistory, Numbered

\* No job is there at first.
LEMMA HistoryStarts == IndexInit => HistoryInv
  BY FS_EmptySet DEF IndexInit, HistoryInv, Numbered, Carries, LogsFit

\* Every step keeps the history.
LEMMA HistoryKept == IndexInv /\ HistoryInv /\ [IndexNext]_indexVars => HistoryInv' /\ KeepsHistory
<1> SUFFICES ASSUME IndexInv, HistoryInv, [IndexNext]_indexVars PROVE HistoryInv' /\ KeepsHistory
  OBVIOUS
<1>1. ASSUME NEW a \in Photos, FileVanishes(a) \/ FileAppears(a) PROVE HistoryInv' /\ KeepsHistory
  BY <1>1, NothingSavedOfJobs DEF FileVanishes, FileAppears
<1>2. CASE Activated
  BY <1>2, NothingSavedOfJobs DEF Activated
<1>3. CASE UNCHANGED indexVars
  BY <1>3, NothingSavedOfJobs DEF indexVars
<1>4. ASSUME NEW r \in Rebuilds, NEW kind \in ResultKinds, NEW chosen \in SUBSET Photos,
             NEW force \in BOOLEAN, StartRebuild(r, kind, chosen, force)
      PROVE  HistoryInv' /\ KeepsHistory
  BY <1>4, NothingSavedOfJobs DEF StartRebuild
<1>5. ASSUME NEW r \in Rebuilds, NEW a \in Photos, ReadPhoto(r, a) PROVE HistoryInv' /\ KeepsHistory
  <2>1. UNCHANGED <<index, indexRows>>
    BY <1>5 DEF ReadPhoto
  <2> QED BY <2>1, NothingSavedOfJobs
<1> QED BY <1>1, <1>2, <1>3, <1>4, <1>5, ImportIsNoted, JobsAreNoted, FinishIsNoted, RestartLosesOldImports
       DEF IndexNext

\* The history loses nothing but the oldest completed imports at a start, or
\* what was never saved, and its log can be saved again (compact_job_history).
THEOREM HistoryStaysWhole == IndexSpec => HistoryIsWhole
<1>1. IndexInv /\ HistoryInv /\ [IndexNext]_indexVars => [KeepsHistory]_index
  BY HistoryKept
<1> QED BY <1>1, HistoryStarts, HistoryKept, IndexInvariance, PTL DEF IndexSpec, HistoryIsWhole, KeepsHistory

\* What a photo shows comes of one run of each kind, and the record of the runs
\* has no gaps (save_index, compact_job_history).
THEOREM IndexStaysConsistent == IndexSpec => IndexIsConsistent
<1> QED BY ResultsAreOfOneRun, HistoryStaysWhole DEF IndexIsConsistent
==============================================================================
