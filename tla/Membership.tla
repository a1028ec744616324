----------------------------- MODULE Membership -----------------------------
(***************************************************************************)
(* Who may do what: devices, vaults, memberships, vault key references,     *)
(* pairing tokens and mobile sessions, in memory and in the database, and   *)
(* what a restored backup makes of them.  Source: GalleryService            *)
(* (create_pairing_session ... revoke_mobile_device_sessions, create_vault, *)
(* create_device, enroll_device, revoke_device, the ensure_* defaults),     *)
(* restore_portable_backup and SyncRuntime::refresh_local_endpoint_payload.          *)
(*                                                                          *)
(* Every handler changes memory under the write lock and then saves all of  *)
(* it; the save may fail (it always does when a row breaks a constraint),   *)
(* and what it left in memory goes with the next save that succeeds.        *)
(***************************************************************************)
EXTENDS Integers, Sequences, FiniteSets

CONSTANTS
    MaxDevices,     \* bound: devices ever enrolled
    MaxVaults,      \* bound: vaults ever created
    MaxInvites,     \* bound: pairing tokens
    MaxTokens,      \* bound: bearer tokens
    MaxMade,        \* bound: all of these together, a vault for two
    MaxLost         \* bound: handlers whose save failed

ASSUME MembershipAssumption ==
    /\ MaxDevices \in Nat \ {0} /\ MaxVaults \in Nat \ {0}
    /\ MaxInvites \in Nat /\ MaxTokens \in Nat /\ MaxMade \in Nat /\ MaxLost \in Nat

VARIABLES
    mem,            \* LibraryState
    disk,           \* the database
    archive,        \* the catalog of a backup, if one was made
    paired,         \* pairings that were answered: <<token, device>>
    dead,           \* bearer tokens whose end was answered
    used,           \* identities generated so far
    lost            \* saves that failed so far

memberVars == <<mem, disk, archive, paired, dead, used, lost>>

-----------------------------------------------------------------------------
(* A library: the vaults in their order, the devices in theirs (by          *)
(* enrolment), and sets of rows.  `me` is the device that runs the daemon.  *)

NewLibrary ==
    [me |-> 1,
     vaults |-> <<1>>, bootstrap |-> TRUE,
     devices |-> <<[id |-> 1, pending |-> TRUE, gone |-> FALSE]>>,
     members |-> {[vault |-> 1, device |-> 1, gone |-> FALSE]},
     envelopes |-> {[vault |-> 1, device |-> 1, gone |-> FALSE]},
     invites |-> {}, sessions |-> {}, filed |-> FALSE]

Vaults(lib) == {lib.vaults[i] : i \in DOMAIN lib.vaults}
Devices(lib) == {lib.devices[i].id : i \in DOMAIN lib.devices}
Gone(lib, d) == \E i \in DOMAIN lib.devices : lib.devices[i].id = d /\ lib.devices[i].gone
Member(lib, v, d) == \E m \in lib.members : m.vault = v /\ m.device = d /\ ~m.gone

\* The first device of the list that waits for its first key, or else that is live.
local_device_id(lib) ==
    LET at(P) == IF P = {} THEN 0 ELSE lib.devices[CHOOSE i \in P : \A j \in P : i <= j].id
        live == {i \in DOMAIN lib.devices : ~lib.devices[i].gone}
        pending == {i \in live : lib.devices[i].pending}
    IN  IF pending # {} THEN at(pending) ELSE at(live)

ensure_local_vault_member(lib, v) ==
    IF local_device_id(lib) = 0 \/ Member(lib, v, local_device_id(lib)) THEN lib
    ELSE [lib EXCEPT !.members = @ \cup
            {[vault |-> v, device |-> local_device_id(lib), gone |-> FALSE]}]

ensure_distributed_defaults(lib) == ensure_local_vault_member(lib, lib.vaults[1])

\* Fault: whoever was a member gets a key reference again.
EnvelopesForAll(lib) ==
    [lib EXCEPT !.envelopes = @ \cup
        {[vault |-> m.vault, device |-> m.device, gone |-> FALSE] :
            m \in {x \in lib.members : \A e \in lib.envelopes :
                        ~(e.vault = x.vault /\ e.device = x.device /\ ~e.gone)}}]

\* ensure_vault_key_envelopes, in every refresh of the blob records.
Enveloped(lib) ==
    [lib EXCEPT !.envelopes = @ \cup
        {[vault |-> m.vault, device |-> m.device, gone |-> FALSE] :
            m \in {x \in lib.members : ~x.gone /\ \A e \in lib.envelopes :
                        ~(e.vault = x.vault /\ e.device = x.device /\ ~e.gone)}}]

AddDevice(lib, d, v) ==
    [lib EXCEPT !.devices = Append(@, [id |-> d, pending |-> FALSE, gone |-> FALSE]),
                !.members = @ \cup {[vault |-> v, device |-> d, gone |-> FALSE]}]

\* active_mobile_session_from_state
Usable(lib, t) ==
    \E s \in lib.sessions :
        /\ s.token = t /\ ~s.gone
        /\ s.device \in Devices(lib) /\ ~Gone(lib, s.device)
        /\ s.vault \in Vaults(lib)
        /\ Member(lib, s.vault, s.device)

SessionOf(lib, t) == CHOOSE s \in lib.sessions : s.token = t
EndSessions(lib, ended) ==
    [lib EXCEPT !.sessions = (@ \ ended) \cup {[s EXCEPT !.gone = TRUE] : s \in ended}]

\* The foreign keys and unique indices of schema.sql over these tables.
Savable(lib) ==
    /\ \A x \in lib.members \cup lib.envelopes \cup lib.sessions :
            x.vault \in Vaults(lib) /\ x.device \in Devices(lib)
    /\ \A p \in lib.invites : p.vault \in Vaults(lib) \cup {0}
    /\ \A x, y \in lib.members :
            x.vault = y.vault /\ x.device = y.device => x = y
    /\ \A x, y \in lib.envelopes :
            x.vault = y.vault /\ x.device = y.device => x = y

\* persist_locked_state, which succeeds or not, and the reply.
Saved(lib) == Savable(lib) /\ mem' = lib /\ disk' = lib /\ UNCHANGED lost
Unsaved(lib) == lost < MaxLost /\ lost' = lost + 1 /\ mem' = lib /\ UNCHANGED disk

Fresh(what, bound) == used[what] < bound /\ used' = [used EXCEPT ![what] = @ + 1]

MembershipInit ==
    /\ mem = NewLibrary /\ disk = NewLibrary
    /\ archive = <<>> /\ paired = {} /\ dead = {}
    /\ used = [devices |-> 1, vaults |-> 1, invites |-> 0, tokens |-> 0]
    /\ lost = 0

-----------------------------------------------------------------------------
(* Handlers. *)

\* Any handler that only fills in defaults, refreshes and saves; also the
\* start of the daemon after load_state.
Touch ==
    /\ \E lib \in {mem, ensure_distributed_defaults(mem)} :
        Saved(lib) \/ Saved(Enveloped(lib)) \/ Unsaved(Enveloped(lib))
    /\ UNCHANGED <<archive, paired, dead, used>>

create_pairing_session(v) ==
    /\ v \in Vaults(mem) \cup {0}
    /\ Fresh("invites", MaxInvites)
    /\ LET lib == [ensure_distributed_defaults(mem) EXCEPT !.invites = @ \cup
                        {[token |-> used.invites + 1, vault |-> v, used |-> FALSE]}]
       IN  Saved(lib) \/ Unsaved(lib)
    /\ UNCHANGED <<archive, paired, dead>>

PairedLibrary(lib, p, v) ==
    LET added == AddDevice(lib, used.devices + 1, v)
    IN  [added EXCEPT
            !.invites = (@ \ {p}) \cup {[p EXCEPT !.used = TRUE]},
            !.sessions = @ \cup {[token |-> used.tokens + 1, device |-> used.devices + 1,
                                  vault |-> v, gone |-> FALSE]}]

\* Fault: a token that was used is accepted again.
PairAgain(p, v) ==
    /\ v \in Vaults(mem) /\ p.vault \in {0, v}
    /\ used.devices < MaxDevices /\ used.tokens < MaxTokens
    /\ used' = [used EXCEPT !.devices = @ + 1, !.tokens = @ + 1]
    /\ LET lib == PairedLibrary(ensure_distributed_defaults(mem), p, v)
       IN  \/ Saved(lib) /\ paired' = paired \cup {<<p.token, used.devices + 1>>}
           \/ Unsaved(lib) /\ UNCHANGED paired
    /\ UNCHANGED <<archive, dead>>

\* pair_mobile_device: the vault of the token, or the one asked for.
Pair(p, v) ==
    /\ ~p.used
    /\ v \in Vaults(mem) /\ p.vault \in {0, v}
    /\ used.devices < MaxDevices /\ used.tokens < MaxTokens
    /\ used' = [used EXCEPT !.devices = @ + 1, !.tokens = @ + 1]
    /\ LET lib == PairedLibrary(ensure_distributed_defaults(mem), p, v)
       IN  \/ Saved(lib) /\ paired' = paired \cup {<<p.token, used.devices + 1>>}
           \/ Unsaved(lib) /\ UNCHANGED paired
    /\ UNCHANGED <<archive, dead>>

refresh_mobile_session(t) ==
    /\ Usable(mem, t)
    /\ Fresh("tokens", MaxTokens)
    /\ LET lib == [EndSessions(mem, {SessionOf(mem, t)}) EXCEPT !.sessions = @ \cup
                     {[SessionOf(mem, t) EXCEPT !.token = used.tokens + 1]}]
       IN  \/ Saved(lib) /\ dead' = dead \cup {t}
           \/ Unsaved(lib) /\ UNCHANGED dead
    /\ UNCHANGED <<archive, paired>>

\* revoke_current_mobile_session and revoke_mobile_device_sessions.
revoke_mobile_sessions(t, d) ==
    /\ Usable(mem, t) /\ SessionOf(mem, t).device = d
    /\ \E all \in BOOLEAN :
        LET here == {s \in mem.sessions : s.vault = SessionOf(mem, t).vault /\ s.device = d /\ ~s.gone}
            ended == IF all THEN here ELSE {SessionOf(mem, t)}
            lib == EndSessions(mem, ended)
        IN  \/ Saved(lib) /\ dead' = dead \cup {s.token : s \in ended}
            \/ Unsaved(lib) /\ UNCHANGED dead
    /\ UNCHANGED <<archive, paired, used>>

\* replaceable_bootstrap_vault_index
Replaceable(lib) ==
    /\ lib.bootstrap /\ Len(lib.vaults) = 1
    /\ ~lib.filed
    /\ \A x \in lib.sessions \cup lib.invites : x.vault # lib.vaults[1]

\* create_vault with a new identity: the vault every library starts with is
\* renamed with all that names it, unless something is in it already.
create_vault ==
    /\ Fresh("vaults", MaxVaults)
    /\ LET v == used.vaults + 1
           moved(rows) == {[x EXCEPT !.vault = v] : x \in rows}
           renamed == [mem EXCEPT !.vaults = <<v>>, !.bootstrap = FALSE,
                                  !.members = moved(@), !.envelopes = moved(@)]
           added == [mem EXCEPT !.vaults = Append(@, v), !.members = @ \cup
                       {[vault |-> v, device |-> local_device_id(mem), gone |-> FALSE]}]
           lib == Enveloped(IF Replaceable(mem) THEN ensure_local_vault_member(renamed, v)
                                                ELSE added)
       IN  local_device_id(mem) # 0 /\ (Saved(lib) \/ Unsaved(lib))
    /\ UNCHANGED <<archive, paired, dead>>

\* create_device and enroll_device.
enroll_device(v) ==
    /\ v \in Vaults(mem)
    /\ Fresh("devices", MaxDevices)
    /\ LET lib == AddDevice(ensure_distributed_defaults(mem), used.devices + 1, v)
       IN  Saved(lib) \/ Unsaved(lib)
    /\ UNCHANGED <<archive, paired, dead>>

Revoked(lib, d) ==
    LET end(rows) == {IF x.device = d THEN [x EXCEPT !.gone = TRUE] ELSE x : x \in rows}
    IN  [lib EXCEPT !.devices = [i \in DOMAIN @ |-> IF @[i].id = d THEN [@[i] EXCEPT !.gone = TRUE]
                                                                  ELSE @[i]],
                    !.members = end(@), !.envelopes = end(@), !.sessions = end(@)]

\* revoke_device takes any device, this one too.
revoke_device(d) ==
    /\ d \in Devices(mem)
    /\ \/ Saved(Revoked(mem, d))
          /\ dead' = dead \cup {s.token : s \in {x \in mem.sessions : x.device = d}}
       \/ Unsaved(Revoked(mem, d)) /\ UNCHANGED dead
    /\ UNCHANGED <<archive, paired, used>>

\* refresh_local_endpoint_payload: the pending key of whichever device is local here.
refresh_local_endpoint_payload ==
    /\ local_device_id(mem) # 0
    /\ \E i \in DOMAIN mem.devices :
        /\ mem.devices[i].id = local_device_id(mem) /\ mem.devices[i].pending
        /\ LET lib == [mem EXCEPT !.devices[i].pending = FALSE] IN Saved(lib) \/ Unsaved(lib)
    /\ UNCHANGED <<archive, paired, dead, used>>

\* An import files the first blob in the vault every library starts with.
FileBlob ==
    /\ mem.bootstrap /\ Len(mem.vaults) = 1 /\ ~mem.filed
    /\ LET lib == [Enveloped(mem) EXCEPT !.filed = TRUE] IN Saved(lib) \/ Unsaved(lib)
    /\ UNCHANGED <<archive, paired, dead, used>>

RestartDaemon ==
    /\ mem' = Enveloped(ensure_distributed_defaults(disk))
    /\ disk' = IF Savable(mem') THEN mem' ELSE disk
    /\ UNCHANGED <<archive, paired, dead, used, lost>>

-----------------------------------------------------------------------------
(* Backup and restore. *)

\* bound: one backup, made while a phone is paired.
TakeBackup ==
    /\ archive = <<>> /\ disk.sessions # {}
    /\ archive' = <<disk>>
    /\ UNCHANGED <<mem, disk, paired, dead, used, lost>>

\* Fault: the devices of the library that was backed up stay enrolled.
ReboundBesides(lib, d) ==
    [lib EXCEPT
        !.me = d,
        !.devices = Append(@, [id |-> d, pending |-> TRUE, gone |-> FALSE]),
        !.members = @ \cup {[vault |-> v, device |-> d, gone |-> FALSE] : v \in Vaults(lib)},
        !.sessions = {}, !.invites = {}]

\* restore_portable_backup: nobody who was enrolled is, and this machine is a
\* new device in every vault.
Rebound(lib, d) ==
    LET end(rows) == {[x EXCEPT !.gone = TRUE] : x \in rows}
    IN  [lib EXCEPT
            !.me = d,
            !.devices = Append([i \in DOMAIN @ |-> [@[i] EXCEPT !.gone = TRUE]],
                               [id |-> d, pending |-> TRUE, gone |-> FALSE]),
            !.members = end(@) \cup {[vault |-> v, device |-> d, gone |-> FALSE] :
                                        v \in Vaults(lib)},
            !.envelopes = end(@), !.sessions = {}, !.invites = {}]

\* The restored library is the one that is served from then on.
RestoreLibrary ==
    /\ archive # <<>> /\ used.devices < MaxDevices
    /\ used' = [used EXCEPT !.devices = @ + 1]
    /\ mem' = Rebound(archive[1], used.devices + 1) /\ disk' = mem'
    /\ paired' = {}
    /\ UNCHANGED <<archive, dead, lost>>

MembershipNext ==
    /\ \/ Touch \/ create_vault \/ refresh_local_endpoint_payload \/ RestartDaemon
       \/ FileBlob \/ TakeBackup \/ RestoreLibrary
       \/ \E v \in 0 .. MaxVaults :
           \/ create_pairing_session(v) \/ enroll_device(v)
           \/ \E p \in mem.invites : Pair(p, v)
       \/ \E t \in 1 .. MaxTokens :
           \/ refresh_mobile_session(t)
           \/ \E d \in 1 .. MaxDevices : revoke_mobile_sessions(t, d)
       \/ \E d \in 1 .. MaxDevices : revoke_device(d)
    /\ used'.devices + 2 * used'.vaults + used'.invites + used'.tokens <= MaxMade

MembershipSpec == MembershipInit /\ [][MembershipNext]_memberVars

-----------------------------------------------------------------------------
(* Properties. *)

\* A revoked device has nothing left, in memory or in the database: the
\* handlers that fill in memberships and key references never hand them back.
RevokedHasNothing ==
    \A lib \in {mem, disk} : \A x \in lib.members \cup lib.envelopes \cup lib.sessions :
        Gone(lib, x.device) => x.gone

\* A bearer token whose end was answered (a refresh, a revocation of the
\* session or of the device) opens nothing any more: not after a restart, and
\* not in a library restored from a backup made before.
DeadTokensStayDead == \A t \in dead : ~Usable(mem, t) /\ ~Usable(disk, t)

\* One pairing token pairs one device, whatever saves fail in between.
TokenPairsOnce == \A x, y \in paired : x[1] = y[1] => x = y

\* The defaults make nobody but this machine an administrator; else a phone
\* would become one by standing first in the list.  (Not when this machine
\* revoked itself: then the first device left is taken for it.)
OnlyThisMachineByDefault ==
    \A lib \in {mem, disk} : ~Gone(lib, lib.me) => local_device_id(lib) = lib.me

\* A token works once for pairing, and not at all after its end was answered.
TokensEnd == TokenPairsOnce /\ DeadTokensStayDead
=============================================================================
