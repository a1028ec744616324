---------------------------- MODULE SyncReceive ----------------------------
(***************************************************************************)
(* The receiving side of a chunk exchange: what arrives is checked against  *)
(* the rows, staged beside its destination, published file by file, and     *)
(* committed to the rows, which are checked again by then.                  *)
(* Source: sync_transport.rs (receive_envelope and what it calls).          *)
(*                                                                          *)
(* One blob.  Its sealings (each sealing has ciphertext of its own) are held *)
(* by peers, and several exchanges run at once: only the two checks and the *)
(* commit hold the state lock.  Stage and chunk files count one unit of     *)
(* disk space each.  Memory and database are one here: the commit saves     *)
(* under the lock and takes the rows back when the save fails.              *)
(***************************************************************************)
EXTENDS Integers, FiniteSets

CONSTANTS
    Exchanges,      \* exchanges that may be under way at once
    ChunkCount,     \* chunks of the blob
    Sealings,       \* bound: sealings of the blob that peers hold
    Slots,          \* permits of RECEIVE_SLOTS
    Capacity,       \* free chunk files when the disk is empty
    FreeSpace       \* min_free_space_bytes + reserved_bytes, in chunks

ASSUME ReceiveAssumption ==
    /\ ChunkCount \in Nat \ {0} /\ Sealings \in Nat \ {0} /\ Slots \in Nat \ {0}
    /\ Capacity \in Nat /\ FreeSpace \in 0 .. Capacity
    /\ IsFiniteSet(Exchanges)

VARIABLES
    rx,             \* the exchanges
    blobRows,       \* blob row and chunk rows
    blobFiles,      \* chunk files under their final names, 0 if there is none
    orphans,        \* staged files no exchange owns any more
    allowed,        \* both devices active, members, storage accepted, owner unambiguous
    storageOnly,    \* trust level of this device
    oddities        \* what happened that the code has no answer to

receiveVars == <<rx, blobRows, blobFiles, orphans, allowed, storageOnly, oddities>>

BlobChunks == 1 .. ChunkCount
NoExchange == [at |-> "idle", seal |-> 0, nonce |-> FALSE, next |-> 1, staged |-> {},
               free |-> 0, held |-> FALSE]
NoBlobRows == [seal |-> 0, nonce |-> FALSE, local |-> {}]

Count(S) == Cardinality(S)
Final == {c \in BlobChunks : blobFiles[c] # 0}
Staged == {f \in Exchanges \X BlobChunks : f[2] \in rx[f[1]].staged}
FreeUnits == Capacity - orphans - Count(Final) - Count(Staged)
Holding == {e \in Exchanges : rx[e].held}
Held == ChunkCount * Count(Holding)

\* The read lock of the capacity check spans two steps; writers wait.
Unlocked == \A e \in Exchanges : rx[e].at # "measured"

\* Rows an earlier library left here (a restored backup, an eviction), with or
\* without the nonces.
ReceiveInit ==
    /\ rx = [e \in Exchanges |-> NoExchange]
    /\ blobRows \in {NoBlobRows} \cup [seal : {1}, nonce : BOOLEAN, local : {{}}]
    /\ blobFiles = [c \in BlobChunks |-> 0]
    /\ orphans = 0
    /\ allowed = TRUE
    /\ storageOnly \in BOOLEAN
    /\ storageOnly => ~blobRows.nonce
    /\ oddities = {}

-----------------------------------------------------------------------------
(* validate_envelope_authorization and validate_incoming_manifest *)

SameIdentity(seal) == blobRows.seal \in {0, seal}
validate_local_blob_membership == allowed
Acceptable(seal) == validate_local_blob_membership /\ SameIdentity(seal)

\* The slot is taken, version and first check pass; an envelope that fails
\* them leaves nothing behind.
Enter(e, seal, nonce) ==
    /\ rx[e].at = "idle"
    /\ Count({x \in Exchanges : rx[x].at # "idle"}) < Slots
    /\ Acceptable(seal)
    /\ rx' = [rx EXCEPT ![e] = [NoExchange EXCEPT !.at = "entered", !.seal = seal, !.nonce = nonce]]
    /\ UNCHANGED <<blobRows, blobFiles, orphans, allowed, storageOnly, oddities>>

\* reserve_receive_capacity: the free space is read, then compared and reserved.
Measure(e) ==
    /\ rx[e].at = "entered"
    /\ rx' = [rx EXCEPT ![e].at = "measured", ![e].free = FreeUnits]
    /\ UNCHANGED <<blobRows, blobFiles, orphans, allowed, storageOnly, oddities>>

ReserveSpace(e) ==
    /\ rx[e].at = "measured"
    /\ rx' = IF rx[e].free >= ChunkCount + FreeSpace + Held
             THEN [rx EXCEPT ![e].at = "reserved", ![e].free = 0, ![e].held = TRUE]
             ELSE [rx EXCEPT ![e] = NoExchange]
    /\ UNCHANGED <<blobRows, blobFiles, orphans, allowed, storageOnly, oddities>>

\* Seven days have passed for what a killed process left, or they have not.
cleanup_stale_incoming == {0, orphans}

\* open_or_create_blob_dir and the stage directory.
OpenStage(e) ==
    /\ rx[e].at = "reserved"
    /\ rx' = [rx EXCEPT ![e].at = "staging"]
    /\ orphans' \in cleanup_stale_incoming
    /\ UNCHANGED <<blobRows, blobFiles, allowed, storageOnly, oddities>>

\* A frame with the announced hash and length is written and synchronised.
StageChunk(e) ==
    /\ rx[e].at = "staging" /\ FreeUnits > 0
    /\ rx' = [rx EXCEPT ![e].staged = @ \cup {rx[e].next},
                        ![e].next = IF @ = ChunkCount THEN 1 ELSE @ + 1,
                        ![e].at = IF rx[e].next = ChunkCount THEN "publishing" ELSE @]
    /\ UNCHANGED <<blobRows, blobFiles, orphans, allowed, storageOnly, oddities>>

Published(e) ==
    rx' = [rx EXCEPT ![e].next = @ + 1,
                     ![e].staged = IF blobFiles[rx[e].next] = 0 THEN @ \ {rx[e].next} ELSE @,
                     ![e].at = IF rx[e].next = ChunkCount THEN "committing" ELSE @]

\* Fault: whatever has the name is taken for the chunk.
PublishChunkUnread(e) ==
    /\ rx[e].at = "publishing"
    /\ Published(e)
    /\ blobFiles' = [blobFiles EXCEPT ![rx[e].next] = IF @ = 0 THEN rx[e].seal ELSE @]
    /\ UNCHANGED <<blobRows, orphans, allowed, storageOnly, oddities>>

\* publish_staged_chunk: a rename that never replaces; the same bytes under the
\* name will do, other bytes are a conflict (Abandon).
PublishChunk(e) ==
    /\ rx[e].at = "publishing"
    /\ blobFiles[rx[e].next] \in {0, rx[e].seal}
    /\ Published(e)
    /\ blobFiles' = [blobFiles EXCEPT ![rx[e].next] = rx[e].seal]
    /\ UNCHANGED <<blobRows, orphans, allowed, storageOnly, oddities>>

\* Any error before the commit: the peer stops, a frame does not match, the
\* disk refuses, another sealing has the name.  IncomingStageGuard removes the
\* stage, then the reservation goes; what was published stays.
Abandon(e) ==
    /\ rx[e].at \in {"entered", "reserved", "staging", "publishing"}
    /\ rx' = [rx EXCEPT ![e] = NoExchange]
    /\ oddities' = oddities \cup
         (IF rx[e].at = "publishing" /\ ~Unlocked THEN {"unmeasured"} ELSE {})
    /\ UNCHANGED <<blobRows, blobFiles, orphans, allowed, storageOnly>>

\* merge_blob_record, merge_blob_chunk, opaque_blob_record, opaque_blob_chunk:
\* what is known is kept, and a storage-only device keeps nothing readable.
Merged(nonce) == ~storageOnly /\ (nonce \/ blobRows.nonce)

Received(e) == [seal |-> rx[e].seal, nonce |-> Merged(rx[e].nonce), local |-> BlobChunks]

\* Fault: the state is not validated again under the write lock.
CommitUnvalidated(e) ==
    /\ rx[e].at = "committing" /\ Unlocked
    /\ rx' = [rx EXCEPT ![e] = NoExchange]
    /\ blobRows' \in {blobRows, Received(e)}
    /\ UNCHANGED <<blobFiles, orphans, allowed, storageOnly, oddities>>

\* The second check, commit_received_blob and the save, or the rows as before.
Commit(e) ==
    /\ rx[e].at = "committing" /\ Unlocked
    /\ rx' = [rx EXCEPT ![e] = NoExchange]
    /\ blobRows' \in {blobRows} \cup (IF Acceptable(rx[e].seal) THEN {Received(e)} ELSE {})
    /\ UNCHANGED <<blobFiles, orphans, allowed, storageOnly, oddities>>

-----------------------------------------------------------------------------
(* The rest of the program. *)

\* revoke_device, for either side, or the blob gets a second owner.
Revoke ==
    /\ allowed /\ Unlocked
    /\ allowed' = FALSE
    /\ UNCHANGED <<rx, blobRows, blobFiles, orphans, storageOnly, oddities>>

\* evict_local_asset removes the files and clears local_path.
EvictBlob ==
    /\ blobRows.local # {} /\ Unlocked
    /\ blobRows' = [blobRows EXCEPT !.local = {}]
    /\ blobFiles' = [c \in BlobChunks |-> 0]
    /\ oddities' = oddities \cup
         (IF \E e \in Exchanges : rx[e].at \in {"publishing", "committing"} THEN {"overlap"} ELSE {})
    /\ UNCHANGED <<rx, orphans, allowed, storageOnly>>

KillReceiver ==
    /\ \E e \in Exchanges : rx[e].at # "idle"
    /\ orphans' = orphans + Count(Staged)
    /\ rx' = [e \in Exchanges |-> NoExchange]
    /\ UNCHANGED <<blobRows, blobFiles, allowed, storageOnly, oddities>>

ReceiveNext ==
    \/ \E e \in Exchanges :
        \/ \E seal \in 1 .. Sealings, nonce \in BOOLEAN : Enter(e, seal, nonce)
        \/ Measure(e) \/ ReserveSpace(e) \/ OpenStage(e) \/ StageChunk(e)
        \/ PublishChunk(e) \/ Abandon(e) \/ Commit(e)
    \/ Revoke \/ EvictBlob \/ KillReceiver

ReceiveSpec == ReceiveInit /\ [][ReceiveNext]_receiveVars

-----------------------------------------------------------------------------
(* Properties. *)

\* The chunk rows that name a local file name one of the sealing they describe,
\* whichever exchanges of whichever sealings crossed, failed or were killed.
\* Not when an eviction ran after an exchange had published and before it
\* committed: then the rows speak of files that are gone.
ReceivedIsReadable ==
    "overlap" \notin oddities => \A c \in blobRows.local : blobFiles[c] = blobRows.seal

\* Rows of ciphertext appear only while both devices are still allowed, and
\* never in place of another sealing: a revocation during a long exchange wins.
RevocationWins ==
    blobRows'.local # {} /\ blobRows' # blobRows =>
        allowed /\ blobRows.seal \in {0, blobRows'.seal}

\* A peer that stores ciphertext only sends rows without nonces.  They never
\* take away the nonces this device knows: without them nothing decrypts.
NoncesKept == blobRows.nonce => blobRows'.nonce

\* What a commit may do to the rows, whatever happened since the first chunk.
CommitsAreAllowed == [][RevocationWins /\ NoncesKept]_receiveVars

\* Receiving never takes the space the user reserved, however many exchanges
\* are admitted together.  Not when one failed after publishing a part while
\* another was between measuring and reserving.
ReserveKept == "unmeasured" \notin oddities => FreeUnits >= FreeSpace

\* A pulled blob is whole, and receiving it left the space the user reserved.
ReceivedWithinLimits == ReceivedIsReadable /\ ReserveKept
=============================================================================
