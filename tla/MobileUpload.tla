---------------------------- MODULE MobileUpload ----------------------------
(***************************************************************************)
(* Mobile uploads into one vault: a paired device reserves an upload, sends *)
(* the original in chunks or in one body, may ask for its status or cancel  *)
(* it, and completes it.  Source: native_core/src/service.rs, the handlers  *)
(* between reserve_mobile_upload and complete_mobile_upload_from_staging.   *)
(*                                                                          *)
(* Every handler holds the write lock of LibraryState from its first read   *)
(* to its last step, changes the state in memory and the staging file on    *)
(* disk, and then calls persist_locked_state, which rewrites the database   *)
(* in one SQLite transaction.  `lock` is the handler that has done its work *)
(* and still has to save: while it is not Free nothing else can run, and    *)
(* what happens next is that the save succeeds and the reply is sent, that  *)
(* it fails and an error is sent (memory is then ahead of the database), or *)
(* that the daemon crashes in between and restarts from the database.       *)
(***************************************************************************)
EXTENDS Integers, Sequences, FiniteSets

CONSTANTS
    Uploads,        \* upload ids the daemon may hand out
    Sessions,       \* mobile session ids of the paired device
    FirstSession,   \* the session that pairing created
    Photos,         \* distinct originals on the device
    PhotoOf,        \* the original each upload is for
    Total,          \* the reserved size of every upload, in units
    MaxChunk,       \* MOBILE_UPLOAD_CHUNK_MAX_BYTES, in units
    Corrupting,     \* uploads whose link may damage the bytes it carries
    None            \* no asset, no subject

ASSUME UploadAssumption ==
    /\ FirstSession \in Sessions
    /\ PhotoOf \in [Uploads -> Photos]
    /\ Total \in Nat \ {0}
    /\ MaxChunk \in Nat \ {0}
    /\ Corrupting \subseteq Uploads
    /\ None \notin Uploads \cup Sessions

VARIABLES
    mem,        \* the LibraryState behind the lock
    db,         \* what the last committed transaction wrote
    staged,     \* staged[u]: the bytes in mobile_uploads/<u>/<name>.part
    lock,       \* Free, or the reply a handler sends once its save commits
    acked,      \* the replies that were sent
    expired     \* sessions whose thirty days are over

vars == <<mem, db, staged, lock, acked, expired>>

-----------------------------------------------------------------------------
(* Data.  A byte that arrived undamaged is its offset in the original, a    *)
(* damaged one is 0; the checksum of some bytes is the bytes themselves     *)
(* together with the original they come from.                               *)

Bytes == 0 .. Total
Statuses == {"Pending", "Running", "Completed", "Failed", "Canceled"}

Upload == [session : Sessions, hashed : BOOLEAN, status : Statuses,
           received : 0 .. Total, asset : Uploads \cup {None}]

\* An id that no upload was handed out for maps to None.
ASSUME NoneIsNoUpload == None \notin Upload

\* An asset imported from a phone, named after the upload that created it.
\* sealed: its blob has chunk rows and chunk files.  live: its file entry is
\* not in the trash.
Asset == [id : Uploads, data : Seq(Bytes), sealed : BOOLEAN, live : BOOLEAN]

LibraryState ==
    [uploads  : [Uploads -> Upload \cup {None}],
     assets   : SUBSET Asset,
     sessions : [Sessions -> {"none", "active", "revoked"}]]

Reply == [about : Uploads \cup Sessions \cup {None},
          says  : {"reserved", "progress", "completed", "canceled", "issued",
                   "revoked", "error"}]
Free == [about |-> None, says |-> "free"]

Original == [i \in 1 .. Total |-> i]
Intact(data) == \A i \in 1 .. Len(data) : data[i] = i
SameContent(a, u, data) == PhotoOf[a.id] = PhotoOf[u] /\ a.data = data
Says(subject, what) == [about |-> subject, says |-> what]

TypeOK ==
    /\ mem \in LibraryState
    /\ db \in LibraryState
    /\ staged \in [Uploads -> Seq(Bytes)]
    /\ lock \in Reply \cup {Free}
    /\ acked \subseteq Reply
    /\ expired \subseteq Sessions

Init ==
    /\ mem = [uploads  |-> [u \in Uploads |-> None],
              assets   |-> {},
              sessions |-> [s \in Sessions |->
                              IF s = FirstSession THEN "active" ELSE "none"]]
    /\ db = mem
    /\ staged = [u \in Uploads |-> <<>>]
    /\ lock = Free
    /\ acked = {Says(FirstSession, "issued")}
    /\ expired = {}

-----------------------------------------------------------------------------
(* What every handler does first and last.                                  *)

\* The handler returns with `m` in memory and its save still ahead of it.
SaveThen(m, reply) == mem' = m /\ lock' = reply

\* The handler returns an error without saving what it changed.
Refuse(m) == mem' = m /\ lock' = Free

\* A session whose token the device holds and that
\* active_mobile_session_from_state accepts.
Active(s) ==
    /\ lock = Free
    /\ Says(s, "issued") \in acked
    /\ mem.sessions[s] = "active"
    /\ s \notin expired

\* The device names an upload it was told of, and mobile_upload_index_for_session
\* finds it bound to this very session.
OwnsInAnySession(s, u) ==       \* fault: the session binding is not checked
    /\ Says(u, "reserved") \in acked
    /\ mem.uploads[u] # None

Owns(s, u) ==
    /\ Says(u, "reserved") \in acked
    /\ mem.uploads[u] # None
    /\ mem.uploads[u].session = s

CancelableAlways(up) == TRUE     \* fault: a completed upload may be canceled
Cancelable(up) == up.status # "Completed"
Closed(up) == up.status \in {"Failed", "Canceled"}

With(u, up) == [mem EXCEPT !.uploads[u] = up]

\* reconcile_mobile_upload_progress: an upload that is still open adopts the
\* length of its staging file; a file longer than the reservation fails it.
Overfull(u) ==
    /\ mem.uploads[u].status \in {"Pending", "Running"}
    /\ Len(staged[u]) > Total

Reconciled(u) ==
    LET up == mem.uploads[u]  len == Len(staged[u])
    IN  IF \/ up.status \notin {"Pending", "Running"}
           \/ len = up.received
        THEN up
        ELSE IF len > Total
        THEN [up EXCEPT !.status = "Failed"]
        ELSE [up EXCEPT !.received = len,
                        !.status = IF len = 0 THEN "Pending" ELSE "Running"]

\* fs::remove_dir_all of the staging directory; its error is ignored.
RemoveStaging(u, data) ==
    \E left \in {<<>>, data} : staged' = [staged EXCEPT ![u] = left]

-----------------------------------------------------------------------------
Reserve(s, u, hashed) ==
    /\ Active(s)
    /\ mem.uploads[u] = None
    /\ Says(u, "reserved") \notin acked
    /\ SaveThen(With(u, [session |-> s, hashed |-> hashed, status |-> "Pending",
                         received |-> 0, asset |-> None]),
                Says(u, "reserved"))
    /\ UNCHANGED <<db, staged, acked, expired>>

Status(s, u) ==
    /\ Active(s) /\ Owns(s, u)
    /\ IF Overfull(u)
       THEN Refuse(With(u, Reconciled(u)))
       ELSE SaveThen(With(u, Reconciled(u)),
                     Says(u, CASE mem.uploads[u].status = "Completed" -> "completed"
                               [] mem.uploads[u].status = "Canceled" -> "canceled"
                               [] OTHER -> "progress"))
    /\ UNCHANGED <<db, staged, acked, expired>>

\* The staging directory goes before the cancellation is saved.
Cancel(s, u) ==
    /\ Active(s) /\ Owns(s, u)
    /\ Cancelable(mem.uploads[u])
    /\ IF Overfull(u)
       THEN Refuse(With(u, Reconciled(u))) /\ UNCHANGED staged
       ELSE /\ SaveThen(With(u, [Reconciled(u) EXCEPT !.status = "Canceled"]),
                        Says(u, "canceled"))
            /\ RemoveStaging(u, staged[u])
    /\ UNCHANGED <<db, acked, expired>>

-----------------------------------------------------------------------------
(* Completion.  `up` and `data` are the upload and its staging file as the  *)
(* caller left them; both callers have just checked that the lengths agree, *)
(* under the same lock, so the handler's own length check cannot fail.      *)

HashUnchecked(up, data) == FALSE \* fault: the declared checksum is ignored
HashMismatch(up, data) == up.hashed /\ ~ Intact(data)

\* The duplicate test of complete_mobile_upload_from_staging: the same bytes,
\* with chunk files and an entry outside the trash.
Duplicates(u, data) ==
    {a \in mem.assets : SameContent(a, u, data) /\ a.sealed /\ a.live}

RejectHash(u, up, data) ==
    /\ HashMismatch(up, data)
    /\ SaveThen(With(u, [up EXCEPT !.status = "Failed"]), Says(None, "error"))
    /\ RemoveStaging(u, data)

ReuseDuplicate(u, up, data) ==
    /\ ~ HashMismatch(up, data)
    /\ \E a \in Duplicates(u, data) :
         SaveThen(With(u, [up EXCEPT !.status = "Completed", !.asset = a.id]),
                  Says(u, "completed"))
    /\ RemoveStaging(u, data)

ImportWith(u, up, data, isSealed) ==
    [With(u, [up EXCEPT !.status = IF isSealed THEN "Completed" ELSE "Failed",
                        !.asset = u])
       EXCEPT !.assets = @ \cup {[id |-> u, data |-> data,
                                  sealed |-> isSealed, live |-> TRUE]}]

\* The staging file is copied into the library, the asset is added and sealed,
\* and only then the staging directory goes; the save comes last.  A failed
\* seal keeps the asset, fails the upload and keeps the staging file.
Import(u, up, data) ==
    /\ ~ HashMismatch(up, data)
    /\ Duplicates(u, data) = {}
    /\ \/ /\ SaveThen(ImportWith(u, up, data, TRUE), Says(u, "completed"))
          /\ RemoveStaging(u, data)
       \/ /\ SaveThen(ImportWith(u, up, data, FALSE), Says(None, "error"))
          /\ staged' = [staged EXCEPT ![u] = data]
       \/ /\ Refuse(With(u, up))                 \* the copy failed
          /\ staged' = [staged EXCEPT ![u] = data]

CompleteFromStaging(u, up, data) ==
    \/ RejectHash(u, up, data)
    \/ ReuseDuplicate(u, up, data)
    \/ Import(u, up, data)

Complete(s, u) ==
    /\ Active(s) /\ Owns(s, u)
    /\ ~ Closed(mem.uploads[u])
    /\ LET up == Reconciled(u)
       IN  IF up.status = "Completed"
           THEN SaveThen(mem, Says(u, "completed")) /\ UNCHANGED staged
           ELSE IF Overfull(u)
           THEN Refuse(With(u, up)) /\ UNCHANGED staged
           ELSE IF up.received # Total
           THEN /\ SaveThen(With(u, [up EXCEPT !.status = IF up.received = 0
                                              THEN "Pending" ELSE "Running"]),
                            Says(None, "error"))
                /\ UNCHANGED staged
           ELSE CompleteFromStaging(u, up, staged[u])
    /\ UNCHANGED <<db, acked, expired>>

-----------------------------------------------------------------------------
(* Bytes on the wire: `n` units from `offset`, undamaged or all zero.       *)
Body(offset, n, good) == [i \in 1 .. n |-> IF good THEN offset + i ELSE 0]
MayCarry(u, good) == good \/ u \in Corrupting

\* The check against the reserved size.
FitsAlways(end) == TRUE          \* fault: no check
Fits(end) == end <= Total

\* The offset must be where the receipt says the device resumes, and
\* append_mobile_upload_chunk once more compares it with the file.
Appendable(u, up, offset) == offset = up.received /\ offset = Len(staged[u])

\* A chunk is appended only where the staging file ends.  The exact last chunk
\* again is taken for a retransmission; every other overlap or gap is refused,
\* and what reconciling changed in memory stays.  The write may stop half way.
ReceiveChunk(s, u, offset, n, good) ==
    /\ Active(s) /\ Owns(s, u)
    /\ n <= MaxChunk
    /\ MayCarry(u, good)
    /\ LET up == Reconciled(u)  end == offset + n
       IN  \/ /\ up.status = "Completed"
              /\ SaveThen(mem, Says(u, "completed"))
              /\ UNCHANGED staged
           \/ /\ Overfull(u) \/ Closed(up)
              /\ Refuse(With(u, up))
              /\ UNCHANGED staged
           \/ /\ up.status \in {"Pending", "Running"}
              /\ ~ (Fits(end) /\ Appendable(u, up, offset))
              /\ IF Fits(end) /\ offset < up.received /\ end = up.received
                 THEN SaveThen(With(u, up), Says(u, "progress"))
                 ELSE Refuse(With(u, up))
              /\ UNCHANGED staged
           \/ /\ up.status \in {"Pending", "Running"}
              /\ Fits(end) /\ Appendable(u, up, offset)
              /\ staged' = [staged EXCEPT ![u] = @ \o Body(offset, n, good)]
              /\ SaveThen(With(u, [up EXCEPT !.status = "Running",
                                             !.received = end]),
                          Says(u, "progress"))
           \/ /\ up.status \in {"Pending", "Running"}
              /\ Fits(end) /\ Appendable(u, up, offset)
              /\ \E k \in 0 .. n - 1 :
                   staged' = [staged EXCEPT ![u] = @ \o Body(offset, k, good)]
              /\ Refuse(With(u, up))
    /\ UNCHANGED <<db, acked, expired>>

\* The whole original in one body.  Memory counts it as received before it is
\* written, and the staging file is truncated first.
ReceiveWhole(s, u, n, good) ==
    /\ Active(s) /\ Owns(s, u)
    /\ MayCarry(u, good)
    /\ LET up == mem.uploads[u]
           running == [up EXCEPT !.status = "Running", !.received = Total]
       IN  \/ /\ up.status = "Completed"
              /\ SaveThen(mem, Says(u, "completed"))
              /\ UNCHANGED staged
           \/ /\ up.status \in {"Pending", "Running"}
              /\ n # Total
              /\ SaveThen(With(u, [up EXCEPT !.status = "Failed"]),
                          Says(None, "error"))
              /\ UNCHANGED staged
           \/ /\ up.status \in {"Pending", "Running"}
              /\ n = Total
              /\ CompleteFromStaging(u, running, Body(0, n, good))
           \/ /\ up.status \in {"Pending", "Running"}
              /\ n = Total
              /\ \E k \in 0 .. n - 1 :
                   staged' = [staged EXCEPT ![u] = Body(0, k, good)]
              /\ Refuse(With(u, running))
    /\ UNCHANGED <<db, acked, expired>>

-----------------------------------------------------------------------------
(* Sessions.  A refresh revokes the session it is asked under and issues a  *)
(* new one; the token of the new one reaches the device with the reply.     *)

RefreshSession(s, new) ==
    /\ Active(s)
    /\ mem.sessions[new] = "none"
    /\ Says(new, "issued") \notin acked
    /\ SaveThen([mem EXCEPT !.sessions[s] = "revoked", !.sessions[new] = "active"],
                Says(new, "issued"))
    /\ UNCHANGED <<db, staged, acked, expired>>

RevokeSession(s) ==
    /\ Active(s)
    /\ SaveThen([mem EXCEPT !.sessions[s] = "revoked"], Says(s, "revoked"))
    /\ UNCHANGED <<db, staged, acked, expired>>

Expire(s) ==
    /\ s \notin expired
    /\ expired' = expired \cup {s}
    /\ UNCHANGED <<mem, db, staged, lock, acked>>

\* The desktop moves the entry of an imported asset to the trash or back.
SetTrashed(a, isLive) ==
    /\ lock = Free
    /\ a \in mem.assets
    /\ SaveThen([mem EXCEPT !.assets = (@ \ {a}) \cup {[a EXCEPT !.live = isLive]}],
                Says(None, "progress"))
    /\ UNCHANGED <<db, staged, acked, expired>>

-----------------------------------------------------------------------------
(* The save.  `assets` is UNIQUE(vault_id, content_hash): a state with two  *)
(* assets of the same content cannot be written.                            *)

UniqueContent(m) ==
    \A a, b \in m.assets :
        (PhotoOf[a.id] = PhotoOf[b.id] /\ a.data = b.data) => a = b

Persist ==
    /\ lock # Free
    /\ UniqueContent(mem)
    /\ db' = mem
    /\ acked' = IF lock.about = None \/ lock.says = "progress"
                THEN acked ELSE acked \cup {lock}
    /\ lock' = Free
    /\ UNCHANGED <<mem, staged, expired>>

PersistFailureIgnored ==         \* fault: the reply does not wait for the save
    /\ lock # Free
    /\ acked' = acked \cup {lock}
    /\ lock' = Free
    /\ UNCHANGED <<mem, db, staged, expired>>

PersistFails ==
    /\ lock # Free
    /\ lock' = Free
    /\ UNCHANGED <<mem, db, staged, acked, expired>>

\* GalleryService::new reads the database back.
Crash ==
    /\ mem' = db
    /\ lock' = Free
    /\ UNCHANGED <<db, staged, acked, expired>>

UploadStep(s, u) ==
    \/ \E hashed \in BOOLEAN : Reserve(s, u, hashed)
    \/ Status(s, u)
    \/ Cancel(s, u)
    \/ Complete(s, u)
    \/ \E offset \in 0 .. Total, n \in 1 .. Total, good \in BOOLEAN :
          ReceiveChunk(s, u, offset, n, good)
    \/ \E n \in 1 .. Total, good \in BOOLEAN : ReceiveWhole(s, u, n, good)

Next ==
    \/ \E s \in Sessions, u \in Uploads : UploadStep(s, u)
    \/ \E s, new \in Sessions : RefreshSession(s, new)
    \/ \E s \in Sessions : RevokeSession(s) \/ Expire(s)
    \/ \E a \in mem.assets, isLive \in BOOLEAN : SetTrashed(a, isLive)
    \/ Persist
    \/ PersistFails
    \/ Crash

Spec == Init /\ [][Next]_vars

-----------------------------------------------------------------------------
(* Properties.                                                              *)

\* The staging file never outgrows the reservation and, while the link is
\* sound, is a prefix of the original: whatever chunks are lost, repeated, cut
\* short, overtaken by a whole-body upload or resumed after a crash, none is
\* stored at an offset it was not sent for.
StagedIsPrefix ==
    \A u \in Uploads : /\ Len(staged[u]) <= Total
                       /\ u \notin Corrupting => Intact(staged[u])

\* A reply survives every later crash: an upload the device was told is
\* reserved, completed or canceled is so in the database (a reservation may
\* have moved on), and a session it was told is revoked is revoked there.
AckedIsDurable ==
    \A r \in acked :
        /\ r.says = "reserved"  => db.uploads[r.about] # None
        /\ r.says = "completed" => db.uploads[r.about].status = "Completed"
        /\ r.says = "canceled"  => db.uploads[r.about].status = "Canceled"
        /\ r.says = "revoked"   => db.sessions[r.about] = "revoked"

\* An upload that ends Completed names an asset with a whole, sealed copy of its
\* own original, unless the link damaged it and no checksum was declared; this
\* is so in memory and in the database.
CompletedIsTheOriginal ==
    \A m \in {mem, db}, u \in Uploads :
        (m.uploads[u] # None /\ m.uploads[u].status = "Completed") =>
            \E a \in m.assets :
                /\ a.id = m.uploads[u].asset
                /\ PhotoOf[a.id] = PhotoOf[u]
                /\ a.sealed
                /\ Len(a.data) = Total
                /\ m.uploads[u].hashed \/ u \notin Corrupting => Intact(a.data)

\* In the database no upload leaves Completed or Canceled, and a completed one
\* keeps its asset.
OutcomeIsFinal ==
    [][\A u \in Uploads :
         (db.uploads[u] # None /\ db.uploads[u].status \in {"Completed", "Canceled"})
         => db'.uploads[u] = db.uploads[u]]_vars

\* Once the database holds an upload's cancellation, or the revocation of the
\* session it was reserved under, no step stores a byte for the upload or
\* imports it, restarts and failed saves included.
RevokedOrCanceledIsInert ==
    [][\A u \in Uploads :
         (/\ db.uploads[u] # None
          /\ \/ db.uploads[u].status = "Canceled"
             \/ db.sessions[db.uploads[u].session] = "revoked")
         => /\ Len(staged'[u]) <= Len(staged[u])
            /\ \A a \in mem'.assets : a.id = u => \E b \in mem.assets : b.id = u]_vars

\* docs/architecture.md:330: completion "dedupes by checksum".  Two assets of
\* one vault never have the same content.
DedupesByChecksum == UniqueContent(mem)

\* From the first byte staged to the asset that is reported, an upload is the
\* original the device read: the staging file, and what was made of it.
BytesAreTheOriginal == StagedIsPrefix /\ CompletedIsTheOriginal
=============================================================================
