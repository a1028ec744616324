------------------------- MODULE MobileUploadProofs -------------------------
(***************************************************************************)
(* Theorems about MobileUpload, for any set of uploads and sessions and any *)
(* sizes: the type invariant, that a reply survives every later crash, that *)
(* the outcome of an upload is final, that a completed upload is byte for   *)
(* byte the original (ContentInv), and that what was revoked or canceled    *)
(* takes nothing more.                                                      *)
(*                                                                          *)
(* The argument.  A failed save leaves memory ahead of the database, never  *)
(* behind it: no handler takes an upload out of the table, moves one out of *)
(* Completed or Canceled, or revives a revoked session.  So the next save   *)
(* cannot undo what an earlier one wrote (Behind).  A reply is sent by the  *)
(* step that saves the memory the handler left, and nothing changes that    *)
(* memory in between (MatchesReply).                                        *)
(***************************************************************************)
EXTENDS MobileUpload, SequenceTheorems, TLAPS

Final(up) == up # None /\ up.status \in {"Completed", "Canceled"}

\* The state n has everything that m promised.
Behind(m, n) ==
    /\ \A u \in Uploads : /\ m.uploads[u] # None => n.uploads[u] # None
                          /\ Final(m.uploads[u]) => n.uploads[u] = m.uploads[u]
    /\ \A s \in Sessions : m.sessions[s] = "revoked" => n.sessions[s] = "revoked"

\* What the reply r says is so in the state m.
MatchesReply(r, m) ==
    /\ r.says = "reserved" => r.about \in Uploads /\ m.uploads[r.about] # None
    /\ r.says = "completed" =>
          /\ r.about \in Uploads /\ m.uploads[r.about] # None
          /\ m.uploads[r.about].status = "Completed"
    /\ r.says = "canceled" =>
          /\ r.about \in Uploads /\ m.uploads[r.about] # None
          /\ m.uploads[r.about].status = "Canceled"
    /\ r.says = "revoked" => r.about \in Sessions /\ m.sessions[r.about] = "revoked"

\* The inductive invariant.
IInv ==
    /\ TypeOK
    /\ Behind(db, mem)
    /\ MatchesReply(lock, mem)
    /\ \A r \in acked : MatchesReply(r, db)

\* What every step of a handler does.
HandlerStep ==
    /\ mem' \in LibraryState
    /\ staged' \in [Uploads -> Seq(Bytes)]
    /\ lock' \in Reply \cup {Free}
    /\ expired' \subseteq Sessions
    /\ Behind(mem, mem')
    /\ MatchesReply(lock', mem')
    /\ UNCHANGED <<db, acked>>

-----------------------------------------------------------------------------
(* Behind is a preorder that replies are monotonic in. *)

\* A state keeps its own promises.
LEMMA BehindRefl == ASSUME NEW m PROVE Behind(m, m)
  BY DEF Behind

\* Promises kept twice over are kept: a handler that ran on a state whose
\* save failed still leaves nothing undone that an earlier save wrote.
LEMMA BehindTrans ==
  ASSUME NEW a, NEW b, NEW c, Behind(a, b), Behind(b, c)
  PROVE  Behind(a, c)
<1>1. ASSUME NEW u \in Uploads
      PROVE  /\ a.uploads[u] # None => c.uploads[u] # None
             /\ Final(a.uploads[u]) => c.uploads[u] = a.uploads[u]
  BY DEF Behind
<1>2. ASSUME NEW s \in Sessions, a.sessions[s] = "revoked"
      PROVE  c.sessions[s] = "revoked"
  BY <1>2 DEF Behind
<1> QED BY <1>1, <1>2 DEF Behind

\* A reply that is true of a state is true of every state that is not behind it.
LEMMA ReplyMonotonic ==
  ASSUME NEW r, NEW m, NEW n, MatchesReply(r, m), Behind(m, n)
  PROVE  MatchesReply(r, n)
<1>1. ASSUME NEW u \in Uploads, m.uploads[u] # None,
             m.uploads[u].status \in {"Completed", "Canceled"}
      PROVE  n.uploads[u] = m.uploads[u]
  BY <1>1 DEF Behind, Final
<1>2. r.says = "completed" =>
          /\ r.about \in Uploads /\ n.uploads[r.about] # None
          /\ n.uploads[r.about].status = "Completed"
  BY <1>1 DEF MatchesReply
<1>3. r.says = "canceled" =>
          /\ r.about \in Uploads /\ n.uploads[r.about] # None
          /\ n.uploads[r.about].status = "Canceled"
  BY <1>1 DEF MatchesReply
<1>4. r.says = "reserved" => r.about \in Uploads /\ n.uploads[r.about] # None
  BY DEF MatchesReply, Behind
<1>5. r.says = "revoked" => r.about \in Sessions /\ n.sessions[r.about] = "revoked"
  BY DEF MatchesReply, Behind
<1> QED BY <1>2, <1>3, <1>4, <1>5 DEF MatchesReply

-----------------------------------------------------------------------------
(* Data. *)

\* No reply, no promise.
LEMMA FreeMatches == ASSUME NEW m PROVE MatchesReply(Free, m)
  BY DEF Free, MatchesReply

\* The replies the handlers build are replies.
LEMMA SaysType ==
  ASSUME NEW subject \in Uploads \cup Sessions \cup {None},
         NEW what \in {"reserved", "progress", "completed", "canceled", "issued",
                       "revoked", "error"}
  PROVE  Says(subject, what) \in Reply
  BY DEF Says, Reply

\* An upload the tables hold is a record, and no record is None.
LEMMA UploadType ==
  ASSUME NEW m \in LibraryState, NEW u \in Uploads, m.uploads[u] # None
  PROVE  m.uploads[u] \in Upload
  BY DEF LibraryState

\* A row of the upload table is not the absent row.
LEMMA UploadIsSome == ASSUME NEW up \in Upload PROVE up # None
  BY NoneIsNoUpload

\* Replacing one upload.
LEMMA WithType ==
  ASSUME mem \in LibraryState, NEW u \in Uploads, NEW up \in Upload
  PROVE  /\ With(u, up) \in LibraryState
         /\ With(u, up).uploads[u] = up
         /\ \A v \in Uploads \ {u} : With(u, up).uploads[v] = mem.uploads[v]
         /\ With(u, up).assets = mem.assets
         /\ With(u, up).sessions = mem.sessions
  BY DEF With, LibraryState

\* Any state with this one upload replaced is ahead of memory, provided an
\* outcome is kept.
LEMMA ReplaceBehind ==
  ASSUME mem \in LibraryState, NEW u \in Uploads, NEW up \in Upload, NEW m,
         Final(mem.uploads[u]) => up = mem.uploads[u],
         m.uploads[u] = up,
         \A v \in Uploads \ {u} : m.uploads[v] = mem.uploads[v],
         m.sessions = mem.sessions
  PROVE  Behind(mem, m)
<1>1. up # None
  BY UploadIsSome
<1>2. ASSUME NEW v \in Uploads
      PROVE  /\ mem.uploads[v] # None => m.uploads[v] # None
             /\ Final(mem.uploads[v]) => m.uploads[v] = mem.uploads[v]
  <2>1. CASE v = u
    BY <1>1, <2>1
  <2>2. CASE v # u
    BY <2>2
  <2> QED BY <2>1, <2>2
<1> QED BY <1>2 DEF Behind

\* Replacing one staging file by bytes leaves a table of staging files.
LEMMA StagedType ==
  ASSUME TypeOK, NEW u \in Uploads
  PROVE  staged[u] \in Seq(Bytes) /\ Len(staged[u]) \in Nat
<1>1. staged[u] \in Seq(Bytes)
  BY DEF TypeOK
<1> QED BY <1>1, LenProperties

\* What the reconciliation with the staging file makes of an upload.
LEMMA ReconciledType ==
  ASSUME TypeOK, NEW u \in Uploads, mem.uploads[u] # None
  PROVE  /\ Reconciled(u) \in Upload
         /\ mem.uploads[u].status \notin {"Pending", "Running"} =>
               Reconciled(u) = mem.uploads[u]
         /\ mem.uploads[u].status \in {"Pending", "Running"} =>
               Reconciled(u).status \in {"Pending", "Running", "Failed"}
         /\ Final(mem.uploads[u]) => Reconciled(u) = mem.uploads[u]
         /\ Final(Reconciled(u)) => Reconciled(u) = mem.uploads[u]
<1> DEFINE up == mem.uploads[u]
           len == Len(staged[u])
<1>1. up \in Upload
  BY UploadType DEF TypeOK
<1>2. len \in Nat /\ Total \in Nat
  BY StagedType, UploadAssumption
<1>3. CASE up.status \notin {"Pending", "Running"} \/ len = up.received
  <2>1. Reconciled(u) = up
    BY <1>3 DEF Reconciled
  <2> QED BY <1>1, <2>1 DEF Final
<1>4. CASE up.status \in {"Pending", "Running"} /\ len # up.received /\ len > Total
  <2>1. Reconciled(u) = [up EXCEPT !.status = "Failed"]
    BY <1>4 DEF Reconciled
  <2>2. Reconciled(u) \in Upload /\ Reconciled(u).status = "Failed"
    BY <1>1, <2>1 DEF Upload, Statuses
  <2> QED BY <1>4, <2>2 DEF Final
<1>5. CASE up.status \in {"Pending", "Running"} /\ len # up.received /\ ~ (len > Total)
  <2> DEFINE status == IF len = 0 THEN "Pending" ELSE "Running"
  <2>1. Reconciled(u) = [up EXCEPT !.received = len, !.status = status]
    BY <1>5 DEF Reconciled
  <2>2. len \in 0 .. Total
    BY <1>2, <1>5
  <2>3. status \in {"Pending", "Running"}
    OBVIOUS
  <2> HIDE DEF status, len
  <2>4. Reconciled(u) \in Upload /\ Reconciled(u).status = status
    BY <1>1, <2>1, <2>2, <2>3 DEF Upload, Statuses
  <2> QED BY <1>5, <2>3, <2>4 DEF Final
<1> QED BY <1>3, <1>4, <1>5

-----------------------------------------------------------------------------
(* The three ways a handler ends: with a save and a reply about its upload, *)
(* with a save and an error, with an error and no save.                     *)

\* The upload record up is what a handler may put in the place of u's.
KeepsOutcome(u, up) == Final(mem.uploads[u]) => up = mem.uploads[u]

\* The reply fits the upload record it is sent with.
Fitting(what, up) ==
    /\ what \in {"reserved", "progress", "completed", "canceled"}
    /\ what = "completed" => up.status = "Completed"
    /\ what = "canceled" => up.status = "Canceled"

\* Writing one upload row in a way that keeps its outcome is a handler step.
LEMMA UpdateStep ==
  ASSUME TypeOK, NEW u \in Uploads, NEW up \in Upload, KeepsOutcome(u, up),
         NEW m \in LibraryState, m.uploads[u] = up,
         \A v \in Uploads \ {u} : m.uploads[v] = mem.uploads[v],
         m.sessions = mem.sessions,
         mem' = m,
         \/ lock' = Free
         \/ lock' = Says(None, "error")
         \/ \E what : lock' = Says(u, what) /\ Fitting(what, up),
         staged' \in [Uploads -> Seq(Bytes)],
         UNCHANGED <<db, acked, expired>>
  PROVE  HandlerStep
<1>1. Behind(mem, m)
  BY ReplaceBehind DEF TypeOK, KeepsOutcome
<1>2. CASE lock' = Free
  BY <1>1, <1>2, FreeMatches DEF HandlerStep, TypeOK
<1>3. CASE lock' = Says(None, "error")
  <2>1. lock' \in Reply
    BY <1>3, SaysType
  <2>2. MatchesReply(lock', m)
    BY <1>3 DEF Says, MatchesReply
  <2> QED BY <1>1, <2>1, <2>2 DEF HandlerStep, TypeOK
<1>4. ASSUME NEW what, lock' = Says(u, what), Fitting(what, up)
      PROVE  HandlerStep
  <2>1. lock' \in Reply
    BY <1>4, SaysType DEF Fitting
  <2>2. MatchesReply(lock', m)
    BY <1>4, UploadIsSome DEF Says, MatchesReply, Fitting
  <2> QED BY <1>1, <2>1, <2>2 DEF HandlerStep, TypeOK
<1> QED BY <1>2, <1>3, <1>4

\* A handler that leaves its save ahead is a handler step when its reply is true
\* of the memory it leaves.
LEMMA SaveStep ==
  ASSUME TypeOK, NEW u \in Uploads, NEW up \in Upload, KeepsOutcome(u, up),
         NEW what, Fitting(what, up),
         SaveThen(With(u, up), Says(u, what)),
         staged' \in [Uploads -> Seq(Bytes)],
         UNCHANGED <<db, acked, expired>>
  PROVE  HandlerStep
<1>1. mem \in LibraryState
  BY DEF TypeOK
<1> QED BY <1>1, WithType, UpdateStep DEF SaveThen

\* An error that is saved promises nothing.
LEMMA ErrorStep ==
  ASSUME TypeOK, NEW u \in Uploads, NEW up \in Upload, KeepsOutcome(u, up),
         SaveThen(With(u, up), Says(None, "error")),
         staged' \in [Uploads -> Seq(Bytes)],
         UNCHANGED <<db, acked, expired>>
  PROVE  HandlerStep
<1>1. mem \in LibraryState
  BY DEF TypeOK
<1> QED BY <1>1, WithType, UpdateStep DEF SaveThen

\* A handler that returns an error unsaved promises nothing either.
LEMMA RefuseStep ==
  ASSUME TypeOK, NEW u \in Uploads, NEW up \in Upload, KeepsOutcome(u, up),
         Refuse(With(u, up)),
         staged' \in [Uploads -> Seq(Bytes)],
         UNCHANGED <<db, acked, expired>>
  PROVE  HandlerStep
<1>1. mem \in LibraryState
  BY DEF TypeOK
<1> QED BY <1>1, WithType, UpdateStep DEF Refuse

\* An upload that is Completed already is reported as it is.
LEMMA CompletedStep ==
  ASSUME TypeOK, NEW u \in Uploads, mem.uploads[u] # None,
         mem.uploads[u].status = "Completed",
         SaveThen(mem, Says(u, "completed")),
         UNCHANGED <<db, staged, acked, expired>>
  PROVE  HandlerStep
<1>1. mem \in LibraryState /\ mem.uploads[u] \in Upload
  BY UploadType DEF TypeOK
<1>2. KeepsOutcome(u, mem.uploads[u]) /\ Fitting("completed", mem.uploads[u])
  BY DEF KeepsOutcome, Fitting
<1>3. staged' \in [Uploads -> Seq(Bytes)]
  BY DEF TypeOK
<1> QED BY <1>1, <1>2, <1>3, UpdateStep DEF SaveThen

\* Removing the staging directory, or failing to, leaves a table of files.
LEMMA RemoveStagingType ==
  ASSUME TypeOK, NEW u \in Uploads, NEW data \in Seq(Bytes), RemoveStaging(u, data)
  PROVE  staged' \in [Uploads -> Seq(Bytes)]
<1>1. <<>> \in Seq(Bytes)
  BY EmptySeq
<1> QED BY <1>1 DEF RemoveStaging, TypeOK

-----------------------------------------------------------------------------
(* One lemma per handler. *)

\* The upload a request names is a row of the table.
LEMMA OwnedUpload ==
  ASSUME TypeOK, NEW s, NEW u \in Uploads, Owns(s, u)
  PROVE  /\ mem.uploads[u] # None /\ mem.uploads[u] \in Upload
         /\ Reconciled(u) \in Upload
         /\ KeepsOutcome(u, Reconciled(u))
         /\ staged \in [Uploads -> Seq(Bytes)]
<1>1. mem.uploads[u] # None
  BY DEF Owns
<1>2. mem.uploads[u] \in Upload
  BY <1>1, UploadType DEF TypeOK
<1> QED BY <1>1, <1>2, ReconciledType DEF TypeOK, KeepsOutcome

\* reserve_mobile_upload writes a row where there was none.
LEMMA ReserveStep ==
  ASSUME TypeOK, NEW s \in Sessions, NEW u \in Uploads, NEW hashed \in BOOLEAN,
         Reserve(s, u, hashed)
  PROVE  HandlerStep
<1> DEFINE up == [session |-> s, hashed |-> hashed, status |-> "Pending",
                  received |-> 0, asset |-> None]
<1>1. up \in Upload
  BY UploadAssumption DEF Upload, Statuses
<1>2. KeepsOutcome(u, up)
  BY DEF Reserve, KeepsOutcome, Final
<1>3. Fitting("reserved", up)
  BY DEF Fitting
<1>4. SaveThen(With(u, up), Says(u, "reserved"))
  BY DEF Reserve
<1>5. staged' \in [Uploads -> Seq(Bytes)] /\ UNCHANGED <<db, acked, expired>>
  BY DEF Reserve, TypeOK
<1> HIDE DEF up
<1> QED BY <1>1, <1>2, <1>3, <1>4, <1>5, SaveStep

\* mobile_upload_status moves only uploads that are still open.
LEMMA StatusStep ==
  ASSUME TypeOK, NEW s \in Sessions, NEW u \in Uploads, Status(s, u)
  PROVE  HandlerStep
<1> DEFINE up == Reconciled(u)
<1>1. Owns(s, u) /\ staged' = staged /\ UNCHANGED <<db, acked, expired>>
  BY DEF Status
<1>2. up \in Upload /\ KeepsOutcome(u, up) /\ staged' \in [Uploads -> Seq(Bytes)]
  BY <1>1, OwnedUpload
<1>3. CASE Overfull(u)
  BY <1>1, <1>2, <1>3, RefuseStep DEF Status
<1>4. CASE ~ Overfull(u)
  <2> DEFINE what == CASE mem.uploads[u].status = "Completed" -> "completed"
                       [] mem.uploads[u].status = "Canceled" -> "canceled"
                       [] OTHER -> "progress"
  <2>1. SaveThen(With(u, up), Says(u, what))
    BY <1>4 DEF Status
  <2>2. mem.uploads[u].status \in {"Completed", "Canceled"} => up = mem.uploads[u]
    BY <1>1, OwnedUpload DEF KeepsOutcome, Final
  <2>3. Fitting(what, up)
    <3>1. CASE mem.uploads[u].status = "Completed"
      BY <2>2, <3>1 DEF Fitting
    <3>2. CASE mem.uploads[u].status = "Canceled"
      BY <2>2, <3>2 DEF Fitting
    <3>3. CASE mem.uploads[u].status \notin {"Completed", "Canceled"}
      BY <3>3 DEF Fitting
    <3> QED BY <3>1, <3>2, <3>3
  <2> QED BY <1>1, <1>2, <2>1, <2>3, SaveStep
<1> QED BY <1>3, <1>4

\* cancel_mobile_upload moves only uploads that are not completed.
LEMMA CancelStep ==
  ASSUME TypeOK, NEW s \in Sessions, NEW u \in Uploads, Cancel(s, u)
  PROVE  HandlerStep
<1> DEFINE up == [Reconciled(u) EXCEPT !.status = "Canceled"]
<1>1. Owns(s, u) /\ UNCHANGED <<db, acked, expired>>
  BY DEF Cancel
<1>2. /\ Reconciled(u) \in Upload /\ KeepsOutcome(u, Reconciled(u))
      /\ staged \in [Uploads -> Seq(Bytes)]
  BY <1>1, OwnedUpload
<1>3. CASE Overfull(u)
  BY <1>1, <1>2, <1>3, RefuseStep DEF Cancel
<1>4. CASE ~ Overfull(u)
  <2>1. SaveThen(With(u, up), Says(u, "canceled")) /\ RemoveStaging(u, staged[u])
    BY <1>4 DEF Cancel
  <2>2. up \in Upload /\ up.status = "Canceled"
    BY <1>2 DEF Upload, Statuses
  <2>3. KeepsOutcome(u, up)
    <3>1. SUFFICES ASSUME Final(mem.uploads[u]) PROVE up = mem.uploads[u]
      BY DEF KeepsOutcome
    <3>2. Reconciled(u) = mem.uploads[u]
      BY <1>2, <3>1 DEF KeepsOutcome
    <3>3. mem.uploads[u].status = "Canceled"
      BY <3>1 DEF Cancel, Cancelable, Final
    <3>4. mem.uploads[u] \in Upload
      BY <1>1, OwnedUpload
    <3> QED BY <3>2, <3>3, <3>4 DEF Upload
  <2>4. Fitting("canceled", up)
    BY <2>2 DEF Fitting
  <2>5. staged' \in [Uploads -> Seq(Bytes)]
    BY <1>2, <2>1, RemoveStagingType
  <2> HIDE DEF up
  <2> QED BY <1>1, <2>1, <2>2, <2>3, <2>4, <2>5, SaveStep
<1> QED BY <1>3, <1>4

-----------------------------------------------------------------------------
(* Completion from a staging file. *)

\* The state that importing an upload leaves is a library state.
LEMMA ImportWithType ==
  ASSUME mem \in LibraryState, NEW u \in Uploads, NEW up \in Upload,
         NEW data \in Seq(Bytes), NEW isSealed \in BOOLEAN
  PROVE  /\ ImportWith(u, up, data, isSealed) \in LibraryState
         /\ ImportWith(u, up, data, isSealed).uploads[u] \in Upload
         /\ isSealed => ImportWith(u, up, data, isSealed).uploads[u].status = "Completed"
         /\ \A v \in Uploads \ {u} :
               ImportWith(u, up, data, isSealed).uploads[v] = mem.uploads[v]
         /\ ImportWith(u, up, data, isSealed).sessions = mem.sessions
<1> DEFINE status == IF isSealed THEN "Completed" ELSE "Failed"
           done == [up EXCEPT !.status = status, !.asset = u]
           new == [id |-> u, data |-> data, sealed |-> isSealed, live |-> TRUE]
           w == With(u, done)
<1>1. status \in Statuses
  BY DEF Statuses
<1>2. done \in Upload /\ done.status = status
  BY <1>1 DEF Upload
<1>3. new \in Asset
  BY DEF Asset
<1>4. /\ w \in LibraryState /\ w.uploads[u] = done
      /\ \A v \in Uploads \ {u} : w.uploads[v] = mem.uploads[v]
      /\ w.sessions = mem.sessions
  <2> HIDE DEF done
  <2> QED BY <1>2, WithType
<1>5. ImportWith(u, up, data, isSealed) = [w EXCEPT !.assets = @ \cup {new}]
  BY DEF ImportWith
<1> HIDE DEF w, new, done
<1>6. /\ [w EXCEPT !.assets = @ \cup {new}] \in LibraryState
      /\ [w EXCEPT !.assets = @ \cup {new}].uploads = w.uploads
      /\ [w EXCEPT !.assets = @ \cup {new}].sessions = w.sessions
  BY <1>3, <1>4 DEF LibraryState
<1>7. isSealed => done.status = "Completed"
  BY <1>2 DEF done
<1> HIDE DEF status
<1> QED BY <1>2, <1>4, <1>5, <1>6, <1>7

\* complete_mobile_upload_from_staging, entered with an upload that is not final,
\* completes it or fails it.
LEMMA CompletionStep ==
  ASSUME TypeOK, NEW u \in Uploads, NEW up \in Upload, NEW data \in Seq(Bytes),
         ~ Final(mem.uploads[u]),
         CompleteFromStaging(u, up, data),
         UNCHANGED <<db, acked, expired>>
  PROVE  HandlerStep
<1>1. KeepsOutcome(u, up) /\ \A x : KeepsOutcome(u, x)
  BY DEF KeepsOutcome
<1>2. mem \in LibraryState /\ staged \in [Uploads -> Seq(Bytes)]
  BY DEF TypeOK
<1>3. CASE RejectHash(u, up, data)
  <2>1. [up EXCEPT !.status = "Failed"] \in Upload
    BY DEF Upload, Statuses
  <2>2. staged' \in [Uploads -> Seq(Bytes)]
    BY <1>3, RemoveStagingType DEF RejectHash
  <2> QED BY <1>1, <1>3, <2>1, <2>2, ErrorStep DEF RejectHash
<1>4. CASE ReuseDuplicate(u, up, data)
  <2>1. PICK a \in Duplicates(u, data) :
          SaveThen(With(u, [up EXCEPT !.status = "Completed", !.asset = a.id]),
                   Says(u, "completed"))
    BY <1>4 DEF ReuseDuplicate
  <2> DEFINE done == [up EXCEPT !.status = "Completed", !.asset = a.id]
  <2>2. a \in Asset /\ a.id \in Uploads
    BY <1>2, <2>1 DEF Duplicates, LibraryState, Asset
  <2>3. done \in Upload /\ done.status = "Completed"
    BY <2>2 DEF Upload, Statuses
  <2>4. staged' \in [Uploads -> Seq(Bytes)]
    BY <1>4, RemoveStagingType DEF ReuseDuplicate
  <2>5. SaveThen(With(u, done), Says(u, "completed"))
    BY <2>1
  <2> HIDE DEF done
  <2>6. Fitting("completed", done)
    BY <2>3 DEF Fitting
  <2> QED BY <1>1, <2>3, <2>4, <2>5, <2>6, SaveStep
<1>5. CASE Import(u, up, data)
  <2>1. \/ /\ SaveThen(ImportWith(u, up, data, TRUE), Says(u, "completed"))
           /\ RemoveStaging(u, data)
        \/ /\ SaveThen(ImportWith(u, up, data, FALSE), Says(None, "error"))
           /\ staged' = [staged EXCEPT ![u] = data]
        \/ /\ Refuse(With(u, up))
           /\ staged' = [staged EXCEPT ![u] = data]
    BY <1>5 DEF Import
  <2>2. staged' \in [Uploads -> Seq(Bytes)]
    BY <1>2, <2>1, RemoveStagingType
  <2>3. CASE SaveThen(ImportWith(u, up, data, TRUE), Says(u, "completed"))
    <3> DEFINE m == ImportWith(u, up, data, TRUE)
    <3>1. /\ m \in LibraryState /\ m.uploads[u] \in Upload
          /\ m.uploads[u].status = "Completed"
          /\ \A v \in Uploads \ {u} : m.uploads[v] = mem.uploads[v]
          /\ m.sessions = mem.sessions
      BY <1>2, ImportWithType
    <3>2. mem' = m /\ lock' = Says(u, "completed")
      BY <2>3 DEF SaveThen
    <3> HIDE DEF m
    <3>3. Fitting("completed", m.uploads[u])
      BY <3>1 DEF Fitting
    <3> QED BY <1>1, <2>2, <3>1, <3>2, <3>3, UpdateStep
  <2>4. CASE SaveThen(ImportWith(u, up, data, FALSE), Says(None, "error"))
    <3> DEFINE m == ImportWith(u, up, data, FALSE)
    <3>1. /\ m \in LibraryState /\ m.uploads[u] \in Upload
          /\ \A v \in Uploads \ {u} : m.uploads[v] = mem.uploads[v]
          /\ m.sessions = mem.sessions
      BY <1>2, ImportWithType
    <3>2. mem' = m /\ lock' = Says(None, "error")
      BY <2>4 DEF SaveThen
    <3> HIDE DEF m
    <3> QED BY <1>1, <2>2, <3>1, <3>2, UpdateStep
  <2>5. CASE Refuse(With(u, up))
    BY <1>1, <2>2, <2>5, RefuseStep
  <2> QED BY <2>1, <2>3, <2>4, <2>5
<1> QED BY <1>3, <1>4, <1>5 DEF CompleteFromStaging

\* An upload that is neither completed nor closed is not final.
LEMMA OpenUpload ==
  ASSUME TypeOK, NEW u \in Uploads, mem.uploads[u] # None,
         Reconciled(u).status \notin {"Completed", "Canceled"}
  PROVE  ~ Final(mem.uploads[u])
  BY ReconciledType DEF Final

\* complete_mobile_upload leaves completed and closed uploads as they are.
LEMMA CompleteStep ==
  ASSUME TypeOK, NEW s \in Sessions, NEW u \in Uploads, Complete(s, u)
  PROVE  HandlerStep
<1> DEFINE up == Reconciled(u)
           short == [up EXCEPT !.status = IF up.received = 0 THEN "Pending" ELSE "Running"]
<1>1. /\ Owns(s, u) /\ ~ Closed(mem.uploads[u])
      /\ UNCHANGED <<db, acked, expired>>
  BY DEF Complete
<1>2. /\ mem.uploads[u] # None /\ mem.uploads[u] \in Upload
      /\ up \in Upload /\ KeepsOutcome(u, up)
      /\ staged \in [Uploads -> Seq(Bytes)] /\ staged[u] \in Seq(Bytes)
  BY <1>1, OwnedUpload
<1>3. CASE up.status = "Completed"
  <2>1. mem.uploads[u].status = "Completed"
    BY <1>1, <1>2, <1>3, ReconciledType DEF Final
  <2>2. SaveThen(mem, Says(u, "completed")) /\ UNCHANGED staged
    BY <1>3 DEF Complete
  <2> QED BY <1>1, <1>2, <2>1, <2>2, CompletedStep
<1>4. CASE up.status # "Completed" /\ Overfull(u)
  <2>1. Refuse(With(u, up)) /\ UNCHANGED staged
    BY <1>4 DEF Complete
  <2> QED BY <1>1, <1>2, <2>1, RefuseStep
<1>5. CASE up.status # "Completed" /\ ~ Overfull(u)
  <2>1. up.status # "Canceled"
    BY <1>1, <1>2, ReconciledType DEF Closed, Final
  <2>2. ~ Final(mem.uploads[u])
    BY <1>2, <1>5, <2>1, OpenUpload
  <2>3. CASE up.received # Total
    <3>1. SaveThen(With(u, short), Says(None, "error")) /\ UNCHANGED staged
      BY <1>5, <2>3 DEF Complete
    <3>2. short \in Upload
      BY <1>2 DEF Upload, Statuses
    <3>3. KeepsOutcome(u, short)
      BY <2>2 DEF KeepsOutcome
    <3> HIDE DEF short
    <3> QED BY <1>1, <1>2, <3>1, <3>2, <3>3, ErrorStep
  <2>4. CASE up.received = Total
    <3>1. CompleteFromStaging(u, up, staged[u])
      BY <1>5, <2>4 DEF Complete
    <3> QED BY <1>1, <1>2, <2>2, <3>1, CompletionStep
  <2> QED BY <2>3, <2>4
<1> QED BY <1>3, <1>4, <1>5

-----------------------------------------------------------------------------
(* Receiving bytes. *)

\* A body on the wire is a sequence of bytes.
LEMMA BodyType ==
  ASSUME NEW offset \in Nat, NEW n \in Nat, NEW good \in BOOLEAN,
         offset + n <= Total
  PROVE  Body(offset, n, good) \in Seq(Bytes)
<1> DEFINE e == [i \in 1 .. n |-> IF good THEN offset + i ELSE 0]
<1>1. \A i \in 1 .. n : (IF good THEN offset + i ELSE 0) \in Bytes
  BY UploadAssumption DEF Bytes
<1>2. e \in [1 .. n -> Bytes]
  BY <1>1
<1>3. e \in Seq(Bytes)
  <2> HIDE DEF e
  <2> QED BY <1>2, SeqDef
<1> QED BY <1>3 DEF Body

\* Appending a body to a staging file leaves a table of staging files.
LEMMA AppendType ==
  ASSUME TypeOK, NEW u \in Uploads, NEW b \in Seq(Bytes),
         staged' = [staged EXCEPT ![u] = @ \o b]
  PROVE  staged' \in [Uploads -> Seq(Bytes)]
<1>1. staged[u] \o b \in Seq(Bytes)
  BY StagedType, ConcatProperties
<1> QED BY <1>1 DEF TypeOK

\* receive_mobile_upload_chunk leaves completed and closed uploads as they are.
LEMMA ReceiveChunkStep ==
  ASSUME TypeOK, NEW s \in Sessions, NEW u \in Uploads, NEW offset \in 0 .. Total,
         NEW n \in 1 .. Total, NEW good \in BOOLEAN,
         ReceiveChunk(s, u, offset, n, good)
  PROVE  HandlerStep
<1> DEFINE up == Reconciled(u)
           end == offset + n
           grown == [up EXCEPT !.status = "Running", !.received = end]
<1>1. Owns(s, u) /\ UNCHANGED <<db, acked, expired>>
  BY DEF ReceiveChunk
<1>2. /\ mem.uploads[u] # None /\ mem.uploads[u] \in Upload
      /\ up \in Upload /\ KeepsOutcome(u, up)
      /\ staged \in [Uploads -> Seq(Bytes)]
  BY <1>1, OwnedUpload
<1>3. CASE /\ up.status = "Completed"
           /\ SaveThen(mem, Says(u, "completed"))
           /\ UNCHANGED staged
  <2>1. mem.uploads[u].status = "Completed"
    BY <1>2, <1>3, ReconciledType DEF Final
  <2> QED BY <1>1, <1>2, <1>3, <2>1, CompletedStep
<1>4. CASE Refuse(With(u, up)) /\ UNCHANGED staged
  BY <1>1, <1>2, <1>4, RefuseStep
<1>5. CASE /\ SaveThen(With(u, up), Says(u, "progress"))
           /\ UNCHANGED staged
  <2>1. Fitting("progress", up)
    BY DEF Fitting
  <2> QED BY <1>1, <1>2, <1>5, <2>1, SaveStep
<1>6. CASE /\ up.status \in {"Pending", "Running"}
           /\ Fits(end) /\ Appendable(u, up, offset)
           /\ staged' = [staged EXCEPT ![u] = @ \o Body(offset, n, good)]
           /\ SaveThen(With(u, grown), Says(u, "progress"))
  <2>1. end \in 0 .. Total /\ offset \in Nat /\ n \in Nat
    BY <1>6, UploadAssumption DEF Fits
  <2>2. staged' \in [Uploads -> Seq(Bytes)]
    <3>1. offset + n <= Total
      BY <2>1, UploadAssumption
    <3>2. Body(offset, n, good) \in Seq(Bytes)
      BY <2>1, <3>1, BodyType
    <3> QED BY <1>6, <3>2, AppendType
  <2>3. KeepsOutcome(u, grown)
    BY <1>2, <1>6, OpenUpload DEF KeepsOutcome
  <2> HIDE DEF end
  <2>4. grown \in Upload
    BY <1>2, <2>1 DEF Upload, Statuses
  <2> HIDE DEF grown
  <2>5. Fitting("progress", grown)
    BY DEF Fitting
  <2> QED BY <1>1, <1>6, <2>2, <2>3, <2>4, <2>5, SaveStep
<1>7. CASE /\ Fits(end)
           /\ \E k \in 0 .. n - 1 :
                staged' = [staged EXCEPT ![u] = @ \o Body(offset, k, good)]
           /\ Refuse(With(u, up))
  <2>1. PICK k \in 0 .. n - 1 :
               staged' = [staged EXCEPT ![u] = @ \o Body(offset, k, good)]
    BY <1>7
  <2>2. k \in Nat /\ offset \in Nat /\ offset + k <= Total
    BY <1>7, UploadAssumption DEF Fits
  <2>3. staged' \in [Uploads -> Seq(Bytes)]
    BY <2>1, <2>2, BodyType, AppendType
  <2> QED BY <1>1, <1>2, <1>7, <2>3, RefuseStep
<1> QED BY <1>3, <1>4, <1>5, <1>6, <1>7 DEF ReceiveChunk

\* receive_mobile_upload, which takes the original in one body, does so too.
LEMMA ReceiveWholeStep ==
  ASSUME TypeOK, NEW s \in Sessions, NEW u \in Uploads, NEW n \in 1 .. Total,
         NEW good \in BOOLEAN, ReceiveWhole(s, u, n, good)
  PROVE  HandlerStep
<1> DEFINE up == mem.uploads[u]
           running == [up EXCEPT !.status = "Running", !.received = Total]
<1>1. Owns(s, u) /\ UNCHANGED <<db, acked, expired>>
  BY DEF ReceiveWhole
<1>2. up # None /\ up \in Upload /\ staged \in [Uploads -> Seq(Bytes)]
  BY <1>1, OwnedUpload
<1>3. running \in Upload
  <2>1. Total \in 0 .. Total
    BY UploadAssumption
  <2> QED BY <1>2, <2>1 DEF Upload, Statuses
<1>4. up.status \in {"Pending", "Running"} =>
         ~ Final(up) /\ \A x : KeepsOutcome(u, x)
  BY DEF Final, KeepsOutcome
<1>5. CASE /\ up.status = "Completed"
           /\ SaveThen(mem, Says(u, "completed"))
           /\ UNCHANGED staged
  BY <1>1, <1>2, <1>5, CompletedStep
<1>6. CASE /\ up.status \in {"Pending", "Running"}
           /\ SaveThen(With(u, [up EXCEPT !.status = "Failed"]), Says(None, "error"))
           /\ UNCHANGED staged
  <2>1. [up EXCEPT !.status = "Failed"] \in Upload
    BY <1>2 DEF Upload, Statuses
  <2> QED BY <1>1, <1>2, <1>4, <1>6, <2>1, ErrorStep
<1>7. CASE /\ up.status \in {"Pending", "Running"}
           /\ n = Total
           /\ CompleteFromStaging(u, running, Body(0, n, good))
  <2>1. n \in Nat /\ 0 + n <= Total
    BY <1>7, UploadAssumption
  <2>2. Body(0, n, good) \in Seq(Bytes)
    BY <2>1, BodyType
  <2> HIDE DEF running
  <2> QED BY <1>1, <1>3, <1>4, <1>7, <2>2, CompletionStep
<1>8. CASE /\ up.status \in {"Pending", "Running"}
           /\ n = Total
           /\ \E k \in 0 .. n - 1 :
                staged' = [staged EXCEPT ![u] = Body(0, k, good)]
           /\ Refuse(With(u, running))
  <2>1. PICK k \in 0 .. n - 1 : staged' = [staged EXCEPT ![u] = Body(0, k, good)]
    BY <1>8
  <2>2. k \in Nat /\ 0 + k <= Total
    BY <1>8, UploadAssumption
  <2>3. Body(0, k, good) \in Seq(Bytes)
    BY <2>2, BodyType
  <2>4. staged' \in [Uploads -> Seq(Bytes)]
    BY <1>2, <2>1, <2>3
  <2> HIDE DEF running
  <2> QED BY <1>1, <1>3, <1>4, <1>8, <2>4, RefuseStep
<1> QED BY <1>5, <1>6, <1>7, <1>8 DEF ReceiveWhole

-----------------------------------------------------------------------------
(* Sessions, the trash, and the passing of time. *)

\* A step that changes only sessions, and revives none.
LEMMA SessionsStep ==
  ASSUME TypeOK,
         NEW ss \in [Sessions -> {"none", "active", "revoked"}],
         \A s \in Sessions : mem.sessions[s] = "revoked" => ss[s] = "revoked",
         mem' = [mem EXCEPT !.sessions = ss],
         lock' \in Reply, MatchesReply(lock', mem'),
         UNCHANGED <<db, staged, acked, expired>>
  PROVE  HandlerStep
<1>1. mem' \in LibraryState /\ mem'.uploads = mem.uploads /\ mem'.sessions = ss
  BY DEF TypeOK, LibraryState
<1>2. Behind(mem, mem')
  BY <1>1 DEF Behind
<1> QED BY <1>1, <1>2 DEF HandlerStep, TypeOK

\* refresh_mobile_session revokes an active session and activates an unused one.
LEMMA RefreshSessionStep ==
  ASSUME TypeOK, NEW s \in Sessions, NEW new \in Sessions, RefreshSession(s, new)
  PROVE  HandlerStep
<1> DEFINE ss == [mem.sessions EXCEPT ![s] = "revoked", ![new] = "active"]
<1>1. mem.sessions \in [Sessions -> {"none", "active", "revoked"}]
  BY DEF TypeOK, LibraryState
<1>2. /\ ss \in [Sessions -> {"none", "active", "revoked"}]
      /\ \A t \in Sessions : mem.sessions[t] = "revoked" => ss[t] = "revoked"
  BY <1>1 DEF RefreshSession
<1>3. mem' = [mem EXCEPT !.sessions = ss]
  BY DEF RefreshSession, SaveThen
<1>4. lock' = Says(new, "issued")
  BY DEF RefreshSession, SaveThen
<1>5. lock' \in Reply /\ MatchesReply(lock', mem')
  BY <1>4, SaysType DEF Says, MatchesReply
<1>6. UNCHANGED <<db, staged, acked, expired>>
  BY DEF RefreshSession
<1> HIDE DEF ss
<1> QED BY <1>2, <1>3, <1>5, <1>6, SessionsStep

\* revoke_mobile_session revokes an active session.
LEMMA RevokeSessionStep ==
  ASSUME TypeOK, NEW s \in Sessions, RevokeSession(s)
  PROVE  HandlerStep
<1> DEFINE ss == [mem.sessions EXCEPT ![s] = "revoked"]
<1>1. mem.sessions \in [Sessions -> {"none", "active", "revoked"}]
  BY DEF TypeOK, LibraryState
<1>2. /\ ss \in [Sessions -> {"none", "active", "revoked"}]
      /\ \A t \in Sessions : mem.sessions[t] = "revoked" => ss[t] = "revoked"
      /\ ss[s] = "revoked"
  BY <1>1
<1>3. mem' = [mem EXCEPT !.sessions = ss] /\ lock' = Says(s, "revoked")
  BY DEF RevokeSession, SaveThen
<1>4. UNCHANGED <<db, staged, acked, expired>>
  BY DEF RevokeSession
<1> HIDE DEF ss
<1>5. mem'.sessions = ss
  BY <1>3 DEF TypeOK, LibraryState
<1>6. lock' \in Reply /\ MatchesReply(lock', mem')
  BY <1>2, <1>3, <1>5, SaysType DEF Says, MatchesReply
<1> QED BY <1>2, <1>3, <1>4, <1>6, SessionsStep

\* Trashing or restoring an entry touches neither uploads nor sessions.
LEMMA SetTrashedStep ==
  ASSUME TypeOK, NEW a \in mem.assets, NEW isLive \in BOOLEAN, SetTrashed(a, isLive)
  PROVE  HandlerStep
<1> DEFINE as == (mem.assets \ {a}) \cup {[a EXCEPT !.live = isLive]}
<1>1. mem.assets \subseteq Asset
  BY DEF TypeOK, LibraryState
<1>2. as \subseteq Asset
  <2>1. [a EXCEPT !.live = isLive] \in Asset
    BY <1>1 DEF Asset
  <2> QED BY <1>1, <2>1
<1>3. mem' = [mem EXCEPT !.assets = as] /\ lock' = Says(None, "progress")
  BY DEF SetTrashed, SaveThen
<1>4. UNCHANGED <<db, staged, acked, expired>>
  BY DEF SetTrashed
<1> HIDE DEF as
<1>5. /\ mem' \in LibraryState
      /\ mem'.uploads = mem.uploads /\ mem'.sessions = mem.sessions
  BY <1>2, <1>3 DEF TypeOK, LibraryState
<1>6. Behind(mem, mem')
  BY <1>5 DEF Behind
<1>7. lock' \in Reply /\ MatchesReply(lock', mem')
  BY <1>3, SaysType DEF Says, MatchesReply
<1> QED BY <1>4, <1>5, <1>6, <1>7 DEF HandlerStep, TypeOK

\* A step of a handler, whichever it is.
LEMMA UploadHandlerStep ==
  ASSUME TypeOK, NEW s \in Sessions, NEW u \in Uploads, UploadStep(s, u)
  PROVE  HandlerStep
  BY ReserveStep, StatusStep, CancelStep, CompleteStep, ReceiveChunkStep,
     ReceiveWholeStep DEF UploadStep

-----------------------------------------------------------------------------
(* The invariant. *)

\* A handler step preserves the invariant: the database stands still and memory
\* does not fall behind it.
LEMMA HandlerPreserves == ASSUME IInv, HandlerStep PROVE IInv'
<1>1. TypeOK'
  BY DEF IInv, TypeOK, HandlerStep
<1>2. Behind(db, mem)'
  <2>1. Behind(db, mem')
    BY BehindTrans DEF IInv, HandlerStep
  <2>2. db' = db
    BY DEF HandlerStep
  <2> QED BY <2>1, <2>2 DEF Behind
<1>3. MatchesReply(lock, mem)'
  BY DEF HandlerStep, MatchesReply
<1>4. (\A r \in acked : MatchesReply(r, db))'
  BY DEF IInv, HandlerStep, MatchesReply
<1> QED BY <1>1, <1>2, <1>3, <1>4 DEF IInv

\* The end of a session promises nothing.
LEMMA ExpirePreserves ==
  ASSUME IInv, NEW s \in Sessions, Expire(s) PROVE IInv'
<1>1. TypeOK'
  BY DEF IInv, TypeOK, Expire
<1> QED BY <1>1 DEF IInv, Expire, Behind, MatchesReply

\* A save that commits preserves the invariant: memory was not behind the
\* database, and the reply that goes out is true of memory.
LEMMA PersistPreserves == ASSUME IInv, Persist PROVE IInv'
<1>1. mem' = mem /\ db' = mem /\ lock' = Free /\ acked' \subseteq acked \cup {lock}
      /\ lock # Free /\ staged' = staged /\ expired' = expired
  BY DEF Persist
<1>2. TypeOK'
  BY <1>1 DEF IInv, TypeOK
<1>3. Behind(db, mem)'
  BY <1>1, BehindRefl DEF Behind
<1>4. MatchesReply(lock, mem)'
  BY <1>1, FreeMatches DEF MatchesReply
<1>5. ASSUME NEW r \in acked' PROVE MatchesReply(r, db')
  <2>1. CASE r \in acked
    BY <1>1, <2>1, ReplyMonotonic DEF IInv
  <2>2. CASE r = lock
    BY <1>1, <2>2 DEF IInv
  <2> QED BY <1>1, <2>1, <2>2
<1>6. (\A r \in acked : MatchesReply(r, db))'
  BY <1>5 DEF MatchesReply
<1> QED BY <1>2, <1>3, <1>4, <1>6 DEF IInv

\* A save that fails preserves it: the reply is dropped.
LEMMA PersistFailsPreserves == ASSUME IInv, PersistFails PROVE IInv'
<1>1. TypeOK'
  BY DEF IInv, TypeOK, PersistFails
<1>2. MatchesReply(lock, mem)'
  BY FreeMatches DEF PersistFails, MatchesReply
<1> QED BY <1>1, <1>2 DEF IInv, PersistFails, Behind, MatchesReply

\* A restart preserves it: memory is the database, and no reply is under way.
LEMMA CrashPreserves == ASSUME IInv, Crash PROVE IInv'
<1>1. TypeOK'
  BY DEF IInv, TypeOK, Crash
<1>2. MatchesReply(lock, mem)'
  BY FreeMatches DEF Crash, MatchesReply
<1>3. Behind(db, mem)'
  BY BehindRefl DEF Crash, Behind
<1> QED BY <1>1, <1>2, <1>3 DEF IInv, Crash, MatchesReply

\* IInv holds initially.
LEMMA InitEstablishes == Init => IInv
<1> SUFFICES ASSUME Init PROVE IInv
  OBVIOUS
<1>1. TypeOK
  <2>1. mem \in LibraryState
    BY DEF Init, LibraryState
  <2>2. staged \in [Uploads -> Seq(Bytes)]
    BY EmptySeq DEF Init
  <2>3. Says(FirstSession, "issued") \in Reply
    BY UploadAssumption, SaysType
  <2> QED BY <2>1, <2>2, <2>3 DEF Init, TypeOK
<1>2. Behind(db, mem)
  BY BehindRefl DEF Init
<1>3. MatchesReply(lock, mem)
  BY FreeMatches DEF Init
<1>4. \A r \in acked : MatchesReply(r, db)
  BY DEF Init, Says, MatchesReply
<1> QED BY <1>1, <1>2, <1>3, <1>4 DEF IInv

\* Every step of the specification preserves it.
LEMMA NextPreserves == IInv /\ [Next]_vars => IInv'
<1> SUFFICES ASSUME IInv, [Next]_vars PROVE IInv'
  OBVIOUS
<1> USE DEF IInv
<1>1. CASE \E s \in Sessions, u \in Uploads : UploadStep(s, u)
  BY <1>1, UploadHandlerStep, HandlerPreserves
<1>2. CASE \E s, new \in Sessions : RefreshSession(s, new)
  BY <1>2, RefreshSessionStep, HandlerPreserves
<1>3. CASE \E s \in Sessions : RevokeSession(s) \/ Expire(s)
  BY <1>3, RevokeSessionStep, HandlerPreserves, ExpirePreserves
<1>4. CASE \E a \in mem.assets, isLive \in BOOLEAN : SetTrashed(a, isLive)
  BY <1>4, SetTrashedStep, HandlerPreserves
<1>5. CASE Persist
  BY <1>5, PersistPreserves
<1>6. CASE PersistFails
  BY <1>6, PersistFailsPreserves
<1>7. CASE Crash
  BY <1>7, CrashPreserves
<1>8. CASE UNCHANGED vars
  BY <1>8 DEF vars, TypeOK, Behind, MatchesReply
<1> QED BY <1>1, <1>2, <1>3, <1>4, <1>5, <1>6, <1>7, <1>8 DEF Next

\* The inductive invariant holds in every reachable state.
THEOREM Invariance == Spec => []IInv
<1>1. Init => IInv
  BY InitEstablishes
<1>2. IInv /\ [Next]_vars => IInv'
  BY NextPreserves
<1> QED BY <1>1, <1>2, PTL DEF Spec

-----------------------------------------------------------------------------
(* The theorems. *)

\* Every variable stays within its data; in particular the counter of an
\* upload never passes the reserved size, chunks, retries and crashes included.
THEOREM TypeCorrect == Spec => []TypeOK
<1>1. IInv => TypeOK
  BY DEF IInv
<1> QED BY <1>1, Invariance, PTL

\* What a device was told (reserved, completed, canceled, revoked) is what the
\* database holds, after any number of failed saves and restarts.
THEOREM RepliesAreDurable == Spec => []AckedIsDurable
<1>1. IInv => AckedIsDurable
  BY DEF IInv, MatchesReply, AckedIsDurable
<1> QED BY <1>1, Invariance, PTL

\* No save and no restart takes an upload out of Completed or Canceled in the
\* database, or gives it another asset.
THEOREM OutcomesAreFinal == Spec => OutcomeIsFinal
<1> DEFINE Step == \A u \in Uploads :
         (db.uploads[u] # None /\ db.uploads[u].status \in {"Completed", "Canceled"})
         => db'.uploads[u] = db.uploads[u]
<1>1. db' = db \/ Persist \/ ~ [Next]_vars \/ ~ IInv
  <2>1. ASSUME IInv, [Next]_vars PROVE db' = db \/ Persist
    <3>1. CASE \E s \in Sessions, u \in Uploads : UploadStep(s, u)
      BY <2>1, <3>1, UploadHandlerStep DEF IInv, HandlerStep
    <3> QED BY <2>1, <3>1 DEF Next, RefreshSession, RevokeSession, Expire,
               SetTrashed, PersistFails, Crash, vars
  <2> QED BY <2>1
<1>2. IInv /\ [Next]_vars => [Step]_vars
  <2> SUFFICES ASSUME IInv, [Next]_vars PROVE Step
    OBVIOUS
  <2>1. CASE db' = db
    BY <2>1
  <2>2. CASE Persist
    BY <2>2 DEF IInv, Behind, Final, Persist
  <2> QED BY <1>1, <2>1, <2>2
<1>3. Spec => []IInv
  BY Invariance
<1> QED BY <1>2, <1>3, PTL DEF Spec, OutcomeIsFinal


-----------------------------------------------------------------------------
(* The bytes.  What a completed upload names was made of its own staging    *)
(* file, or is a duplicate of it; the session an upload is bound to and the *)
(* assets that were imported never leave memory before the database.        *)

\* Bytes that may be a beginning of u's original.
SoundBytes(u, data) == Len(data) <= Total /\ (u \notin Corrupting => Intact(data))

\* The asset a is what the completed upload up of u promises.
HasOriginal(a, up, u) ==
    /\ a.id = up.asset /\ PhotoOf[a.id] = PhotoOf[u] /\ a.sealed /\ Len(a.data) = Total
    /\ up.hashed \/ u \notin Corrupting => Intact(a.data)

Delivered(m) ==
    \A u \in Uploads : (m.uploads[u] # None /\ m.uploads[u].status = "Completed") =>
        \E a \in m.assets : HasOriginal(a, m.uploads[u], u)

\* The uploads of m are bound to the same sessions in n, and its assets are there.
BoundAlike(m, n) ==
    \A u \in Uploads : m.uploads[u] # None =>
        n.uploads[u] # None /\ n.uploads[u].session = m.uploads[u].session
KeepsAssets(m, n) == \A a \in m.assets : \E b \in n.assets : b.id = a.id

\* The inductive invariant of the contents, beside IInv.
ContentInv ==
    /\ \A u \in Uploads : SoundBytes(u, staged[u])
    /\ Delivered(mem) /\ Delivered(db)
    /\ BoundAlike(db, mem) /\ KeepsAssets(db, mem)

\* What a handler that was asked about u does to the contents.
UploadOutcome(u) ==
    /\ \A v \in Uploads \ {u} : /\ staged'[v] = staged[v]
                                /\ mem'.uploads[v] = mem.uploads[v]
    /\ SoundBytes(u, staged'[u])
    /\ mem.assets \subseteq mem'.assets
    /\ \A a \in mem'.assets : a \in mem.assets \/ a.id = u
    /\ mem.uploads[u] # None =>
          mem'.uploads[u] # None /\ mem'.uploads[u].session = mem.uploads[u].session
    /\ (mem'.uploads[u] # None /\ mem'.uploads[u].status = "Completed") =>
          \/ mem'.uploads[u] = mem.uploads[u]
          \/ \E a \in mem'.assets : HasOriginal(a, mem'.uploads[u], u)
    /\ (mem.uploads[u] # None /\ mem.uploads[u].status = "Canceled") =>
          Len(staged'[u]) <= Len(staged[u]) /\ mem'.assets = mem.assets

\* Reconciling keeps the binding of an upload, and an open one counts its file.
LEMMA ReconciledKeeps ==
  ASSUME TypeOK, NEW u \in Uploads, mem.uploads[u] # None
  PROVE  /\ Reconciled(u).session = mem.uploads[u].session
         /\ Reconciled(u).status = "Completed" => Reconciled(u) = mem.uploads[u]
         /\ Reconciled(u).status \in {"Pending", "Running"} =>
               Reconciled(u).received = Len(staged[u])
<1> DEFINE up == mem.uploads[u]
           len == Len(staged[u])
           status == IF len = 0 THEN "Pending" ELSE "Running"
<1>1. up \in Upload
  BY UploadType DEF TypeOK
<1>2. CASE up.status \notin {"Pending", "Running"} \/ len = up.received
  <2>1. Reconciled(u) = up
    BY <1>2 DEF Reconciled
  <2> QED BY <1>2, <2>1
<1>3. CASE up.status \in {"Pending", "Running"} /\ len # up.received /\ len > Total
  <2>1. Reconciled(u) = [up EXCEPT !.status = "Failed"]
    BY <1>3 DEF Reconciled
  <2>2. Reconciled(u).status = "Failed" /\ Reconciled(u).session = up.session
    BY <1>1, <2>1 DEF Upload
  <2> QED BY <2>2
<1>4. CASE up.status \in {"Pending", "Running"} /\ len # up.received /\ ~ (len > Total)
  <2>1. Reconciled(u) = [up EXCEPT !.received = len, !.status = status]
    BY <1>4 DEF Reconciled
  <2>2. status # "Completed"
    OBVIOUS
  <2> HIDE DEF status, len
  <2>3. Reconciled(u).status = status /\ Reconciled(u).session = up.session
        /\ Reconciled(u).received = len
    BY <1>1, <2>1 DEF Upload
  <2> QED BY <2>2, <2>3 DEF len
<1> QED BY <1>2, <1>3, <1>4

\* A handler that rewrites the row of u, and imports nothing.
LEMMA RowOutcome ==
  ASSUME TypeOK, NEW u \in Uploads, NEW up \in Upload, mem' = With(u, up),
         mem.uploads[u] # None => up.session = mem.uploads[u].session,
         up.status = "Completed" => up = mem.uploads[u],
         \A v \in Uploads \ {u} : staged'[v] = staged[v],
         SoundBytes(u, staged'[u]),
         (mem.uploads[u] # None /\ mem.uploads[u].status = "Canceled") =>
             Len(staged'[u]) <= Len(staged[u])
  PROVE  UploadOutcome(u)
<1>1. /\ mem'.uploads[u] = up /\ mem'.assets = mem.assets
      /\ \A v \in Uploads \ {u} : mem'.uploads[v] = mem.uploads[v]
  BY WithType DEF TypeOK
<1>2. up # None
  BY UploadIsSome
<1> QED BY <1>1, <1>2 DEF UploadOutcome

\* A handler that changes nothing but its reply.
LEMMA SameOutcome ==
  ASSUME TypeOK, ContentInv, NEW u \in Uploads, mem' = mem, staged' = staged
  PROVE  UploadOutcome(u)
<1>1. Len(staged[u]) \in Nat
  BY StagedType
<1> QED BY <1>1 DEF UploadOutcome, ContentInv

\* A staging directory that goes, or does not, has sound bytes in it.
LEMMA RemovedIsSound ==
  ASSUME TypeOK, NEW u \in Uploads, NEW data \in Seq(Bytes), SoundBytes(u, data),
         RemoveStaging(u, data)
  PROVE  /\ \A v \in Uploads \ {u} : staged'[v] = staged[v]
         /\ SoundBytes(u, staged'[u])
         /\ Len(staged'[u]) <= Len(data)
<1>1. PICK left \in {<<>>, data} : staged' = [staged EXCEPT ![u] = left]
  BY DEF RemoveStaging
<1>2. staged'[u] = left /\ \A v \in Uploads \ {u} : staged'[v] = staged[v]
  BY <1>1 DEF TypeOK
<1>3. Len(data) \in Nat /\ Total \in Nat
  BY LenProperties, UploadAssumption
<1>4. SoundBytes(u, <<>>) /\ Len(<<>>) = 0
  BY <1>3 DEF SoundBytes, Intact
<1> QED BY <1>1, <1>2, <1>3, <1>4

\* complete_mobile_upload_from_staging makes the asset of the staged bytes, all of
\* them, or finds one that has the same.
LEMMA CompletionOutcome ==
  ASSUME TypeOK, NEW u \in Uploads, NEW up \in Upload, NEW data \in Seq(Bytes),
         SoundBytes(u, data), Len(data) = Total,
         mem.uploads[u] # None, mem.uploads[u].status # "Canceled",
         up.session = mem.uploads[u].session, up.status # "Completed",
         CompleteFromStaging(u, up, data)
  PROVE  UploadOutcome(u)
<1>1. mem \in LibraryState /\ staged \in [Uploads -> Seq(Bytes)]
  BY DEF TypeOK
<1>2. ~HashMismatch(up, data) => (up.hashed \/ u \notin Corrupting => Intact(data))
  BY DEF HashMismatch, SoundBytes
<1>3. CASE RejectHash(u, up, data)
  <2> DEFINE failed == [up EXCEPT !.status = "Failed"]
  <2>1. failed \in Upload /\ failed.status = "Failed" /\ failed.session = up.session
    BY DEF Upload, Statuses
  <2>2. mem' = With(u, failed)
    BY <1>3 DEF RejectHash, SaveThen
  <2> HIDE DEF failed
  <2>3. /\ \A v \in Uploads \ {u} : staged'[v] = staged[v]
        /\ SoundBytes(u, staged'[u])
    BY <1>3, RemovedIsSound DEF RejectHash
  <2> QED BY <2>1, <2>2, <2>3, RowOutcome
<1>4. CASE ReuseDuplicate(u, up, data)
  <2>1. PICK a \in Duplicates(u, data) :
          SaveThen(With(u, [up EXCEPT !.status = "Completed", !.asset = a.id]),
                   Says(u, "completed"))
    BY <1>4 DEF ReuseDuplicate
  <2> DEFINE done == [up EXCEPT !.status = "Completed", !.asset = a.id]
  <2>2. a \in mem.assets /\ a \in Asset /\ SameContent(a, u, data) /\ a.sealed
    BY <1>1, <2>1 DEF Duplicates, LibraryState
  <2>3. done \in Upload /\ done.asset = a.id /\ done.hashed = up.hashed
        /\ done.session = up.session
    BY <2>2 DEF Upload, Statuses, Asset
  <2>4. mem' = With(u, done)
    BY <2>1 DEF SaveThen
  <2> HIDE DEF done
  <2>5. /\ mem'.uploads[u] = done /\ mem'.assets = mem.assets
        /\ \A v \in Uploads \ {u} : mem'.uploads[v] = mem.uploads[v]
    BY <1>1, <2>3, <2>4, WithType
  <2>6. HasOriginal(a, done, u)
    BY <1>2, <1>4, <2>2, <2>3 DEF HasOriginal, SameContent, ReuseDuplicate
  <2>7. /\ \A v \in Uploads \ {u} : staged'[v] = staged[v]
        /\ SoundBytes(u, staged'[u])
    BY <1>4, RemovedIsSound DEF ReuseDuplicate
  <2>8. done # None
    BY <2>3, UploadIsSome
  <2> QED BY <2>2, <2>3, <2>5, <2>6, <2>7, <2>8 DEF UploadOutcome
<1>5. CASE Import(u, up, data)
  <2>1. \/ /\ mem' = ImportWith(u, up, data, TRUE)
           /\ RemoveStaging(u, data)
        \/ /\ mem' = ImportWith(u, up, data, FALSE)
           /\ staged' = [staged EXCEPT ![u] = data]
        \/ /\ mem' = With(u, up)
           /\ staged' = [staged EXCEPT ![u] = data]
    BY <1>5 DEF Import, SaveThen, Refuse
  <2>2. /\ \A v \in Uploads \ {u} : staged'[v] = staged[v]
        /\ SoundBytes(u, staged'[u])
    BY <1>1, <2>1, RemovedIsSound
  <2>3. ASSUME NEW isSealed \in BOOLEAN, mem' = ImportWith(u, up, data, isSealed)
        PROVE  UploadOutcome(u)
    <3> DEFINE status == IF isSealed THEN "Completed" ELSE "Failed"
               done == [up EXCEPT !.status = status, !.asset = u]
               new == [id |-> u, data |-> data, sealed |-> isSealed, live |-> TRUE]
    <3>1. mem' = [With(u, done) EXCEPT !.assets = @ \cup {new}]
      BY <2>3 DEF ImportWith
    <3>2. new.id = u /\ new.data = data /\ new.sealed = isSealed
      OBVIOUS
    <3>3. status \in Statuses /\ (status = "Completed" => isSealed)
      BY DEF Statuses
    <3> HIDE DEF new, status
    <3>4. done \in Upload /\ done.asset = u /\ done.hashed = up.hashed
          /\ done.session = up.session /\ done.status = status
      BY <3>3 DEF Upload
    <3> HIDE DEF done
    <3>5. /\ With(u, done) \in LibraryState
          /\ With(u, done).uploads[u] = done /\ With(u, done).assets = mem.assets
          /\ \A v \in Uploads \ {u} : With(u, done).uploads[v] = mem.uploads[v]
      BY <1>1, <3>4, WithType
    <3>6. /\ mem'.uploads[u] = done /\ mem'.assets = mem.assets \cup {new}
          /\ \A v \in Uploads \ {u} : mem'.uploads[v] = mem.uploads[v]
      BY <3>1, <3>5 DEF LibraryState
    <3>7. isSealed => HasOriginal(new, done, u)
      BY <1>2, <1>5, <3>2, <3>4 DEF HasOriginal, Import
    <3>8. done # None
      BY <3>4, UploadIsSome
    <3> QED BY <2>2, <3>2, <3>3, <3>4, <3>6, <3>7, <3>8 DEF UploadOutcome
  <2>4. CASE mem' = With(u, up)
    BY <2>2, <2>4, RowOutcome
  <2> QED BY <2>1, <2>3, <2>4
<1> QED BY <1>3, <1>4, <1>5 DEF CompleteFromStaging


\* reserve_mobile_upload.
LEMMA ReserveOutcome ==
  ASSUME TypeOK, ContentInv, NEW s \in Sessions, NEW u \in Uploads, NEW hashed \in BOOLEAN,
         Reserve(s, u, hashed)
  PROVE  UploadOutcome(u) /\ mem.uploads[u] = None
<1> DEFINE up == [session |-> s, hashed |-> hashed, status |-> "Pending",
                  received |-> 0, asset |-> None]
<1>1. up \in Upload /\ up.status = "Pending"
  BY UploadAssumption DEF Upload, Statuses
<1>2. mem' = With(u, up) /\ staged' = staged /\ mem.uploads[u] = None
  BY DEF Reserve, SaveThen
<1> HIDE DEF up
<1> QED BY <1>1, <1>2, RowOutcome DEF ContentInv

\* A request that names an upload comes from the session it is bound to, which
\* is active.
LEMMA OwnerIsActive ==
  ASSUME NEW s \in Sessions, NEW u \in Uploads, Active(s), Owns(s, u)
  PROVE  mem.uploads[u] # None /\ mem.sessions[mem.uploads[u].session] = "active"
  BY DEF Active, Owns

\* mobile_upload_status.
LEMMA StatusOutcome ==
  ASSUME TypeOK, ContentInv, NEW s \in Sessions, NEW u \in Uploads, Status(s, u)
  PROVE  UploadOutcome(u)
<1> DEFINE up == Reconciled(u)
<1>1. Owns(s, u) /\ staged' = staged /\ mem' = With(u, up)
  BY DEF Status, SaveThen, Refuse
<1>2. mem.uploads[u] # None /\ up \in Upload
  BY <1>1, OwnedUpload
<1>3. up.session = mem.uploads[u].session /\ (up.status = "Completed" => up = mem.uploads[u])
  BY <1>2, ReconciledKeeps
<1>4. Len(staged[u]) \in Nat /\ SoundBytes(u, staged[u])
  BY StagedType DEF ContentInv
<1> HIDE DEF up
<1> QED BY <1>1, <1>2, <1>3, <1>4, RowOutcome

\* cancel_mobile_upload.
LEMMA CancelOutcome ==
  ASSUME TypeOK, ContentInv, NEW s \in Sessions, NEW u \in Uploads, Cancel(s, u)
  PROVE  UploadOutcome(u)
<1> DEFINE up == Reconciled(u)
           canceled == [up EXCEPT !.status = "Canceled"]
<1>1. mem.uploads[u] # None /\ up \in Upload
  BY OwnedUpload DEF Cancel
<1>2. up.session = mem.uploads[u].session /\ (up.status = "Completed" => up = mem.uploads[u])
  BY <1>1, ReconciledKeeps
<1>3. Len(staged[u]) \in Nat /\ SoundBytes(u, staged[u]) /\ staged[u] \in Seq(Bytes)
  BY StagedType DEF ContentInv
<1>4. canceled \in Upload /\ canceled.session = up.session /\ canceled.status = "Canceled"
  BY <1>1 DEF Upload, Statuses
<1>5. CASE Overfull(u)
  <2>1. mem' = With(u, up) /\ staged' = staged
    BY <1>5 DEF Cancel, Refuse
  <2> HIDE DEF up
  <2> QED BY <1>1, <1>2, <1>3, <2>1, RowOutcome
<1>6. CASE ~Overfull(u)
  <2>1. mem' = With(u, canceled) /\ RemoveStaging(u, staged[u])
    BY <1>6 DEF Cancel, SaveThen
  <2>2. /\ \A v \in Uploads \ {u} : staged'[v] = staged[v]
        /\ SoundBytes(u, staged'[u]) /\ Len(staged'[u]) <= Len(staged[u])
    BY <1>3, <2>1, RemovedIsSound
  <2> HIDE DEF up, canceled
  <2> QED BY <1>2, <1>4, <2>1, <2>2, RowOutcome
<1> QED BY <1>5, <1>6

\* Reconciling fails an open upload only when its file outgrew the reservation.
LEMMA OnlyOverfullFails ==
  ASSUME TypeOK, NEW u \in Uploads, mem.uploads[u] # None, ~Overfull(u),
         mem.uploads[u].status \in {"Pending", "Running"}
  PROVE  Reconciled(u).status # "Failed"
<1> DEFINE up == mem.uploads[u]
           len == Len(staged[u])
<1>1. up \in Upload /\ ~(len > Total)
  BY UploadType DEF TypeOK, Overfull
<1>2. CASE len = up.received
  BY <1>2 DEF Reconciled
<1>3. CASE len # up.received
  <2> DEFINE status == IF len = 0 THEN "Pending" ELSE "Running"
  <2>1. Reconciled(u) = [up EXCEPT !.received = len, !.status = status]
    BY <1>1, <1>3 DEF Reconciled
  <2>2. status # "Failed"
    OBVIOUS
  <2> HIDE DEF status, len
  <2> QED BY <1>1, <2>1, <2>2 DEF Upload
<1> QED BY <1>2, <1>3

\* complete_mobile_upload goes on only when all the bytes are staged.
LEMMA CompleteOutcome ==
  ASSUME TypeOK, ContentInv, NEW s \in Sessions, NEW u \in Uploads, Complete(s, u)
  PROVE  UploadOutcome(u)
<1> DEFINE up == Reconciled(u)
           short == [up EXCEPT !.status = IF up.received = 0 THEN "Pending" ELSE "Running"]
<1>1. mem.uploads[u] # None /\ up \in Upload
  BY OwnedUpload DEF Complete
<1>2. /\ up.session = mem.uploads[u].session
      /\ up.status = "Completed" => up = mem.uploads[u]
      /\ up.status \in {"Pending", "Running"} => up.received = Len(staged[u])
  BY <1>1, ReconciledKeeps
<1>3. Len(staged[u]) \in Nat /\ SoundBytes(u, staged[u]) /\ staged[u] \in Seq(Bytes)
  BY StagedType DEF ContentInv
<1>4. CASE up.status = "Completed"
  <2>1. mem' = mem /\ staged' = staged
    BY <1>4 DEF Complete, SaveThen
  <2> QED BY <2>1, SameOutcome
<1>5. CASE up.status # "Completed" /\ Overfull(u)
  <2>1. mem' = With(u, up) /\ staged' = staged
    BY <1>5 DEF Complete, Refuse
  <2> HIDE DEF up
  <2> QED BY <1>1, <1>2, <1>3, <1>5, <2>1, RowOutcome
<1>6. CASE up.status # "Completed" /\ ~Overfull(u) /\ up.received # Total
  <2>1. mem' = With(u, short) /\ staged' = staged
    BY <1>6 DEF Complete, SaveThen
  <2>2. short \in Upload /\ short.session = up.session /\ short.status # "Completed"
    BY <1>1 DEF Upload, Statuses
  <2> HIDE DEF up, short
  <2> QED BY <1>1, <1>2, <1>3, <2>1, <2>2, RowOutcome
<1>7. CASE up.status # "Completed" /\ ~Overfull(u) /\ up.received = Total
  <2>1. CompleteFromStaging(u, up, staged[u]) /\ ~Closed(mem.uploads[u])
    BY <1>7 DEF Complete
  <2>2. mem.uploads[u].status \in {"Pending", "Running"}
    <3>1. mem.uploads[u] \in Upload /\ mem.uploads[u].status \in Statuses
      BY <1>1, UploadType DEF TypeOK, Upload
    <3>2. mem.uploads[u].status = "Completed" => up = mem.uploads[u]
      BY <1>1, ReconciledType
    <3> QED BY <1>7, <2>1, <3>1, <3>2 DEF Closed, Statuses
  <2>3. up.status \in {"Pending", "Running"}
    <3>1. up.status \in {"Pending", "Running", "Failed"}
      BY <1>1, <2>2, ReconciledType
    <3>2. up.status # "Failed"
      BY <1>1, <1>7, <2>2, OnlyOverfullFails
    <3> QED BY <3>1, <3>2
  <2>4. Len(staged[u]) = Total
    BY <1>2, <1>7, <2>3
  <2> HIDE DEF up
  <2> QED BY <1>1, <1>2, <1>3, <1>7, <2>1, <2>2, <2>4, CompletionOutcome
<1> QED BY <1>4, <1>5, <1>6, <1>7

\* What a chunk adds to sound bytes where they end is sound.
LEMMA AppendedIsSound ==
  ASSUME TypeOK, ContentInv, NEW u \in Uploads, NEW k \in Nat, NEW good \in BOOLEAN,
         MayCarry(u, good), Len(staged[u]) + k <= Total,
         staged' = [staged EXCEPT ![u] = @ \o Body(Len(staged[u]), k, good)]
  PROVE  /\ \A v \in Uploads \ {u} : staged'[v] = staged[v]
         /\ SoundBytes(u, staged'[u])
<1> DEFINE old == staged[u]
           b == Body(Len(old), k, good)
<1>1. old \in Seq(Bytes) /\ Len(old) \in Nat /\ SoundBytes(u, old)
  BY StagedType DEF ContentInv
<1>2. b \in Seq(Bytes)
  BY <1>1, BodyType
<1>3. Len(b) = k /\ \A i \in 1 .. k : b[i] = IF good THEN Len(old) + i ELSE 0
  <2>1. b = [i \in 1 .. k |-> IF good THEN Len(old) + i ELSE 0]
    BY DEF Body
  <2>2. DOMAIN b = 1 .. k /\ \A i \in 1 .. k : b[i] = IF good THEN Len(old) + i ELSE 0
    BY <2>1
  <2> HIDE DEF b
  <2> QED BY <1>2, <2>2, LenProperties
<1>4. staged'[u] = old \o b /\ \A v \in Uploads \ {u} : staged'[v] = staged[v]
  BY DEF TypeOK
<1> HIDE DEF b, old
<1>5. /\ Len(old \o b) = Len(old) + Len(b)
      /\ \A i \in 1 .. Len(old) + Len(b) :
            (old \o b)[i] = IF i <= Len(old) THEN old[i] ELSE b[i - Len(old)]
  BY <1>1, <1>2, ConcatProperties
<1>6. Len(old \o b) <= Total
  BY <1>3, <1>5 DEF old
<1>7. ASSUME u \notin Corrupting PROVE Intact(old \o b)
  <2>1. good = TRUE /\ \A i \in 1 .. Len(old) : old[i] = i
    BY <1>1, <1>7 DEF MayCarry, SoundBytes, Intact
  <2>2. ASSUME NEW i \in 1 .. Len(old) + k PROVE (old \o b)[i] = i
    <3>1. CASE i <= Len(old)
      BY <1>1, <1>3, <1>5, <2>1, <2>2, <3>1
    <3>2. CASE ~(i <= Len(old))
      <4>1. i - Len(old) \in 1 .. k
        BY <1>1, <2>2, <3>2
      <4>2. (old \o b)[i] = b[i - Len(old)]
        BY <1>3, <1>5, <2>2, <3>2
      <4>3. b[i - Len(old)] = Len(old) + (i - Len(old))
        BY <1>3, <2>1, <4>1
      <4> QED BY <1>1, <4>1, <4>2, <4>3
    <3> QED BY <3>1, <3>2
  <2> QED BY <1>3, <1>5, <2>2 DEF Intact
<1> QED BY <1>4, <1>6, <1>7 DEF SoundBytes

\* receive_mobile_upload_chunk.
LEMMA ReceiveChunkOutcome ==
  ASSUME TypeOK, ContentInv, NEW s \in Sessions, NEW u \in Uploads, NEW offset \in 0 .. Total,
         NEW n \in 1 .. Total, NEW good \in BOOLEAN,
         ReceiveChunk(s, u, offset, n, good)
  PROVE  UploadOutcome(u)
<1> DEFINE up == Reconciled(u)
           end == offset + n
           grown == [up EXCEPT !.status = "Running", !.received = end]
<1>1. mem.uploads[u] # None /\ up \in Upload /\ MayCarry(u, good)
  BY OwnedUpload DEF ReceiveChunk
<1>2. /\ up.session = mem.uploads[u].session
      /\ up.status = "Completed" => up = mem.uploads[u]
      /\ mem.uploads[u].status = "Canceled" => up.status = "Canceled"
  BY <1>1, ReconciledKeeps, ReconciledType
<1>3. Len(staged[u]) \in Nat /\ SoundBytes(u, staged[u]) /\ staged[u] \in Seq(Bytes)
  BY StagedType DEF ContentInv
<1>4. CASE mem' = mem /\ staged' = staged
  BY <1>4, SameOutcome
<1>5. CASE mem' = With(u, up) /\ staged' = staged
  <2> HIDE DEF up
  <2> QED BY <1>1, <1>2, <1>3, <1>5, RowOutcome
<1>6. CASE /\ up.status \in {"Pending", "Running"}
           /\ Fits(end) /\ Appendable(u, up, offset)
           /\ staged' = [staged EXCEPT ![u] = @ \o Body(offset, n, good)]
           /\ mem' = With(u, grown)
  <2>1. end \in 0 .. Total /\ n \in Nat /\ offset = Len(staged[u])
    BY <1>6, UploadAssumption DEF Fits, Appendable
  <2>2. /\ \A v \in Uploads \ {u} : staged'[v] = staged[v]
        /\ SoundBytes(u, staged'[u])
    BY <1>1, <1>6, <2>1, AppendedIsSound DEF Fits
  <2> HIDE DEF end
  <2>3. grown \in Upload /\ grown.session = up.session /\ grown.status = "Running"
    BY <1>1, <2>1 DEF Upload, Statuses
  <2>4. mem.uploads[u].status # "Canceled"
    BY <1>2, <1>6
  <2> HIDE DEF grown, up
  <2> QED BY <1>1, <1>2, <1>6, <2>2, <2>3, <2>4, RowOutcome
<1>7. CASE /\ up.status \in {"Pending", "Running"}
           /\ Fits(end) /\ Appendable(u, up, offset)
           /\ \E k \in 0 .. n - 1 :
                staged' = [staged EXCEPT ![u] = @ \o Body(offset, k, good)]
           /\ mem' = With(u, up)
  <2>1. PICK k \in 0 .. n - 1 :
               staged' = [staged EXCEPT ![u] = @ \o Body(offset, k, good)]
    BY <1>7
  <2>2. k \in Nat /\ offset = Len(staged[u]) /\ Len(staged[u]) + k <= Total
    BY <1>7, UploadAssumption DEF Fits, Appendable
  <2>3. /\ \A v \in Uploads \ {u} : staged'[v] = staged[v]
        /\ SoundBytes(u, staged'[u])
    BY <1>1, <2>1, <2>2, AppendedIsSound
  <2>4. mem.uploads[u].status # "Canceled"
    BY <1>2, <1>7
  <2> HIDE DEF up
  <2> QED BY <1>1, <1>2, <1>7, <2>3, <2>4, RowOutcome
<1> QED BY <1>4, <1>5, <1>6, <1>7 DEF ReceiveChunk, SaveThen, Refuse

\* A body from the first byte on is a beginning of the original.
LEMMA BodyIsSound ==
  ASSUME NEW u \in Uploads, NEW k \in Nat, k <= Total, NEW good \in BOOLEAN, MayCarry(u, good)
  PROVE  /\ Body(0, k, good) \in Seq(Bytes) /\ Len(Body(0, k, good)) = k
         /\ SoundBytes(u, Body(0, k, good))
<1> DEFINE b == Body(0, k, good)
<1>1. b \in Seq(Bytes)
  BY BodyType, UploadAssumption
<1>2. b = [i \in 1 .. k |-> IF good THEN 0 + i ELSE 0]
  BY DEF Body
<1>3. DOMAIN b = 1 .. k /\ \A i \in 1 .. k : b[i] = IF good THEN 0 + i ELSE 0
  BY <1>2
<1> HIDE DEF b
<1>4. Len(b) = k
  BY <1>1, <1>3, LenProperties
<1>5. u \notin Corrupting => Intact(b)
  BY <1>3, <1>4 DEF MayCarry, Intact
<1> QED BY <1>1, <1>4, <1>5 DEF SoundBytes, b

\* receive_mobile_upload truncates the staging file and takes every byte or fails.
LEMMA ReceiveWholeOutcome ==
  ASSUME TypeOK, ContentInv, NEW s \in Sessions, NEW u \in Uploads, NEW n \in 1 .. Total,
         NEW good \in BOOLEAN, ReceiveWhole(s, u, n, good)
  PROVE  UploadOutcome(u)
<1> DEFINE up == mem.uploads[u]
           running == [up EXCEPT !.status = "Running", !.received = Total]
           failed == [up EXCEPT !.status = "Failed"]
<1>1. up # None /\ up \in Upload /\ MayCarry(u, good) /\ Total \in Nat
  BY OwnedUpload, UploadAssumption DEF ReceiveWhole
<1>2. running \in Upload /\ running.session = up.session /\ running.status = "Running"
  <2>1. Total \in 0 .. Total
    BY UploadAssumption
  <2> QED BY <1>1, <2>1 DEF Upload, Statuses
<1>3. failed \in Upload /\ failed.session = up.session /\ failed.status = "Failed"
  BY <1>1 DEF Upload, Statuses
<1>4. Len(staged[u]) \in Nat /\ SoundBytes(u, staged[u])
  BY StagedType DEF ContentInv
<1>5. CASE mem' = mem /\ staged' = staged
  BY <1>5, SameOutcome
<1>6. CASE /\ up.status \in {"Pending", "Running"}
           /\ mem' = With(u, failed) /\ staged' = staged
  <2> HIDE DEF failed
  <2> QED BY <1>1, <1>3, <1>4, <1>6, RowOutcome
<1>7. CASE /\ up.status \in {"Pending", "Running"}
           /\ n = Total
           /\ CompleteFromStaging(u, running, Body(0, n, good))
  <2> HIDE DEF running
  <2>1. /\ Body(0, n, good) \in Seq(Bytes) /\ Len(Body(0, n, good)) = Total
        /\ SoundBytes(u, Body(0, n, good))
    BY <1>1, <1>7, BodyIsSound
  <2> QED BY <1>1, <1>2, <1>7, <2>1, CompletionOutcome
<1>8. CASE /\ up.status \in {"Pending", "Running"}
           /\ \E k \in 0 .. n - 1 :
                staged' = [staged EXCEPT ![u] = Body(0, k, good)]
           /\ mem' = With(u, running)
  <2> HIDE DEF running
  <2>1. PICK k \in 0 .. n - 1 : staged' = [staged EXCEPT ![u] = Body(0, k, good)]
    BY <1>8
  <2>2. k \in Nat /\ k <= Total
    BY <1>1
  <2>3. SoundBytes(u, Body(0, k, good))
    BY <1>1, <2>2, BodyIsSound
  <2>4. staged'[u] = Body(0, k, good) /\ \A v \in Uploads \ {u} : staged'[v] = staged[v]
    BY <2>1 DEF TypeOK
  <2>5. up.status # "Canceled"
    BY <1>8
  <2> QED BY <1>1, <1>2, <1>8, <2>3, <2>4, <2>5, RowOutcome
<1> QED BY <1>5, <1>6, <1>7, <1>8 DEF ReceiveWhole, SaveThen, Refuse


\* What any upload handler does, and whose session it ran under.
LEMMA UploadStepOutcome ==
  ASSUME TypeOK, ContentInv, NEW s \in Sessions, NEW u \in Uploads, UploadStep(s, u)
  PROVE  /\ UploadOutcome(u)
         /\ mem.uploads[u] # None => mem.sessions[mem.uploads[u].session] = "active"
<1>1. CASE \E hashed \in BOOLEAN : Reserve(s, u, hashed)
  BY <1>1, ReserveOutcome
<1>2. CASE Status(s, u)
  BY <1>2, StatusOutcome, OwnerIsActive DEF Status
<1>3. CASE Cancel(s, u)
  BY <1>3, CancelOutcome, OwnerIsActive DEF Cancel
<1>4. CASE Complete(s, u)
  BY <1>4, CompleteOutcome, OwnerIsActive DEF Complete
<1>5. CASE \E offset \in 0 .. Total, n \in 1 .. Total, good \in BOOLEAN :
             ReceiveChunk(s, u, offset, n, good)
  <2>1. PICK offset \in 0 .. Total, n \in 1 .. Total, good \in BOOLEAN :
                ReceiveChunk(s, u, offset, n, good)
    BY <1>5, Zenon
  <2>2. UploadOutcome(u)
    BY <2>1, ReceiveChunkOutcome, Zenon
  <2>3. Active(s) /\ Owns(s, u)
    BY <2>1, Zenon DEF ReceiveChunk
  <2>4. mem.uploads[u] # None /\ mem.sessions[mem.uploads[u].session] = "active"
    BY <2>3, OwnerIsActive, Zenon
  <2> QED BY <2>2, <2>4
<1>6. CASE \E n \in 1 .. Total, good \in BOOLEAN : ReceiveWhole(s, u, n, good)
  BY <1>6, ReceiveWholeOutcome, OwnerIsActive DEF ReceiveWhole
<1> QED BY <1>1, <1>2, <1>3, <1>4, <1>5, <1>6 DEF UploadStep

\* An upload handler keeps the invariant of the contents.
LEMMA OutcomeKeepsContent ==
  ASSUME TypeOK, ContentInv, NEW u \in Uploads, UploadOutcome(u), db' = db
  PROVE  ContentInv'
<1>1. ASSUME NEW v \in Uploads PROVE SoundBytes(v, staged'[v])
  <2>1. CASE v = u
    BY <2>1 DEF UploadOutcome
  <2>2. CASE v # u
    BY <2>2 DEF UploadOutcome, ContentInv
  <2> QED BY <2>1, <2>2
<1>2. ASSUME NEW v \in Uploads, mem'.uploads[v] # None, mem'.uploads[v].status = "Completed"
      PROVE  \E a \in mem'.assets : HasOriginal(a, mem'.uploads[v], v)
  <2>1. mem.assets \subseteq mem'.assets
    BY DEF UploadOutcome
  <2>2. CASE mem'.uploads[v] = mem.uploads[v]
    BY <1>2, <2>1, <2>2 DEF ContentInv, Delivered
  <2>3. CASE v = u /\ mem'.uploads[v] # mem.uploads[v]
    BY <1>2, <2>3 DEF UploadOutcome
  <2> QED BY <2>2, <2>3 DEF UploadOutcome
<1>3. ASSUME NEW v \in Uploads, db.uploads[v] # None
      PROVE  mem'.uploads[v] # None /\ mem'.uploads[v].session = db.uploads[v].session
  <2>1. mem.uploads[v] # None /\ mem.uploads[v].session = db.uploads[v].session
    BY <1>3 DEF ContentInv, BoundAlike
  <2>2. CASE v = u
    BY <2>1, <2>2 DEF UploadOutcome
  <2>3. CASE v # u
    BY <2>1, <2>3 DEF UploadOutcome
  <2> QED BY <2>2, <2>3
<1>4. \A a \in db.assets : \E b \in mem'.assets : b.id = a.id
  BY DEF UploadOutcome, ContentInv, KeepsAssets
<1>5. (\A v \in Uploads : SoundBytes(v, staged[v]))'
  BY <1>1 DEF SoundBytes, Intact
<1>6. Delivered(mem)'
  BY <1>2 DEF Delivered, HasOriginal, Intact
<1>7. Delivered(db)' /\ BoundAlike(db, mem)' /\ KeepsAssets(db, mem)'
  BY <1>3, <1>4 DEF ContentInv, Delivered, HasOriginal, Intact, BoundAlike, KeepsAssets
<1> QED BY <1>5, <1>6, <1>7 DEF ContentInv

\* A step that keeps the uploads, and an asset for each asset with the same bytes.
Alike(m, n) ==
    /\ n.uploads = m.uploads
    /\ \A a \in m.assets : \E b \in n.assets :
          b.id = a.id /\ b.data = a.data /\ b.sealed = a.sealed
    /\ \A b \in n.assets : \E a \in m.assets : a.id = b.id

\* Such a step keeps the invariant of the contents.
LEMMA AlikeKeepsContent ==
  ASSUME ContentInv, Alike(mem, mem'), UNCHANGED <<staged, db>>
  PROVE  ContentInv'
<1>1. ASSUME NEW u \in Uploads, mem'.uploads[u] # None, mem'.uploads[u].status = "Completed"
      PROVE  \E b \in mem'.assets : HasOriginal(b, mem'.uploads[u], u)
  <2>1. PICK a \in mem.assets : HasOriginal(a, mem.uploads[u], u)
    BY <1>1 DEF Alike, ContentInv, Delivered
  <2>2. PICK b \in mem'.assets : b.id = a.id /\ b.data = a.data /\ b.sealed = a.sealed
    BY DEF Alike
  <2>3. mem'.uploads[u] = mem.uploads[u]
    BY DEF Alike
  <2>4. HasOriginal(b, mem'.uploads[u], u)
    BY <2>1, <2>2, <2>3 DEF HasOriginal
  <2> QED BY <2>4
<1>2. Delivered(mem)'
  BY <1>1 DEF Delivered, HasOriginal, Intact
<1>3. (\A u \in Uploads : SoundBytes(u, staged[u]))'
  BY DEF ContentInv, SoundBytes, Intact
<1>4. Delivered(db)' /\ BoundAlike(db, mem)' /\ KeepsAssets(db, mem)'
  BY DEF ContentInv, Delivered, HasOriginal, Intact, BoundAlike, KeepsAssets, Alike
<1> QED BY <1>2, <1>3, <1>4 DEF ContentInv

\* Trashing an asset, or taking it out of the trash, leaves its bytes.
LEMMA SetTrashedAlike ==
  ASSUME TypeOK, NEW a \in mem.assets, NEW isLive \in BOOLEAN, SetTrashed(a, isLive)
  PROVE  Alike(mem, mem')
<1> DEFINE c == [a EXCEPT !.live = isLive]
<1>1. a \in Asset
  BY DEF TypeOK, LibraryState
<1>2. c.id = a.id /\ c.data = a.data /\ c.sealed = a.sealed
  BY <1>1 DEF Asset
<1>3. mem' = [mem EXCEPT !.assets = (@ \ {a}) \cup {c}]
  BY DEF SetTrashed, SaveThen
<1> HIDE DEF c
<1>4. mem'.uploads = mem.uploads /\ mem'.assets = (mem.assets \ {a}) \cup {c}
  BY <1>3 DEF TypeOK, LibraryState
<1> QED BY <1>2, <1>4 DEF Alike

\* A step about sessions leaves uploads and assets.
LEMMA SessionsAlike ==
  ASSUME TypeOK, NEW ss, mem' = [mem EXCEPT !.sessions = ss]
  PROVE  Alike(mem, mem')
<1>1. mem'.uploads = mem.uploads /\ mem'.assets = mem.assets
  BY DEF TypeOK, LibraryState
<1> QED BY <1>1 DEF Alike

\* Every step that no device asked for an upload with.
LEMMA OtherStepAlike ==
  ASSUME TypeOK,
         \/ \E s, new \in Sessions : RefreshSession(s, new)
         \/ \E s \in Sessions : RevokeSession(s) \/ Expire(s)
         \/ \E a \in mem.assets, isLive \in BOOLEAN : SetTrashed(a, isLive)
         \/ PersistFails \/ UNCHANGED vars
  PROVE  Alike(mem, mem') /\ UNCHANGED <<staged, db>>
<1>1. CASE \E s, new \in Sessions : RefreshSession(s, new)
  <2>1. PICK s \in Sessions, new \in Sessions : RefreshSession(s, new)
    BY <1>1
  <2> DEFINE ss == [mem.sessions EXCEPT ![s] = "revoked", ![new] = "active"]
  <2>2. mem' = [mem EXCEPT !.sessions = ss] /\ UNCHANGED <<staged, db>>
    BY <2>1 DEF RefreshSession, SaveThen
  <2> HIDE DEF ss
  <2> QED BY <2>2, SessionsAlike
<1>2. CASE \E s \in Sessions : RevokeSession(s)
  <2>1. PICK s \in Sessions : RevokeSession(s)
    BY <1>2
  <2> DEFINE ss == [mem.sessions EXCEPT ![s] = "revoked"]
  <2>2. mem' = [mem EXCEPT !.sessions = ss] /\ UNCHANGED <<staged, db>>
    BY <2>1 DEF RevokeSession, SaveThen
  <2> HIDE DEF ss
  <2> QED BY <2>2, SessionsAlike
<1>3. CASE \E a \in mem.assets, isLive \in BOOLEAN : SetTrashed(a, isLive)
  BY <1>3, SetTrashedAlike DEF SetTrashed
<1>4. CASE (\E s \in Sessions : Expire(s)) \/ PersistFails \/ UNCHANGED vars
  BY <1>4 DEF Expire, PersistFails, vars, Alike
<1> QED BY <1>1, <1>2, <1>3, <1>4

\* A save makes the database what memory is.
LEMMA PersistKeepsContent == ASSUME ContentInv, Persist PROVE ContentInv'
<1>1. mem' = mem /\ db' = mem /\ staged' = staged
  BY DEF Persist
<1>2. BoundAlike(db, mem)' /\ KeepsAssets(db, mem)'
  BY <1>1 DEF BoundAlike, KeepsAssets
<1> QED BY <1>1, <1>2 DEF ContentInv, SoundBytes, Delivered, HasOriginal, Intact

\* A restart makes memory what the database is.
LEMMA CrashKeepsContent == ASSUME ContentInv, Crash PROVE ContentInv'
<1>1. mem' = db /\ db' = db /\ staged' = staged
  BY DEF Crash
<1>2. BoundAlike(db, mem)' /\ KeepsAssets(db, mem)'
  BY <1>1 DEF BoundAlike, KeepsAssets
<1> QED BY <1>1, <1>2 DEF ContentInv, SoundBytes, Delivered, HasOriginal, Intact

\* Nothing is staged or imported at first.
LEMMA InitHasContent == Init => ContentInv
<1> SUFFICES ASSUME Init PROVE ContentInv
  OBVIOUS
<1>1. \A u \in Uploads : staged[u] = <<>> /\ mem.uploads[u] = None /\ db.uploads[u] = None
  BY DEF Init
<1>2. \A u \in Uploads : SoundBytes(u, staged[u])
  BY <1>1, UploadAssumption DEF SoundBytes, Intact
<1>3. mem.assets = {} /\ db.assets = {}
  BY DEF Init
<1> QED BY <1>1, <1>2, <1>3 DEF ContentInv, Delivered, BoundAlike, KeepsAssets

\* The invariant of the contents holds in every reachable state.
THEOREM ContentInvariance == Spec => []ContentInv
<1>1. Init => ContentInv
  BY InitHasContent
<1>2. IInv /\ ContentInv /\ [Next]_vars => ContentInv'
  <2> SUFFICES ASSUME IInv, ContentInv, [Next]_vars PROVE ContentInv'
    OBVIOUS
  <2>1. TypeOK
    BY DEF IInv
  <2>2. CASE \E s \in Sessions, u \in Uploads : UploadStep(s, u)
    BY <2>1, <2>2, UploadStepOutcome, UploadHandlerStep, OutcomeKeepsContent DEF HandlerStep
  <2>3. CASE \/ \E s, new \in Sessions : RefreshSession(s, new)
             \/ \E s \in Sessions : RevokeSession(s) \/ Expire(s)
             \/ \E a \in mem.assets, isLive \in BOOLEAN : SetTrashed(a, isLive)
             \/ PersistFails \/ UNCHANGED vars
    BY <2>1, <2>3, OtherStepAlike, AlikeKeepsContent
  <2>4. CASE Persist
    BY <2>4, PersistKeepsContent
  <2>5. CASE Crash
    BY <2>5, CrashKeepsContent
  <2> QED BY <2>2, <2>3, <2>4, <2>5 DEF Next
<1> QED BY <1>1, <1>2, Invariance, PTL DEF Spec

\* Whatever chunks are lost, repeated, cut short or resumed after a crash, the
\* staging file is a beginning of the original, and what an upload reports as
\* completed is a sealed asset with every byte of it, in memory and in the
\* database; only a damaging link without a checksum may change the bytes.
THEOREM UploadedIsTheOriginal == Spec => []BytesAreTheOriginal
<1>1. ContentInv => StagedIsPrefix
  BY DEF ContentInv, SoundBytes, StagedIsPrefix
<1>2. ContentInv => CompletedIsTheOriginal
  BY DEF ContentInv, Delivered, HasOriginal, CompletedIsTheOriginal
<1> QED BY <1>1, <1>2, ContentInvariance, PTL DEF BytesAreTheOriginal

\* No step stores a byte for an upload, or imports it, once its cancellation or
\* the revocation of its session is saved: memory knows of both, and the
\* handlers ask memory.
THEOREM RevokedUploadsAreInert == Spec => RevokedOrCanceledIsInert
<1> DEFINE Ended(u) ==
             /\ db.uploads[u] # None
             /\ \/ db.uploads[u].status = "Canceled"
                \/ db.sessions[db.uploads[u].session] = "revoked"
           Inert(u) ==
             /\ Len(staged'[u]) <= Len(staged[u])
             /\ \A a \in mem'.assets : a.id = u => \E b \in mem.assets : b.id = u
           Step == \A u \in Uploads : Ended(u) => Inert(u)
<1>1. ASSUME IInv, ContentInv, [Next]_vars, NEW u \in Uploads, Ended(u) PROVE Inert(u)
  <2>1. TypeOK /\ Len(staged[u]) \in Nat
    BY <1>1, StagedType DEF IInv
  <2>2. CASE \E s \in Sessions, v \in Uploads : UploadStep(s, v)
    <3>1. PICK s \in Sessions, v \in Uploads : UploadStep(s, v)
      BY <2>2
    <3>2. UploadOutcome(v)
          /\ (mem.uploads[v] # None => mem.sessions[mem.uploads[v].session] = "active")
      BY <1>1, <2>1, <3>1, UploadStepOutcome
    <3>3. CASE v = u
      <4>1. mem.uploads[u] # None /\ mem.uploads[u].session = db.uploads[u].session
        BY <1>1 DEF ContentInv, BoundAlike
      <4>2. db.uploads[u].session \in Sessions
        BY <1>1, <2>1, UploadType DEF TypeOK, Upload
      <4>3. db.sessions[db.uploads[u].session] # "revoked"
        BY <1>1, <3>2, <3>3, <4>1, <4>2 DEF IInv, Behind
      <4>4. mem.uploads[u].status = "Canceled"
        BY <1>1, <4>3 DEF IInv, Behind, Final
      <4> QED BY <3>2, <3>3, <4>1, <4>4 DEF UploadOutcome
    <3>4. CASE v # u
      <4>1. staged'[u] = staged[u]
        BY <3>2, <3>4 DEF UploadOutcome
      <4>2. \A a \in mem'.assets : a.id = u => a \in mem.assets
        BY <3>2, <3>4 DEF UploadOutcome
      <4> QED BY <2>1, <4>1, <4>2
    <3> QED BY <3>3, <3>4
  <2>3. CASE \/ \E s, new \in Sessions : RefreshSession(s, new)
             \/ \E s \in Sessions : RevokeSession(s) \/ Expire(s)
             \/ \E a \in mem.assets, isLive \in BOOLEAN : SetTrashed(a, isLive)
             \/ PersistFails \/ UNCHANGED vars
    <3>1. Alike(mem, mem') /\ staged' = staged
      BY <2>1, <2>3, OtherStepAlike
    <3> QED BY <2>1, <3>1 DEF Alike
  <2>4. CASE Persist
    BY <2>1, <2>4 DEF Persist
  <2>5. CASE Crash
    <3>1. mem' = db /\ staged' = staged
      BY <2>5 DEF Crash
    <3> QED BY <1>1, <2>1, <3>1 DEF ContentInv, KeepsAssets
  <2> QED BY <1>1, <2>2, <2>3, <2>4, <2>5 DEF Next
<1>2. IInv /\ ContentInv /\ [Next]_vars => [Step]_vars
  BY <1>1
<1>3. Spec => [][Step]_vars
  <2> HIDE DEF Step
  <2> QED BY <1>2, Invariance, ContentInvariance, PTL DEF Spec
<1> QED BY <1>3 DEF RevokedOrCanceledIsInert
=============================================================================
