---------------------------- MODULE LibraryProofs ----------------------------
(***************************************************************************)
(* Theorems about how originals come to the library and stay in it:         *)
(* OriginalStore and ImportSessions.                                        *)
(***************************************************************************)
EXTENDS OriginalStore, ImportSessions, SortingProofs, SequenceTheorems

-----------------------------------------------------------------------------
(***************************************************************************)
(* Theorems about OriginalStore, for any number of desktops and phones, any *)
(* replica minimum, import modes and policies: an original whose import was *)
(* acknowledged stays readable somewhere.                                   *)
(*                                                                          *)
(* The argument.  Until the rows of the seal are saved, the chunk file they *)
(* name is the last that was sealed; nobody else has the blob yet.  Once    *)
(* they are saved, memory and database name the same sealing for good: a    *)
(* new seal needs a readable original without a chunk file, and the two     *)
(* removals of a chunk file (a new import, an eviction) leave no readable   *)
(* original behind.  So whatever peers, pulls and pushes carry is of that   *)
(* sealing, and the eviction of the file leaves a peer that has it.         *)
(***************************************************************************)

\* Rows belong to an asset, and memory knows what is saved.
RowsBelong(m, b) ==
    /\ m.asset = "none" => m.rows = 0
    /\ b.asset = "none" => b.rows = 0
    /\ b.asset # "none" => m.asset = b.asset

\* Rows in memory that are not saved yet are of the last seal.
UnsavedIsSealed(m, b, d) ==
    b.rows = 0 => m.healthy = {} /\ (m.rows # 0 => m.placed /\ d.file = m.rows)

\* Nothing is left to seal.
Settled(l, d) == IsReadable(l, d) => l.placed /\ d.file = l.rows

\* Rows that are saved: memory agrees, and the bytes are somewhere.
SavedIsSettled(m, b, d) ==
    b.rows # 0 =>
        /\ m.rows = b.rows
        /\ m.placed => b.placed
        /\ Settled(m, d) /\ Settled(b, d)
        /\ d.file = b.rows \/ \E p \in Peers : remote[p] = b.rows

\* Whatever is elsewhere, under way or believed to be elsewhere is of the
\* sealing that was saved.
ElsewhereIsTheSame(m, b) ==
    /\ \A p \in Peers : remote[p] # 0 => remote[p] = b.rows
    /\ \A p \in Desktops : sending[p] # 0 => sending[p] = b.rows
    /\ pulling.stage # "none" => pulling.gen # 0 /\ pulling.gen = b.rows
    /\ \A p \in m.healthy : m.rows # 0 /\ remote[p] = m.rows
    /\ \A p \in b.healthy : b.rows # 0 /\ remote[p] = b.rows

\* Memory m, database b and files d agree, and so do the peers.
Agree(m, b, d) ==
    /\ RowsBelong(m, b) /\ UnsavedIsSealed(m, b, d)
    /\ SavedIsSettled(m, b, d) /\ ElsewhereIsTheSame(m, b)

\* What the reply that is still to be saved will promise.
PromisesAreSealed ==
    /\ lock.reply = "imported" => mem.rows # 0
    /\ lock.push # {} => mem.rows # 0
    /\ acked = "imported" => db.rows # 0

\* The inductive invariant.
StoreInv == TypeOK /\ (~disk.lost => Agree(mem, db, disk) /\ PromisesAreSealed)

-----------------------------------------------------------------------------
(* refresh_blob_records. *)

\* The same rows, under another policy perhaps.
SameRows(l, m) ==
    l.asset = m.asset /\ l.rows = m.rows /\ l.placed = m.placed /\ l.healthy = m.healthy

\* r is what a refresh of the rows l and the files d leaves.
Outcome(l, d, r) ==
    /\ r.lib \in Library /\ r.disk \in Disk /\ r.lib.rows <= r.disk.gens
    /\ r.lib.asset = l.asset /\ r.lib.healthy = l.healthy /\ r.lib.policy = l.policy
    /\ r.disk.source = d.source /\ r.disk.lost = d.lost /\ r.disk.gens >= d.gens
    /\ r.disk.plain => d.plain
    /\ \/ r.lib = l /\ r.disk.file = d.file /\ (r.ok => ~NeedsSeal(l, d))
       \/ NeedsSeal(l, d) /\ r.lib.rows # 0 /\ r.lib.placed /\ r.disk.file = r.lib.rows
    /\ d.plain /\ ~r.disk.plain =>
          (r.lib.placed /\ r.disk.file # 0 /\ r.disk.file = r.lib.rows) \/ d.source = "there"

\* The policy removes no more than a managed copy that reads back.
LEMMA EnforcedOutcome ==
  ASSUME NEW l \in Library, NEW d \in Disk, NEW e \in Enforced(l, d)
  PROVE  /\ e \in Disk /\ e.source = d.source /\ e.file = d.file /\ e.gens = d.gens /\ e.lost = d.lost
         /\ e.plain => d.plain
         /\ d.plain /\ ~e.plain => l.placed /\ d.file # 0 /\ d.file = l.rows
<1>1. CASE e = d
  BY <1>1
<1>2. CASE e # d
  <2>1. IsManaged(l) /\ ReadsBack(l, d) /\ e = WithoutOriginal(l, d)
    BY <1>2 DEF Enforced
  <2>2. e = [d EXCEPT !.plain = FALSE]
    BY <2>1 DEF WithoutOriginal, IsManaged
  <2>3. l.placed /\ d.file # 0 /\ d.file = l.rows
    BY <2>1 DEF ReadsBack, Decrypts, ChunksExist
  <2> QED
    BY <2>2, <2>3 DEF Disk
<1> QED
  BY <1>1, <1>2

\* Each outcome of a refresh.
LEMMA RefreshedOutcome ==
  ASSUME NEW l \in Library, NEW d \in Disk, l.rows <= d.gens, NEW r \in Refreshed(l, d)
  PROVE  Outcome(l, d, r)
<1>1. CASE NeedsSeal(l, d) /\ r \in SealFailed(l, d)
  <2>1. PICK e \in RolledBack(l, d) : r = [lib |-> l, disk |-> e, ok |-> FALSE]
    BY <1>1 DEF SealFailed
  <2>2. e = d \/ (d.source = "there" /\ e = [d EXCEPT !.plain = FALSE])
    BY DEF RolledBack
  <2>3. /\ e \in Disk /\ e.source = d.source /\ e.file = d.file /\ e.gens = d.gens /\ e.lost = d.lost
        /\ e.plain => d.plain
        /\ d.plain /\ ~e.plain => d.source = "there"
    BY <2>2 DEF Disk
  <2>4. r.lib = l /\ r.disk = e /\ r.ok = FALSE
    BY <2>1
  <2>5. d.gens \in Int /\ d.gens >= d.gens
    BY DEF Disk, Gens
  <2> QED
    BY <2>3, <2>4, <2>5 DEF Outcome
<1>2. CASE NeedsSeal(l, d) /\ d.gens < MaxGen /\ r \in Sealed(l, d)
  <2> DEFINE gen == d.gens + 1
             rows == [l EXCEPT !.rows = gen, !.placed = TRUE]
             f == [d EXCEPT !.file = gen, !.gens = gen]
  <2>1. gen \in Gens /\ gen # 0 /\ d.gens <= gen /\ gen <= gen
    BY <1>2, StoreAssumption DEF Gens, Disk
  <2>2. rows \in Library /\ rows.asset = l.asset /\ rows.healthy = l.healthy /\ rows.policy = l.policy
        /\ rows.rows = gen /\ rows.placed
    BY <2>1 DEF Library
  <2>3. f \in Disk /\ f.source = d.source /\ f.lost = d.lost /\ f.plain = d.plain /\ f.file = gen /\ f.gens = gen
    BY <2>1 DEF Disk
  <2>4. PICK e \in Enforced(rows, f) : r = [lib |-> rows, disk |-> e, ok |-> TRUE]
    BY <1>2 DEF Sealed
  <2> HIDE DEF gen, rows, f
  <2>5. /\ e \in Disk /\ e.source = f.source /\ e.file = f.file /\ e.gens = f.gens /\ e.lost = f.lost
        /\ e.plain => f.plain
        /\ f.plain /\ ~e.plain => rows.placed /\ f.file # 0 /\ f.file = rows.rows
    BY <2>2, <2>3, <2>4, EnforcedOutcome
  <2>6. r.lib = rows /\ r.disk = e
    BY <2>4
  <2> QED
    BY <1>2, <2>1, <2>2, <2>3, <2>5, <2>6 DEF Outcome
<1>3. CASE ~NeedsSeal(l, d)
  <2>1. PICK e \in Enforced(l, d) : r = [lib |-> l, disk |-> e, ok |-> TRUE]
    BY <1>3 DEF Refreshed
  <2>2. /\ e \in Disk /\ e.source = d.source /\ e.file = d.file /\ e.gens = d.gens /\ e.lost = d.lost
        /\ e.plain => d.plain
        /\ d.plain /\ ~e.plain => l.placed /\ d.file # 0 /\ d.file = l.rows
    BY EnforcedOutcome
  <2>3. r.lib = l /\ r.disk = e
    BY <2>1
  <2>4. d.gens \in Int /\ d.gens >= d.gens
    BY DEF Disk, Gens
  <2> QED
    BY <1>3, <2>2, <2>3, <2>4 DEF Outcome
<1> QED
  BY <1>1, <1>2, <1>3 DEF Refreshed


\* A refresh of what memory or the database says keeps memory, database and
\* files in agreement: it seals only what was never saved.
LEMMA RefreshAgrees ==
  ASSUME NEW m \in Library, NEW b \in Library, NEW d \in Disk, Agree(m, b, d),
         NEW l \in Library, SameRows(l, m) \/ l = b,
         NEW r, Outcome(l, d, r)
  PROVE  /\ Agree(r.lib, b, r.disk)
         /\ SameRows(l, m) /\ m.rows # 0 => r.lib.rows # 0
<1>1. r.lib \in Library /\ r.disk \in Disk /\ r.lib.asset = l.asset /\ r.lib.healthy = l.healthy
  BY DEF Outcome
<1>2. b.rows = 0 => l.healthy = {} /\ b.healthy = {}
  BY DEF Agree, UnsavedIsSealed, ElsewhereIsTheSame, SameRows
<1>3. CASE r.lib = l /\ r.disk.file = d.file
  <2>1. IsReadable(l, r.disk) => IsReadable(l, d)
    BY DEF IsReadable, Outcome
  <2>2. IsReadable(b, r.disk) => IsReadable(b, d)
    BY DEF IsReadable, Outcome
  <2>3. RowsBelong(r.lib, b)
    BY <1>3 DEF Agree, RowsBelong, SameRows
  <2>4. UnsavedIsSealed(r.lib, b, r.disk)
    BY <1>2, <1>3 DEF Agree, UnsavedIsSealed, SameRows
  <2>5. Settled(m, d) => (SameRows(l, m) => Settled(l, d))
    BY DEF Settled, SameRows, IsReadable
  <2>6. SavedIsSettled(r.lib, b, r.disk)
    BY <1>3, <2>1, <2>2, <2>5 DEF Agree, SavedIsSettled, SameRows, Settled
  <2>7. ElsewhereIsTheSame(r.lib, b)
    BY <1>3 DEF Agree, ElsewhereIsTheSame, SameRows
  <2> QED
    BY <1>3, <2>3, <2>4, <2>6, <2>7 DEF Agree, SameRows
<1>4. CASE NeedsSeal(l, d) /\ r.lib.rows # 0 /\ r.lib.placed /\ r.disk.file = r.lib.rows
  <2>1. IsReadable(l, d) /\ ~ChunksExist(l, d) /\ l.asset # "none"
    BY <1>4 DEF NeedsSeal
  <2>2. b.rows = 0
    <3> SUFFICES ASSUME b.rows # 0 PROVE FALSE
      OBVIOUS
    <3>1. l.rows = b.rows /\ Settled(l, d)
      BY DEF Agree, SavedIsSettled, SameRows, Settled, IsReadable
    <3> QED
      BY <2>1, <3>1 DEF Settled, ChunksExist
  <2>3. RowsBelong(r.lib, b)
    BY <1>1, <2>1, <2>2 DEF Agree, RowsBelong, SameRows
  <2>4. UnsavedIsSealed(r.lib, b, r.disk) /\ SavedIsSettled(r.lib, b, r.disk)
    BY <1>1, <1>2, <1>4, <2>2 DEF UnsavedIsSealed, SavedIsSettled
  <2>5. ElsewhereIsTheSame(r.lib, b)
    BY <1>1, <1>2, <2>2 DEF Agree, ElsewhereIsTheSame
  <2> QED
    BY <1>4, <2>3, <2>4, <2>5 DEF Agree
<1> QED
  BY <1>3, <1>4 DEF Outcome


-----------------------------------------------------------------------------
(* Handlers. *)

\* The handler that has still to save promises no more than there is.
LockIsSafe ==
    /\ lock \in [reply : Replies \cup {"none"}, push : SUBSET Desktops]
    /\ ~disk.lost => /\ lock.reply = "imported" => mem.rows # 0
                     /\ lock.push # {} => mem.rows # 0

\* Replies that promise no rows.
LEMMA SafeReplies ==
  ASSUME NEW lk \in {Free, Saving("duplicate"), Saving("settings"), Saving("pinned"),
                     Saving("evicted"), Saving("startup")}
  PROVE  /\ lk \in [reply : Replies \cup {"none"}, push : SUBSET Desktops]
         /\ lk.reply # "imported" /\ lk.push = {}
  BY DEF Free, Saving, Replies

\* A handler that refreshes what memory or the database says and saves later.
LEMMA RefreshingStep ==
  ASSUME StoreInv, NEW l \in Library, SameRows(l, mem) \/ l = db,
         NEW r \in Refreshed(l, disk), mem' = r.lib, disk' = r.disk,
         UNCHANGED <<db, remote, acked>>,
         \/ UNCHANGED <<sending, pulling>>
         \/ sending' = [p \in Desktops |-> 0] /\ pulling' = NoPull,
         LockIsSafe'
  PROVE  StoreInv'
<1>1. TypeOK /\ l.rows <= disk.gens
  BY DEF StoreInv, TypeOK, SameRows
<1>2. Outcome(l, disk, r)
  BY <1>1, RefreshedOutcome DEF TypeOK
<1>3. sending' \in [Desktops -> Gens] /\ pulling' \in [gen : Gens, stage : {"none", "staged", "published"}]
  BY <1>1, StoreAssumption DEF TypeOK, NoPull, Gens
<1>4. disk.gens \in Int /\ disk'.gens \in Int /\ db.rows \in Int /\ disk'.gens >= disk.gens
  BY <1>1, <1>2 DEF TypeOK, Outcome, Disk, Library, Gens
<1>5. TypeOK'
  BY <1>1, <1>2, <1>3, <1>4 DEF TypeOK, Outcome, LockIsSafe
<1>6. ASSUME ~disk'.lost PROVE Agree(mem, db, disk)' /\ PromisesAreSealed'
  <2>1. ~disk.lost
    BY <1>2, <1>6 DEF Outcome
  <2>2. Agree(mem, db, disk) /\ PromisesAreSealed
    BY <2>1 DEF StoreInv
  <2>3. Agree(mem', db, disk')
    BY <1>1, <1>2, <2>2, RefreshAgrees DEF TypeOK
  <2>4. Agree(mem, db, disk)'
    BY <2>3 DEF Agree, RowsBelong, UnsavedIsSealed, SavedIsSettled, ElsewhereIsTheSame, NoPull,
       Settled, IsReadable
  <2> QED
    BY <1>6, <2>2, <2>4 DEF PromisesAreSealed, LockIsSafe
<1> QED
  BY <1>5, <1>6 DEF StoreInv

\* The handlers that only refresh, and the next start of the daemon.
LEMMA RefreshOnly ==
  ASSUME StoreInv, \/ ImportDuplicate \/ Read \/ Crash
                   \/ (\E policy \in Policies : SetPolicy(policy))
                   \/ (\E ps \in SUBSET Desktops : RunSync(ps))
  PROVE  StoreInv'
<1>1. mem \in Library /\ db \in Library /\ SameRows(mem, mem)
  BY DEF StoreInv, TypeOK, SameRows
<1>2. CASE ImportDuplicate
  <2>1. PICK r \in Refreshed(mem, disk) :
          RefreshThenSave(r, IF r.ok THEN Saving("duplicate") ELSE Free)
    BY <1>2 DEF ImportDuplicate
  <2>2. LockIsSafe'
    BY <2>1, SafeReplies DEF RefreshThenSave, LockIsSafe
  <2> QED
    BY <1>1, <1>2, <2>1, <2>2, RefreshingStep DEF RefreshThenSave, ImportDuplicate
<1>3. CASE Read
  <2>1. PICK r \in Refreshed(mem, disk) : RefreshThenSave(r, Free)
    BY <1>3 DEF Read
  <2>2. LockIsSafe'
    BY <2>1, SafeReplies DEF RefreshThenSave, LockIsSafe
  <2> QED
    BY <1>1, <1>3, <2>1, <2>2, RefreshingStep DEF RefreshThenSave, Read
<1>4. CASE Crash
  <2>1. PICK r \in Refreshed(db, disk) : RefreshThenSave(r, Saving("startup"))
    BY <1>4 DEF Crash
  <2>2. LockIsSafe'
    BY <2>1, SafeReplies DEF RefreshThenSave, LockIsSafe
  <2> QED
    BY <1>1, <1>4, <2>1, <2>2, RefreshingStep DEF RefreshThenSave, Crash
<1>5. CASE \E policy \in Policies : SetPolicy(policy)
  <2>1. PICK policy \in Policies : SetPolicy(policy)
    BY <1>5
  <2>2. [mem EXCEPT !.policy = policy] \in Library /\ SameRows([mem EXCEPT !.policy = policy], mem)
    BY <1>1, StoreAssumption DEF Library, SameRows
  <2>3. PICK r \in Refreshed([mem EXCEPT !.policy = policy], disk) :
          RefreshThenSave(r, Saving("settings"))
    BY <2>1 DEF SetPolicy
  <2>4. LockIsSafe'
    BY <2>3, SafeReplies DEF RefreshThenSave, LockIsSafe
  <2> QED
    BY <2>1, <2>2, <2>3, <2>4, RefreshingStep DEF RefreshThenSave, SetPolicy
<1>6. CASE \E ps \in SUBSET Desktops : RunSync(ps)
  <2>1. PICK ps \in SUBSET Desktops : RunSync(ps)
    BY <1>6
  <2>2. PICK r \in Refreshed(mem, disk) :
          /\ ps # {} => ChunksExist(r.lib, r.disk)
          /\ RefreshThenSave(r, [reply |-> "sync", push |-> ps])
    BY <2>1 DEF RunSync
  <2>3. LockIsSafe'
    BY <2>2 DEF RefreshThenSave, LockIsSafe, ChunksExist, Replies
  <2> QED
    BY <1>1, <2>1, <2>2, <2>3, RefreshingStep DEF RefreshThenSave, RunSync
<1> QED
  BY <1>2, <1>3, <1>4, <1>5, <1>6

\* An import: nothing was saved, so nobody has the blob.
LEMMA ImportStep ==
  ASSUME StoreInv, NEW mode \in ImportModes, Import(mode)
  PROVE  StoreInv'
<1> DEFINE lib == [mem EXCEPT !.asset = mode]
           placed == [disk EXCEPT
                        !.plain = @ \/ mode \in {"Copy", "Move"},
                        !.source = IF mode = "Move" THEN "removed" ELSE @,
                        !.file = 0]
<1>1. TypeOK /\ mem.asset = "none"
  BY DEF StoreInv, Import
<1>2. PICK r \in Refreshed(lib, placed) :
         RefreshThenSave(r, IF r.ok THEN Saving("imported") ELSE Free)
  BY DEF Import
<1>3. lib \in Library /\ lib.asset = mode /\ lib.asset # "none" /\ lib.rows = mem.rows
      /\ lib.placed = mem.placed /\ lib.healthy = mem.healthy
  BY <1>1, StoreAssumption DEF TypeOK, Library
<1>4. /\ placed \in Disk /\ placed.gens = disk.gens /\ placed.lost = disk.lost /\ placed.file = 0
      /\ IsReadable(lib, placed)
  <2>1. mode \in {"Copy", "Move", "Reference"} /\ 0 \in Gens /\ disk \in Disk
    BY <1>1, StoreAssumption DEF TypeOK, Gens
  <2>2. disk.source = "there"
    BY DEF Import
  <2>3. (disk.plain \/ mode \in {"Copy", "Move"}) \in BOOLEAN
        /\ (IF mode = "Move" THEN "removed" ELSE disk.source) \in {"there", "removed", "deleted"}
    BY <2>1 DEF Disk
  <2>4. /\ placed \in Disk /\ placed.gens = disk.gens /\ placed.lost = disk.lost /\ placed.file = 0
    BY <2>1, <2>3 DEF Disk
  <2>5. placed.plain = (disk.plain \/ mode \in {"Copy", "Move"})
        /\ placed.source = (IF mode = "Move" THEN "removed" ELSE disk.source)
    BY <2>1 DEF Disk
  <2> QED
    BY <1>3, <2>1, <2>2, <2>4, <2>5 DEF IsReadable
<1> HIDE DEF lib, placed
<1>5. Outcome(lib, placed, r)
  BY <1>1, <1>3, <1>4, RefreshedOutcome DEF TypeOK
<1>6. mem' = r.lib /\ disk' = r.disk /\ UNCHANGED <<db, remote, sending, pulling, acked>>
      /\ lock' \in {Saving("imported"), Free} /\ (lock' = Saving("imported") => r.ok)
  BY <1>2 DEF RefreshThenSave, Import, Saving, Free
<1>7. lock' \in [reply : Replies \cup {"none"}, push : SUBSET Desktops] /\ lock'.push = {}
      /\ (lock'.reply = "imported" => r.ok)
  BY <1>6 DEF Saving, Free, Replies
<1>8. disk.gens \in Int /\ disk'.gens \in Int /\ db.rows \in Int /\ disk'.gens >= disk.gens
  BY <1>1, <1>4, <1>5, <1>6 DEF TypeOK, Outcome, Disk, Library, Gens
<1>9. TypeOK'
  BY <1>1, <1>5, <1>6, <1>7, <1>8 DEF TypeOK, Outcome
<1>10. ASSUME ~disk'.lost PROVE Agree(mem, db, disk)' /\ PromisesAreSealed'
  <2>1. Agree(mem, db, disk) /\ PromisesAreSealed
    BY <1>4, <1>5, <1>6, <1>10 DEF StoreInv, Outcome
  <2>2. db.rows = 0 /\ mem.rows = 0 /\ db.asset = "none"
    BY <1>1, <2>1 DEF Agree, RowsBelong
  <2>3. lib.healthy = {}
    BY <1>3, <2>1, <2>2 DEF Agree, UnsavedIsSealed
  <2>4. NeedsSeal(lib, placed)
    BY <1>3, <1>4 DEF NeedsSeal, ChunksExist
  <2>5. /\ mem'.asset # "none" /\ mem'.healthy = {}
        /\ mem'.rows # 0 => mem'.placed /\ disk'.file = mem'.rows
        /\ r.ok => mem'.rows # 0
    BY <1>3, <1>5, <1>6, <2>2, <2>3, <2>4 DEF Outcome
  <2>7. ElsewhereIsTheSame(mem, db)'
    BY <1>6, <2>1, <2>2, <2>5 DEF Agree, ElsewhereIsTheSame
  <2>8. Agree(mem, db, disk)'
    BY <1>6, <2>2, <2>5, <2>7 DEF Agree, RowsBelong, UnsavedIsSealed, SavedIsSettled
  <2> QED
    BY <1>6, <1>7, <2>1, <2>2, <2>5, <2>8 DEF PromisesAreSealed
<1> QED
  BY <1>9, <1>10 DEF StoreInv


\* A restore from the local chunks: they read back with the rows.
LEMMA PinStep ==
  ASSUME StoreInv, Pin
  PROVE  StoreInv'
<1>1. TypeOK
  BY DEF StoreInv
<1>2. PICK r \in Refreshed(mem, disk) :
        /\ IsManaged(r.lib) /\ ~IsReadable(r.lib, r.disk) /\ Decrypts(r.lib, r.disk)
        /\ RefreshThenSave([r EXCEPT !.disk.plain = TRUE], Saving("pinned"))
  BY DEF Pin
<1>3. Outcome(mem, disk, r)
  BY <1>1, <1>2, RefreshedOutcome DEF TypeOK
<1>4. PICK e, ok : e \in Disk /\ r = [lib |-> r.lib, disk |-> e, ok |-> ok]
  BY <1>2, <1>3 DEF Refreshed, SealFailed, Sealed, Outcome
<1>5. mem' = r.lib /\ disk' = [r.disk EXCEPT !.plain = TRUE] /\ lock' = Saving("pinned")
      /\ UNCHANGED <<db, remote, sending, pulling, acked>>
  BY <1>2, <1>4 DEF RefreshThenSave, Pin
<1>6. /\ disk' \in Disk /\ disk'.file = r.disk.file /\ disk'.gens = r.disk.gens
      /\ disk'.lost = r.disk.lost /\ disk'.source = r.disk.source
  BY <1>3, <1>5 DEF Outcome, Disk
<1>7. LockIsSafe'
  BY <1>5, SafeReplies DEF LockIsSafe
<1>8. disk.gens \in Int /\ disk'.gens \in Int /\ db.rows \in Int /\ disk'.gens >= disk.gens
  BY <1>1, <1>3, <1>6 DEF TypeOK, Outcome, Disk, Library, Gens
<1>9. TypeOK'
  BY <1>1, <1>3, <1>5, <1>6, <1>7, <1>8 DEF TypeOK, Outcome, LockIsSafe
<1>10. ASSUME ~disk'.lost PROVE Agree(mem, db, disk)' /\ PromisesAreSealed'
  <2>1. Agree(mem, db, disk) /\ PromisesAreSealed
    BY <1>3, <1>6, <1>10 DEF StoreInv, Outcome
  <2>2. Agree(r.lib, db, r.disk)
    BY <1>1, <1>3, <2>1, RefreshAgrees DEF TypeOK, SameRows
  <2>3. r.lib.placed /\ r.disk.file = r.lib.rows /\ IsManaged(r.lib)
    BY <1>2 DEF Decrypts, ChunksExist
  <2>4. db.rows # 0 => db.asset = r.lib.asset /\ db.placed /\ r.lib.rows = db.rows
    BY <2>2, <2>3 DEF Agree, RowsBelong, SavedIsSettled
  <2>5. Agree(mem, db, disk)'
    BY <1>5, <1>6, <2>2, <2>3, <2>4 DEF Agree, RowsBelong, UnsavedIsSealed, SavedIsSettled, Settled,
       ElsewhereIsTheSame
  <2> QED
    BY <1>5, <1>7, <1>10, <2>1, <2>5 DEF PromisesAreSealed, LockIsSafe
<1> QED
  BY <1>9, <1>10 DEF StoreInv

\* An eviction: a verified replica has the sealing of the rows.
LEMMA EvictStep ==
  ASSUME StoreInv, Evict
  PROVE  StoreInv'
<1>1. TypeOK
  BY DEF StoreInv
<1> DEFINE Bare(r) == IF IsReadable(r.lib, r.disk) THEN WithoutOriginal(r.lib, r.disk) ELSE r.disk
           Unplaced(r) == [r.lib EXCEPT !.placed = FALSE]
<1>2. PICK r \in Refreshed(mem, disk) :
        /\ IsManaged(r.lib) /\ Replicated(r.lib)
        /\ \/ RefreshThenSave([lib |-> Unplaced(r),
                               disk |-> [Bare(r) EXCEPT !.file = IF r.lib.placed THEN 0 ELSE @]],
                              Saving("evicted"))
           \/ /\ r.lib.placed /\ r.disk.file # 0
              /\ RefreshThenSave([lib |-> Unplaced(r), disk |-> Bare(r)], Free)
  BY DEF Evict
<1>3. Outcome(mem, disk, r)
  BY <1>1, <1>2, RefreshedOutcome DEF TypeOK
<1>4. /\ Bare(r) \in Disk /\ Bare(r).file = r.disk.file /\ Bare(r).gens = r.disk.gens
      /\ Bare(r).lost = r.disk.lost /\ Bare(r).source = r.disk.source /\ Bare(r).plain = FALSE
  <2>1. CASE IsReadable(r.lib, r.disk)
    BY <1>2, <1>3, <2>1 DEF WithoutOriginal, IsManaged, Outcome, Disk
  <2>2. CASE ~IsReadable(r.lib, r.disk)
    BY <1>2, <1>3, <2>2 DEF IsReadable, IsManaged, Outcome, Disk
  <2> QED
    BY <2>1, <2>2
<1>5. /\ Unplaced(r) \in Library /\ Unplaced(r).asset = r.lib.asset /\ Unplaced(r).rows = r.lib.rows
      /\ Unplaced(r).healthy = r.lib.healthy /\ Unplaced(r).placed = FALSE
  BY <1>3 DEF Outcome, Library
<1>6. mem' = Unplaced(r) /\ UNCHANGED <<db, remote, sending, pulling, acked>>
      /\ lock' \in {Saving("evicted"), Free}
  BY <1>2 DEF RefreshThenSave, Evict
<1>7. \/ disk' = [Bare(r) EXCEPT !.file = 0]
      \/ disk' = Bare(r)
  <2>1. disk' = [Bare(r) EXCEPT !.file = IF r.lib.placed THEN 0 ELSE @] \/ disk' = Bare(r)
    BY <1>2 DEF RefreshThenSave
  <2> QED
    BY <1>4, <2>1 DEF Disk
<1> HIDE DEF Bare, Unplaced
<1>8. /\ disk' \in Disk /\ disk'.gens = r.disk.gens /\ disk'.lost = r.disk.lost
      /\ disk'.source = r.disk.source /\ disk'.plain = FALSE
  BY <1>4, <1>7, StoreAssumption DEF Disk, Gens
<1>9. LockIsSafe'
  BY <1>6, SafeReplies DEF LockIsSafe
<1>10. disk.gens \in Int /\ disk'.gens \in Int /\ db.rows \in Int /\ disk'.gens >= disk.gens
  BY <1>1, <1>3, <1>8 DEF TypeOK, Outcome, Disk, Library, Gens
<1>11. TypeOK'
  BY <1>1, <1>3, <1>5, <1>6, <1>8, <1>9, <1>10 DEF TypeOK, Outcome, LockIsSafe
<1>12. ASSUME ~disk'.lost PROVE Agree(mem, db, disk)' /\ PromisesAreSealed'
  <2>1. Agree(mem, db, disk) /\ PromisesAreSealed
    BY <1>3, <1>8, <1>12 DEF StoreInv, Outcome
  <2>2. Agree(r.lib, db, r.disk)
    BY <1>1, <1>3, <2>1, RefreshAgrees DEF TypeOK, SameRows
  <2>3. r.lib.healthy # {}
    <3>1. Cardinality(r.lib.healthy) >= MinReplicas
      BY <1>2 DEF Replicated
    <3>2. MinReplicas >= 1 /\ MinReplicas \in Nat
      BY StoreAssumption
    <3> DEFINE empty == {}
    <3>3. Cardinality(empty) = 0
      BY FS_EmptySet
    <3> QED BY <3>1, <3>2, <3>3
  <2>4. db.rows # 0 /\ r.lib.rows = db.rows
    BY <2>2, <2>3 DEF Agree, UnsavedIsSealed, SavedIsSettled
  <2>5. \E p \in Peers : remote[p] = db.rows
    BY <1>3, <2>2, <2>3, <2>4 DEF Agree, ElsewhereIsTheSame, Outcome, Library
  <2>6. db.asset = r.lib.asset /\ r.lib.asset # "Reference"
    BY <1>2, <2>2, <2>4 DEF Agree, RowsBelong, IsManaged
  <2>7. Agree(mem, db, disk)'
    BY <1>5, <1>6, <1>8, <2>2, <2>4, <2>5, <2>6 DEF Agree, RowsBelong, UnsavedIsSealed, SavedIsSettled,
       Settled, IsReadable, ElsewhereIsTheSame
  <2> QED
    BY <1>6, <1>9, <1>12, <2>1, <2>7 DEF PromisesAreSealed, LockIsSafe
<1> QED
  BY <1>11, <1>12 DEF StoreInv

\* A save: what it writes is what memory says.
LEMMA SaveStep ==
  ASSUME StoreInv, SaveCommits \/ SaveFails
  PROVE  StoreInv'
<1>1. TypeOK /\ mem \in Library /\ db \in Library
  BY DEF StoreInv, TypeOK
<1>2. Free \in [reply : Replies \cup {"none"}, push : SUBSET Desktops]
      /\ Free.reply = "none" /\ Free.push = {}
  BY DEF Free
<1>3. CASE SaveFails
  <2>1. TypeOK'
    BY <1>1, <1>2, <1>3 DEF TypeOK, SaveFails
  <2>2. ASSUME ~disk.lost PROVE Agree(mem, db, disk)' /\ PromisesAreSealed'
    BY <1>2, <1>3, <2>2 DEF SaveFails, StoreInv, Agree, RowsBelong, UnsavedIsSealed, SavedIsSettled,
       Settled, IsReadable, ElsewhereIsTheSame, PromisesAreSealed
  <2> QED
    BY <1>3, <2>1, <2>2 DEF StoreInv, SaveFails
<1>4. CASE SaveCommits
  <2>1. /\ db' = mem /\ lock' = Free /\ UNCHANGED <<mem, disk, remote, pulling>>
        /\ sending' = [p \in Desktops |-> IF p \in lock.push THEN mem.rows ELSE sending[p]]
        /\ acked' = IF \/ lock.reply = "imported"
                       \/ lock.reply = "duplicate" /\ acked = "none" THEN lock.reply ELSE acked
    BY <1>4 DEF SaveCommits
  <2>2. mem.rows \in Gens /\ sending' \in [Desktops -> Gens]
    BY <1>1, <2>1 DEF TypeOK, Library
  <2>3. acked' \in {"none", "imported", "duplicate"}
    BY <1>1, <2>1 DEF TypeOK
  <2>4. TypeOK'
    BY <1>1, <1>2, <2>1, <2>2, <2>3 DEF TypeOK
  <2>5. ASSUME ~disk.lost PROVE Agree(mem, db, disk)' /\ PromisesAreSealed'
    <3>1. Agree(mem, db, disk) /\ PromisesAreSealed
      BY <2>5 DEF StoreInv
    <3>2. db.rows # 0 => mem.rows = db.rows
      BY <3>1 DEF Agree, SavedIsSettled
    <3>3. RowsBelong(mem, db)'
      BY <2>1, <3>1 DEF Agree, RowsBelong
    <3>4. UnsavedIsSealed(mem, db, disk)'
      BY <1>1, <2>1, <3>1, <3>2 DEF Agree, UnsavedIsSealed, ElsewhereIsTheSame
    <3>5. SavedIsSettled(mem, db, disk)'
      BY <2>1, <3>1, <3>2 DEF Agree, SavedIsSettled, UnsavedIsSealed, Settled, IsReadable
    <3>6. ElsewhereIsTheSame(mem, db)'
      <4>1. \A p \in Desktops : sending'[p] # 0 => sending'[p] = mem.rows
        BY <2>1, <3>1, <3>2 DEF Agree, ElsewhereIsTheSame, PromisesAreSealed
      <4>2. \A p \in Peers : remote[p] # 0 => remote[p] = mem.rows
        BY <3>1, <3>2 DEF Agree, ElsewhereIsTheSame
      <4>3. pulling.stage # "none" => pulling.gen # 0 /\ pulling.gen = mem.rows
        BY <3>1, <3>2 DEF Agree, ElsewhereIsTheSame
      <4>4. \A p \in mem.healthy : mem.rows # 0 /\ remote[p] = mem.rows
        BY <3>1 DEF Agree, ElsewhereIsTheSame
      <4> QED
        BY <2>1, <4>1, <4>2, <4>3, <4>4 DEF ElsewhereIsTheSame
    <3>7. PromisesAreSealed'
      BY <1>2, <2>1, <3>1, <3>2 DEF PromisesAreSealed
    <3> QED
      BY <3>3, <3>4, <3>5, <3>6, <3>7 DEF Agree
  <2> QED
    BY <2>1, <2>4, <2>5 DEF StoreInv
<1> QED
  BY <1>3, <1>4


-----------------------------------------------------------------------------
(* Peers and phones. *)

\* What the invariant says while no chunk file was lost.
LEMMA WhileNotLost ==
  ASSUME StoreInv, ~disk.lost
  PROVE  Agree(mem, db, disk) /\ PromisesAreSealed
  BY DEF StoreInv

\* A push arrives, or is answered.
LEMMA SendStep ==
  ASSUME StoreInv, NEW p \in Desktops, SendBlob(p) \/ SendAnswered(p)
  PROVE  StoreInv'
<1>1. TypeOK /\ p \in Peers
  BY DEF StoreInv, Peers
<1>2. CASE SendBlob(p)
  <2>1. /\ sending[p] # 0 /\ remote[p] = 0 /\ remote' = [remote EXCEPT ![p] = sending[p]]
        /\ UNCHANGED <<mem, db, disk, sending, pulling, lock, acked>>
    BY <1>2 DEF SendBlob
  <2>2. TypeOK'
    BY <1>1, <2>1 DEF TypeOK
  <2>3. ASSUME ~disk.lost PROVE Agree(mem, db, disk)' /\ PromisesAreSealed'
    <3>1. Agree(mem, db, disk) /\ PromisesAreSealed
      BY <2>3, WhileNotLost
    <3>2. sending[p] = db.rows /\ db.rows # 0 /\ mem.rows = db.rows
      BY <2>1, <3>1 DEF Agree, ElsewhereIsTheSame, SavedIsSettled
    <3>3. \A x \in Peers : remote'[x] = IF x = p THEN db.rows ELSE remote[x]
      BY <1>1, <2>1, <3>2 DEF TypeOK
    <3>4. mem.healthy \subseteq Peers /\ db.healthy \subseteq Peers
      BY <1>1 DEF TypeOK, Library
    <3>5. ElsewhereIsTheSame(mem, db)'
      BY <2>1, <3>1, <3>2, <3>3, <3>4 DEF Agree, ElsewhereIsTheSame
    <3>6. SavedIsSettled(mem, db, disk)'
      BY <2>1, <3>1, <3>3 DEF Agree, SavedIsSettled, Settled, IsReadable
    <3> QED
      BY <2>1, <3>1, <3>5, <3>6 DEF Agree, RowsBelong, UnsavedIsSealed, PromisesAreSealed
  <2> QED
    BY <2>1, <2>2, <2>3 DEF StoreInv
<1>3. CASE SendAnswered(p)
  <2>1. /\ sending[p] # 0 /\ sending' = [sending EXCEPT ![p] = 0] /\ db' \in {db, mem'}
        /\ UNCHANGED <<disk, remote, pulling, lock, acked>>
    BY <1>3 DEF SendAnswered
  <2>2. /\ mem' \in Library /\ mem'.asset = mem.asset /\ mem'.rows = mem.rows /\ mem'.placed = mem.placed
        /\ mem'.healthy = mem.healthy \/ (remote[p] = sending[p] /\ mem'.healthy = mem.healthy \cup {p})
    BY <1>1, <1>3 DEF SendAnswered, TypeOK, Library
  <2>3. sending' \in [Desktops -> Gens] /\ \A x \in Desktops : sending'[x] # 0 => sending'[x] = sending[x]
    BY <1>1, <2>1, StoreAssumption DEF TypeOK, Gens
  <2>4. TypeOK'
    BY <1>1, <2>1, <2>2, <2>3 DEF TypeOK
  <2>5. ASSUME ~disk.lost PROVE Agree(mem, db, disk)' /\ PromisesAreSealed'
    <3>1. Agree(mem, db, disk) /\ PromisesAreSealed
      BY <2>5, WhileNotLost
    <3>2. sending[p] = db.rows /\ db.rows # 0 /\ mem.rows = db.rows
      BY <2>1, <3>1 DEF Agree, ElsewhereIsTheSame, SavedIsSettled
    <3>3. db'.rows = db.rows /\ (db'.asset = db.asset \/ db'.asset = mem.asset)
          /\ (db'.placed = db.placed \/ db'.placed = mem.placed)
          /\ (db'.healthy = db.healthy \/ db'.healthy = mem'.healthy)
          /\ (db' = db \/ db' = mem')
      BY <2>1, <2>2, <3>2
    <3>4. \A x \in mem'.healthy : remote[x] = db.rows
      BY <2>2, <3>1, <3>2 DEF Agree, ElsewhereIsTheSame
    <3>5. \A x \in db'.healthy : remote[x] = db.rows
      BY <3>1, <3>3, <3>4 DEF Agree, ElsewhereIsTheSame
    <3>6. ElsewhereIsTheSame(mem, db)'
      BY <2>1, <2>2, <2>3, <3>1, <3>2, <3>3, <3>4, <3>5 DEF Agree, ElsewhereIsTheSame
    <3>7. RowsBelong(mem, db)' /\ UnsavedIsSealed(mem, db, disk)'
      BY <2>1, <2>2, <3>1, <3>2, <3>3 DEF Agree, RowsBelong, UnsavedIsSealed
    <3>8. SavedIsSettled(mem, db, disk)'
      BY <2>1, <2>2, <3>1, <3>2, <3>3 DEF Agree, SavedIsSettled, Settled, IsReadable
    <3> QED
      BY <2>1, <2>2, <3>1, <3>3, <3>6, <3>7, <3>8 DEF Agree, PromisesAreSealed
  <2> QED
    BY <2>1, <2>4, <2>5 DEF StoreInv
<1> QED
  BY <1>2, <1>3

\* A pull begins, publishes its file and commits its rows.
LEMMA PullStep ==
  ASSUME StoreInv, PublishPull \/ CommitPull \/ \E p \in Desktops : StartPull(p)
  PROVE  StoreInv'
<1>1. TypeOK /\ Desktops \subseteq Peers
  BY DEF StoreInv, Peers
<1>2. NoPull \in [gen : Gens, stage : {"none", "staged", "published"}] /\ NoPull.stage = "none"
  BY StoreAssumption DEF NoPull, Gens
<1>3. CASE \E p \in Desktops : StartPull(p)
  <2>1. PICK p \in Desktops : StartPull(p)
    BY <1>3
  <2>2. remote[p] # 0 /\ remote[p] \in Gens /\ pulling' = [gen |-> remote[p], stage |-> "staged"]
        /\ UNCHANGED <<mem, db, disk, remote, sending, lock, acked>>
    BY <1>1, <2>1 DEF StartPull, TypeOK
  <2>3. TypeOK'
    BY <1>1, <2>2 DEF TypeOK
  <2>4. ASSUME ~disk.lost PROVE Agree(mem, db, disk)' /\ PromisesAreSealed'
    <3>1. Agree(mem, db, disk) /\ PromisesAreSealed
      BY <2>4, WhileNotLost
    <3> QED
      BY <1>1, <2>2, <3>1 DEF Agree, RowsBelong, UnsavedIsSealed, SavedIsSettled, Settled, IsReadable,
         ElsewhereIsTheSame, PromisesAreSealed
  <2> QED
    BY <2>2, <2>3, <2>4 DEF StoreInv
<1>4. CASE PublishPull
  <2>1. /\ pulling.stage = "staged" /\ UNCHANGED <<mem, db, remote, sending, lock, acked>>
        /\ pulling' \in {NoPull, [pulling EXCEPT !.stage = "published"]}
        /\ disk' = disk \/ disk' = [disk EXCEPT !.file = pulling.gen]
    BY <1>4 DEF PublishPull
  <2>2. disk' \in Disk /\ disk'.lost = disk.lost /\ disk'.gens = disk.gens
        /\ disk'.source = disk.source /\ disk'.plain = disk.plain
        /\ (disk'.file = disk.file \/ disk'.file = pulling.gen)
    BY <1>1, <2>1 DEF TypeOK, Disk
  <2>3. /\ pulling' \in [gen : Gens, stage : {"none", "staged", "published"}]
        /\ pulling'.stage # "none" => pulling'.gen = pulling.gen
    BY <1>1, <1>2, <2>1 DEF TypeOK
  <2>4. TypeOK'
    BY <1>1, <2>1, <2>2, <2>3 DEF TypeOK
  <2>5. ASSUME ~disk.lost PROVE Agree(mem, db, disk)' /\ PromisesAreSealed'
    <3>1. Agree(mem, db, disk) /\ PromisesAreSealed
      BY <2>5, WhileNotLost
    <3>2. pulling.gen = db.rows /\ db.rows # 0 /\ mem.rows = db.rows
      BY <2>1, <3>1 DEF Agree, ElsewhereIsTheSame, SavedIsSettled
    <3>3. ElsewhereIsTheSame(mem, db)'
      BY <2>1, <2>3, <3>1, <3>2 DEF Agree, ElsewhereIsTheSame
    <3>4. SavedIsSettled(mem, db, disk)'
      BY <2>1, <2>2, <3>1, <3>2 DEF Agree, SavedIsSettled, Settled, IsReadable
    <3> QED
      BY <2>1, <3>1, <3>2, <3>3, <3>4 DEF Agree, RowsBelong, UnsavedIsSealed, PromisesAreSealed
  <2> QED
    BY <2>2, <2>4, <2>5 DEF StoreInv
<1>5. CASE CommitPull
  <2>1. pulling.stage = "published" /\ pulling' = NoPull /\ UNCHANGED <<disk, remote, sending, lock, acked>>
    BY <1>5 DEF CommitPull
  <2>2. CASE UNCHANGED <<mem, db>>
    <3>1. TypeOK'
      BY <1>1, <1>2, <2>1, <2>2 DEF TypeOK
    <3>2. ASSUME ~disk.lost PROVE Agree(mem, db, disk)' /\ PromisesAreSealed'
      <4>1. Agree(mem, db, disk) /\ PromisesAreSealed
        BY <3>2, WhileNotLost
      <4> QED
        BY <1>2, <2>1, <2>2, <4>1 DEF Agree, RowsBelong, UnsavedIsSealed, SavedIsSettled, Settled,
           IsReadable, ElsewhereIsTheSame, PromisesAreSealed
    <3> QED
      BY <2>1, <3>1, <3>2 DEF StoreInv
  <2>3. CASE ~(UNCHANGED <<mem, db>>)
    <3>1. /\ mem.rows = pulling.gen /\ db' = mem'
          /\ mem' = [mem EXCEPT !.rows = pulling.gen, !.placed = TRUE]
      BY <1>5, <2>3 DEF CommitPull, ManifestAgrees
    <3>2. /\ mem' \in Library /\ mem'.rows = mem.rows /\ mem'.placed = TRUE /\ mem'.asset = mem.asset
          /\ mem'.healthy = mem.healthy
      BY <1>1, <3>1 DEF TypeOK, Library
    <3>3. TypeOK'
      BY <1>1, <1>2, <2>1, <3>1, <3>2 DEF TypeOK
    <3>4. ASSUME ~disk.lost PROVE Agree(mem, db, disk)' /\ PromisesAreSealed'
      <4>1. Agree(mem, db, disk) /\ PromisesAreSealed
        BY <3>4, WhileNotLost
      <4>2. db.rows # 0 /\ mem.rows = db.rows
        BY <2>1, <4>1 DEF Agree, ElsewhereIsTheSame, SavedIsSettled
      <4>3. RowsBelong(mem, db)' /\ UnsavedIsSealed(mem, db, disk)'
        BY <3>1, <3>2, <4>1, <4>2 DEF Agree, RowsBelong, UnsavedIsSealed
      <4>4. SavedIsSettled(mem, db, disk)'
        BY <2>1, <3>1, <3>2, <4>1, <4>2 DEF Agree, SavedIsSettled, Settled, IsReadable
      <4>5. ElsewhereIsTheSame(mem, db)'
        BY <1>2, <2>1, <3>1, <3>2, <4>1, <4>2 DEF Agree, ElsewhereIsTheSame
      <4> QED
        BY <2>1, <3>1, <3>2, <4>1, <4>2, <4>3, <4>4, <4>5 DEF Agree, PromisesAreSealed
    <3> QED
      BY <2>1, <3>3, <3>4 DEF StoreInv
  <2> QED
    BY <2>2, <2>3
<1> QED
  BY <1>3, <1>4, <1>5

\* A phone fetches, reports or gives back a chunk.
LEMMA PhoneStep ==
  ASSUME StoreInv, NEW q \in Phones, FetchChunk(q) \/ ReportReplica(q) \/ RestoreChunk(q)
  PROVE  StoreInv'
<1>1. TypeOK /\ q \in Peers
  BY DEF StoreInv, Peers
<1>2. CASE FetchChunk(q)
  <2>1. /\ mem.rows # 0 /\ mem.placed /\ disk.file = mem.rows
        /\ remote' = [remote EXCEPT ![q] = disk.file] /\ db' = mem
        /\ UNCHANGED <<mem, disk, sending, pulling, lock, acked>>
    BY <1>2 DEF FetchChunk, Decrypts, ChunksExist
  <2>2. TypeOK'
    BY <1>1, <2>1 DEF TypeOK, Disk
  <2>3. ASSUME ~disk.lost PROVE Agree(mem, db, disk)' /\ PromisesAreSealed'
    <3>1. Agree(mem, db, disk) /\ PromisesAreSealed
      BY <2>3, WhileNotLost
    <3>2. db.rows # 0 => mem.rows = db.rows
      BY <3>1 DEF Agree, SavedIsSettled
    <3>3. \A x \in Peers : remote'[x] = IF x = q THEN mem.rows ELSE remote[x]
      BY <1>1, <2>1 DEF TypeOK
    <3>4. mem.healthy \subseteq Peers
      BY <1>1 DEF TypeOK, Library
    <3>5. RowsBelong(mem, db)' /\ UnsavedIsSealed(mem, db, disk)'
      BY <2>1, <3>1 DEF Agree, RowsBelong, UnsavedIsSealed
    <3>6. SavedIsSettled(mem, db, disk)'
      BY <2>1, <3>1 DEF SavedIsSettled, Settled, IsReadable
    <3>7. ElsewhereIsTheSame(mem, db)'
      BY <2>1, <3>1, <3>2, <3>3, <3>4 DEF Agree, ElsewhereIsTheSame
    <3> QED
      BY <2>1, <3>1, <3>5, <3>6, <3>7 DEF Agree, PromisesAreSealed
  <2> QED
    BY <2>1, <2>2, <2>3 DEF StoreInv
<1>3. CASE ReportReplica(q)
  <2>1. /\ mem.rows # 0 /\ remote[q] = mem.rows
        /\ mem' = [mem EXCEPT !.healthy = @ \cup {q}] /\ db' \in {db, mem'}
        /\ UNCHANGED <<disk, remote, sending, pulling, lock, acked>>
    BY <1>3 DEF ReportReplica, ProvesPossession, Decrypts, ChunksExist
  <2>2. /\ mem' \in Library /\ mem'.asset = mem.asset /\ mem'.rows = mem.rows /\ mem'.placed = mem.placed
        /\ mem'.healthy = mem.healthy \cup {q}
    BY <1>1, <2>1 DEF TypeOK, Library
  <2>3. TypeOK'
    BY <1>1, <2>1, <2>2 DEF TypeOK
  <2>4. ASSUME ~disk.lost PROVE Agree(mem, db, disk)' /\ PromisesAreSealed'
    <3>1. Agree(mem, db, disk) /\ PromisesAreSealed
      BY <2>4, WhileNotLost
    <3>2. db.rows # 0 /\ mem.rows = db.rows
      BY <1>1, <2>1, <3>1 DEF Agree, ElsewhereIsTheSame, SavedIsSettled
    <3>3. db'.rows = db.rows /\ (db' = db \/ db' = mem')
      BY <2>1, <2>2, <3>2
    <3>4. \A x \in mem'.healthy : remote[x] = db.rows
      BY <2>1, <2>2, <3>1, <3>2 DEF Agree, ElsewhereIsTheSame
    <3>5. ElsewhereIsTheSame(mem, db)'
      BY <2>1, <2>2, <3>1, <3>2, <3>3, <3>4 DEF Agree, ElsewhereIsTheSame
    <3>6. RowsBelong(mem, db)' /\ UnsavedIsSealed(mem, db, disk)'
      BY <2>1, <2>2, <3>1, <3>2, <3>3 DEF Agree, RowsBelong, UnsavedIsSealed
    <3>7. SavedIsSettled(mem, db, disk)'
      BY <2>1, <2>2, <3>1, <3>2, <3>3 DEF Agree, SavedIsSettled, Settled, IsReadable
    <3> QED
      BY <2>1, <2>2, <3>1, <3>3, <3>5, <3>6, <3>7 DEF Agree, PromisesAreSealed
  <2> QED
    BY <2>1, <2>3, <2>4 DEF StoreInv
<1>4. CASE RestoreChunk(q)
  <2>1. /\ q \in mem.healthy /\ remote[q] = mem.rows /\ mem.placed
        /\ disk' = [disk EXCEPT !.file = remote[q]] /\ db' \in {db, mem}
        /\ UNCHANGED <<mem, remote, sending, pulling, lock, acked>>
    BY <1>4 DEF RestoreChunk, CanRestoreFrom
  <2>2. /\ disk' \in Disk /\ disk'.lost = disk.lost /\ disk'.gens = disk.gens /\ disk'.file = mem.rows
        /\ disk'.source = disk.source /\ disk'.plain = disk.plain
    BY <1>1, <2>1 DEF TypeOK, Disk, Library
  <2>3. TypeOK'
    BY <1>1, <2>1, <2>2 DEF TypeOK
  <2>4. ASSUME ~disk.lost PROVE Agree(mem, db, disk)' /\ PromisesAreSealed'
    <3>1. Agree(mem, db, disk) /\ PromisesAreSealed
      BY <2>4, WhileNotLost
    <3>2. db.rows # 0 /\ mem.rows = db.rows /\ db'.rows = db.rows
      BY <1>1, <2>1, <3>1 DEF Agree, ElsewhereIsTheSame, SavedIsSettled, UnsavedIsSealed
    <3>3. RowsBelong(mem, db)' /\ UnsavedIsSealed(mem, db, disk)'
      BY <2>1, <3>1, <3>2 DEF Agree, RowsBelong, UnsavedIsSealed
    <3>4. SavedIsSettled(mem, db, disk)'
      BY <2>1, <2>2, <3>1, <3>2 DEF Agree, SavedIsSettled, Settled, IsReadable
    <3>5. ElsewhereIsTheSame(mem, db)'
      BY <2>1, <3>1, <3>2 DEF Agree, ElsewhereIsTheSame
    <3> QED
      BY <2>1, <3>1, <3>2, <3>3, <3>4, <3>5 DEF Agree, PromisesAreSealed
  <2> QED
    BY <2>2, <2>3, <2>4 DEF StoreInv
<1> QED
  BY <1>2, <1>3, <1>4

\* The user deletes the source; the disk loses the chunk file.
LEMMA LossStep ==
  ASSUME StoreInv, DeleteSource \/ LoseChunk
  PROVE  StoreInv'
<1>1. TypeOK
  BY DEF StoreInv
<1>2. CASE DeleteSource
  <2>1. disk' = [disk EXCEPT !.source = "deleted"] /\ UNCHANGED <<mem, db, remote, sending, pulling, lock, acked>>
    BY <1>2 DEF DeleteSource
  <2>2. /\ disk' \in Disk /\ disk'.lost = disk.lost /\ disk'.gens = disk.gens /\ disk'.file = disk.file
        /\ disk'.source = "deleted" /\ disk'.plain = disk.plain
    BY <1>1, <2>1 DEF TypeOK, Disk
  <2>3. TypeOK'
    BY <1>1, <2>1, <2>2 DEF TypeOK
  <2>4. ASSUME ~disk.lost PROVE Agree(mem, db, disk)' /\ PromisesAreSealed'
    <3>1. Agree(mem, db, disk) /\ PromisesAreSealed
      BY <2>4, WhileNotLost
    <3> QED
      BY <2>1, <2>2, <3>1 DEF Agree, RowsBelong, UnsavedIsSealed, SavedIsSettled, Settled, IsReadable,
         ElsewhereIsTheSame, PromisesAreSealed
  <2> QED
    BY <2>2, <2>3, <2>4 DEF StoreInv
<1>3. CASE LoseChunk
  <2>1. disk' = [disk EXCEPT !.file = 0, !.lost = TRUE] /\ UNCHANGED <<mem, db, remote, sending, pulling, lock, acked>>
    BY <1>3 DEF LoseChunk
  <2>2. disk' \in Disk /\ disk'.lost = TRUE /\ disk'.gens = disk.gens
    <3>1. 0 \in Gens /\ disk \in Disk
      BY <1>1, StoreAssumption DEF TypeOK, Gens
    <3> QED
      BY <2>1, <3>1 DEF Disk
  <2>3. TypeOK'
    BY <1>1, <2>1, <2>2 DEF TypeOK
  <2> QED
    BY <2>2, <2>3 DEF StoreInv
<1> QED
  BY <1>2, <1>3


-----------------------------------------------------------------------------
(* Theorems. *)

\* A new library has no rows and no files.
LEMMA StoreStarts == Init => StoreInv
<1> SUFFICES ASSUME Init PROVE StoreInv
  OBVIOUS
<1>1. PICK policy \in Policies : mem = NoRows(policy)
  BY DEF Init
<1>2. 0 \in Gens /\ policy \in {"EncryptedOnly", "KeepPlaintextCopy"}
  BY StoreAssumption DEF Gens
<1>3. mem \in Library /\ mem.asset = "none" /\ mem.rows = 0 /\ mem.healthy = {}
  BY <1>1, <1>2 DEF NoRows, Library
<1>4. disk \in Disk /\ disk.gens = 0
  BY <1>2 DEF Init, Disk
<1>5. TypeOK
  BY <1>2, <1>3, <1>4 DEF Init, TypeOK, NoPull, Free
<1>6. Agree(mem, db, disk)
  BY <1>3 DEF Init, Agree, RowsBelong, UnsavedIsSealed, SavedIsSettled, ElsewhereIsTheSame, NoPull
<1>7. PromisesAreSealed
  BY DEF Init, PromisesAreSealed, Free
<1> QED
  BY <1>5, <1>6, <1>7 DEF StoreInv

\* Every handler, crash and loss keeps the invariant.
LEMMA StoreKept == StoreInv /\ [Next]_vars => StoreInv'
<1> SUFFICES ASSUME StoreInv, [Next]_vars PROVE StoreInv'
  OBVIOUS
<1>1. CASE \E mode \in ImportModes : Import(mode)
  BY <1>1, ImportStep
<1>2. CASE \/ ImportDuplicate \/ Read \/ Crash
           \/ (\E policy \in Policies : SetPolicy(policy))
           \/ (\E ps \in SUBSET Desktops : RunSync(ps))
  BY <1>2, RefreshOnly
<1>3. CASE Pin
  BY <1>3, PinStep
<1>4. CASE Evict
  BY <1>4, EvictStep
<1>5. CASE \E p \in Desktops : SendBlob(p) \/ SendAnswered(p)
  BY <1>5, SendStep
<1>6. CASE PublishPull \/ CommitPull \/ \E p \in Desktops : StartPull(p)
  BY <1>6, PullStep
<1>7. CASE \E q \in Phones : FetchChunk(q) \/ ReportReplica(q) \/ RestoreChunk(q)
  BY <1>7, PhoneStep
<1>8. CASE SaveCommits \/ SaveFails
  BY <1>8, SaveStep
<1>9. CASE DeleteSource \/ LoseChunk
  BY <1>9, LossStep
<1>10. CASE UNCHANGED vars
  BY <1>10 DEF vars, StoreInv, TypeOK, Agree, RowsBelong, UnsavedIsSealed, SavedIsSettled, Settled,
     IsReadable, ElsewhereIsTheSame, PromisesAreSealed
<1> QED
  BY <1>1, <1>2, <1>3, <1>4, <1>5, <1>6, <1>7, <1>8, <1>9, <1>10 DEF Next

\* The inductive invariant holds in every reachable state.
THEOREM StoreInvariance == Spec => []StoreInv
<1> QED
  BY StoreStarts, StoreKept, PTL DEF Spec

\* Every variable keeps its type, and no row names a sealing that was not made.
THEOREM StoreTypes == Spec => []TypeOK
<1>1. StoreInv => TypeOK
  BY DEF StoreInv
<1> QED
  BY <1>1, StoreInvariance, PTL

\* Once commit_import_session has answered, the original is readable on some
\* device with the rows in memory and with those a restart would load.
THEOREM AcknowledgedIsHeld == Spec => []AckedImportHeld
<1>1. StoreInv => AckedImportHeld
  <2> SUFFICES ASSUME StoreInv, acked = "imported", ~disk.lost, NEW l \in {mem, db}
               PROVE  l.asset # "none" /\ IsHeld(l, disk)
    BY DEF AckedImportHeld
  <2>1. Agree(mem, db, disk) /\ db.rows # 0
    BY WhileNotLost DEF PromisesAreSealed
  <2>2. l.rows = db.rows
    BY <2>1 DEF Agree, SavedIsSettled
  <2>3. l.asset # "none"
    BY <2>1, <2>2 DEF Agree, RowsBelong
  <2>4. disk.file = l.rows \/ \E p \in Peers : remote[p] = l.rows
    BY <2>1, <2>2 DEF Agree, SavedIsSettled
  <2> QED
    BY <2>1, <2>2, <2>3, <2>4 DEF IsHeld
<1> QED
  BY <1>1, StoreInvariance, PTL

\* A replica that evict_local_asset counts has what the rows describe.
THEOREM CountedIsReadable == Spec => []VerifiedReplicaReadable
<1>1. StoreInv => VerifiedReplicaReadable
  <2> SUFFICES ASSUME StoreInv, ~disk.lost
               PROVE  \A l \in {mem, db} : \A p \in l.healthy : l.rows # 0 /\ remote[p] = l.rows
    BY DEF VerifiedReplicaReadable
  <2> QED
    BY WhileNotLost DEF Agree, ElsewhereIsTheSame
<1> QED
  BY <1>1, StoreInvariance, PTL

\* A refresh takes a readable copy away only when the original reads back from
\* its chunk file or the source is there, and never the user's own file.
LEMMA RefreshGoesSafely ==
  ASSUME NEW l \in Library, NEW d \in Disk, l.rows <= d.gens, NEW r \in Refreshed(l, d)
  PROVE  /\ r.disk.source = d.source
         /\ d.plain /\ ~r.disk.plain =>
              (r.lib.placed /\ r.disk.file # 0 /\ r.disk.file = r.lib.rows) \/ r.disk.source = "there"
<1>1. Outcome(l, d, r)
  BY RefreshedOutcome
<1> QED
  BY <1>1 DEF Outcome

\* No step takes the last readable copy of an original away: the policy, the
\* rollback of a failed seal and the eviction each leave another; and only a
\* Move import takes the user's own file.
THEOREM OriginalsLeaveSafely == Spec => OriginalsGoSafely
<1> DEFINE Gone == disk.plain /\ ~disk'.plain
           Left == \/ mem'.placed /\ disk'.file # 0 /\ disk'.file = mem'.rows
                   \/ disk'.source = "there"
                   \/ Replicated(mem')
           Gave == disk.source = "there" /\ disk'.source = "removed"
           Renamed == mem.asset = "none" /\ mem'.asset = "Move"
<1>1. ASSUME StoreInv, Next PROVE (Gone => Left) /\ (Gave => Renamed)
  <2>1. mem \in Library /\ db \in Library /\ disk \in Disk /\ mem.rows <= disk.gens /\ db.rows <= disk.gens
    BY <1>1 DEF StoreInv, TypeOK
  <2>2. CASE \E l, r : l \in Library /\ r \in Refreshed(l, disk) /\ l.rows <= disk.gens
                       /\ mem' = r.lib /\ disk' = r.disk
    BY <2>1, <2>2, RefreshGoesSafely
  <2>3. CASE ImportDuplicate \/ Read \/ Crash \/ \E ps \in SUBSET Desktops : RunSync(ps)
    BY <2>1, <2>2, <2>3 DEF ImportDuplicate, Read, Crash, RunSync, RefreshThenSave
  <2>4. CASE \E policy \in Policies : SetPolicy(policy)
    <3>1. PICK policy \in Policies : SetPolicy(policy)
      BY <2>4
    <3>2. [mem EXCEPT !.policy = policy] \in Library /\ [mem EXCEPT !.policy = policy].rows = mem.rows
      BY <2>1, StoreAssumption DEF Library
    <3>3. PICK r \in Refreshed([mem EXCEPT !.policy = policy], disk) : RefreshThenSave(r, Saving("settings"))
      BY <3>1 DEF SetPolicy
    <3> QED
      BY <2>1, <2>2, <3>2, <3>3 DEF RefreshThenSave
  <2>5. CASE \E mode \in ImportModes : Import(mode)
    <3>1. PICK mode \in ImportModes : Import(mode)
      BY <2>5
    <3> DEFINE lib == [mem EXCEPT !.asset = mode]
               placed == [disk EXCEPT
                            !.plain = @ \/ mode \in {"Copy", "Move"},
                            !.source = IF mode = "Move" THEN "removed" ELSE @,
                            !.file = 0]
    <3>2. PICK r \in Refreshed(lib, placed) :
             RefreshThenSave(r, IF r.ok THEN Saving("imported") ELSE Free)
      BY <3>1 DEF Import
    <3>3. mem.asset = "none" /\ mode \in {"Copy", "Move", "Reference"} /\ 0 \in Gens
      BY <3>1, StoreAssumption DEF Import, Gens
    <3>4. lib \in Library /\ lib.rows = mem.rows /\ lib.asset = mode
      BY <2>1, <3>3 DEF Library
    <3>5. (disk.plain \/ mode \in {"Copy", "Move"}) \in BOOLEAN
          /\ (IF mode = "Move" THEN "removed" ELSE disk.source) \in {"there", "removed", "deleted"}
      BY <2>1 DEF Disk
    <3>6. /\ placed \in Disk /\ placed.gens = disk.gens
          /\ placed.plain = (disk.plain \/ mode \in {"Copy", "Move"})
          /\ placed.source = IF mode = "Move" THEN "removed" ELSE disk.source
      BY <2>1, <3>3, <3>5 DEF Disk
    <3> HIDE DEF lib, placed
    <3>7. /\ r.disk.source = placed.source
          /\ placed.plain /\ ~r.disk.plain =>
               (r.lib.placed /\ r.disk.file # 0 /\ r.disk.file = r.lib.rows) \/ r.disk.source = "there"
      BY <2>1, <3>2, <3>4, <3>6, RefreshGoesSafely
    <3>8. mem' = r.lib /\ disk' = r.disk
      BY <3>2 DEF RefreshThenSave
    <3>9. r.lib.asset = mode
      BY <2>1, <3>2, <3>4, <3>6, RefreshedOutcome DEF Outcome
    <3> QED
      BY <3>3, <3>6, <3>7, <3>8, <3>9
  <2>6. CASE Pin
    <3>1. PICK r \in Refreshed(mem, disk) :
             RefreshThenSave([r EXCEPT !.disk.plain = TRUE], Saving("pinned"))
      BY <2>6 DEF Pin
    <3>2. Outcome(mem, disk, r)
      BY <2>1, <3>1, RefreshedOutcome
    <3>3. PICK e, ok : e \in Disk /\ r = [lib |-> r.lib, disk |-> e, ok |-> ok]
      BY <3>1, <3>2 DEF Refreshed, SealFailed, Sealed, Outcome
    <3>4. disk' = [r.disk EXCEPT !.plain = TRUE]
      BY <3>1, <3>3 DEF RefreshThenSave
    <3>5. disk'.plain = TRUE /\ disk'.source = disk.source
      BY <3>2, <3>4 DEF Outcome, Disk
    <3> QED
      BY <3>5
  <2>7. CASE Evict
    <3> DEFINE Bare(r) == IF IsReadable(r.lib, r.disk) THEN WithoutOriginal(r.lib, r.disk) ELSE r.disk
               Unplaced(r) == [r.lib EXCEPT !.placed = FALSE]
    <3>1. PICK r \in Refreshed(mem, disk) :
            /\ IsManaged(r.lib) /\ Replicated(r.lib)
            /\ \/ RefreshThenSave([lib |-> Unplaced(r),
                                   disk |-> [Bare(r) EXCEPT !.file = IF r.lib.placed THEN 0 ELSE @]],
                                  Saving("evicted"))
               \/ RefreshThenSave([lib |-> Unplaced(r), disk |-> Bare(r)], Free)
      BY <2>7 DEF Evict
    <3>2. Outcome(mem, disk, r)
      BY <2>1, <3>1, RefreshedOutcome
    <3>3. Bare(r) \in Disk /\ Bare(r).source = disk.source
      BY <3>1, <3>2 DEF WithoutOriginal, IsManaged, Outcome, Disk
    <3>4. Unplaced(r).healthy = r.lib.healthy
      BY <3>2 DEF Outcome, Library
    <3>5. disk' = [Bare(r) EXCEPT !.file = IF r.lib.placed THEN 0 ELSE @] \/ disk' = Bare(r)
      BY <3>1 DEF RefreshThenSave
    <3>6. mem' = Unplaced(r)
      BY <3>1 DEF RefreshThenSave
    <3> HIDE DEF Bare, Unplaced
    <3>7. disk'.source = disk.source
      BY <3>3, <3>5 DEF Disk
    <3>8. Replicated(mem')
      BY <3>1, <3>4, <3>6 DEF Replicated
    <3> QED
      BY <3>7, <3>8
  <2>8. CASE DeleteSource
    <3>1. disk'.plain = disk.plain /\ disk'.source = "deleted"
      BY <2>1, <2>8 DEF DeleteSource, Disk
    <3> QED
      BY <3>1
  <2>9. CASE disk'.plain = disk.plain /\ disk'.source = disk.source
    BY <2>9
  <2>10. CASE \/ PublishPull \/ CommitPull \/ SaveCommits \/ SaveFails \/ LoseChunk
              \/ (\E p \in Desktops : SendBlob(p) \/ SendAnswered(p) \/ StartPull(p))
              \/ (\E q \in Phones : FetchChunk(q) \/ ReportReplica(q) \/ RestoreChunk(q))
    <3>1. disk'.plain = disk.plain /\ disk'.source = disk.source
      BY <2>1, <2>10 DEF PublishPull, CommitPull, SaveCommits, SaveFails, LoseChunk, SendBlob,
         SendAnswered, StartPull, FetchChunk, ReportReplica, RestoreChunk, Disk
    <3> QED
      BY <2>9, <3>1
  <2> QED
    BY <1>1, <2>3, <2>4, <2>5, <2>6, <2>7, <2>8, <2>10 DEF Next
<1>2. StoreInv /\ [Next]_vars => [Gone => Left]_vars /\ [Gave => Renamed]_vars
  BY <1>1
<1> QED
  BY <1>2, StoreInvariance, PTL DEF Spec, OriginalsGoSafely, PlaintextGoesSafely, SourceLeavesOnlyByMove

-----------------------------------------------------------------------------
(***************************************************************************)
(* Theorems about ImportSessions, for any files, contents, vaults, modes    *)
(* and bounds: what a session says adds up, and a moved file stays where    *)
(* its asset says.                                                          *)
(*                                                                          *)
(* The argument.  A commit is a loop over the candidates of the session;    *)
(* the model says what stands after n of them (AfterCandidates), so what    *)
(* each candidate keeps is kept by the loop, by induction over its turns    *)
(* (TurnByTurn): identities stay unique, the three lists of the answer grow *)
(* by one candidate at most, and an asset that is there is never changed    *)
(* but for its seal.  All of it is said of a library, and holds of the one  *)
(* in memory and of the one in the database (ImportInv).                    *)
(***************************************************************************)

AssetsUpTo(n) ==
    [id : 1..n, vault : Into, hash : Bytes, mode : Modes, path : Paths, sealed : Bytes \cup {Nothing}]
CandidateType == [path : Paths, hash : Bytes, selected : BOOLEAN, duplicate : Nat]
SessionType ==
    [target : Into \cup {0}, mode : Modes, status : {"scanned", "committed"}, imported : SUBSET Nat,
     skipped : Seq(Nat), failed : SUBSET Paths, candidates : Seq(CandidateType)]
LibType(n) == [assets : SUBSET AssetsUpTo(n), sessions : Seq(SessionType)]

\* A number names one asset, whatever became of its seal.
SameAsset(a, b) ==
    a.id = b.id => a.vault = b.vault /\ a.hash = b.hash /\ a.mode = b.mode /\ a.path = b.path

Unique(assets) == \A a, b \in assets : a.id = b.id => a = b

Named(assets, vault, id) == \E a \in assets : a.id = id /\ a.vault = vault
Has(assets, vault, id, hash) == \E a \in assets : a.id = id /\ a.vault = vault /\ a.hash = hash

Selected(candidates) == {n \in DOMAIN candidates : candidates[n].selected}

\* One file is one candidate.
Listed(candidates) ==
    /\ Len(candidates) <= Cardinality(Paths)
    /\ \A m, n \in DOMAIN candidates : candidates[m].path = candidates[n].path => m = n

DuplicatesAreThere(assets, session) ==
    \A n \in DOMAIN session.candidates :
        session.candidates[n].duplicate # 0 =>
            Has(assets, session.target, session.candidates[n].duplicate, session.candidates[n].hash)

SkippedAreDuplicates(session) ==
    \A id \in Range(session.skipped) :
        id # 0 /\ \E n \in Selected(session.candidates) : session.candidates[n].duplicate = id

AddsUp(assets, session) ==
    /\ \A id \in session.imported : Named(assets, session.target, id)
    /\ Cardinality(session.imported) + Len(session.skipped) + Cardinality(session.failed)
          = Cardinality(Selected(session.candidates))
    /\ SkippedAreDuplicates(session)

SessionSound(assets, session) ==
    /\ Listed(session.candidates) /\ DuplicatesAreThere(assets, session)
    /\ session.status = "committed" => AddsUp(assets, session)

LibSound(l, n) ==
    /\ l \in LibType(n) /\ Unique(l.assets) /\ ImportsFit(l)
    /\ \A s \in DOMAIN l.sessions : SessionSound(l.assets, l.sessions[s])

Filed(a, files) == a.mode = "Move" => files[a.id] = a.hash /\ a.sealed \in {Nothing, a.hash}

ImportInv ==
    /\ folder \in [Paths -> Bytes \cup {Nothing}]
    /\ taken \in 0..MaxTaken /\ managed \in [1..MaxTaken -> Bytes \cup {Nothing}]
    /\ LibSound(imports, taken) /\ LibSound(importRows, taken)
    /\ \A a \in imports.assets, b \in importRows.assets : SameAsset(a, b)
    /\ \A a \in imports.assets \cup importRows.assets : Filed(a, managed)
-----------------------------------------------------------------------------
\* The loop over the candidates: after `n` of them, of which `picked` are selected.
Contents == Bytes \cup {Nothing}
RunType ==
    [session : SessionType, folder : [Paths -> Contents], managed : [1..MaxTaken -> Contents],
     taken : Nat, known : SUBSET Bytes, new : SUBSET AssetsUpTo(MaxTaken), stopped : BOOLEAN]

UpTo(picked, n) == {k \in picked : k <= n}

\* The candidates are those of the scan.
SameFiles(run, candidates, picked) ==
    /\ DOMAIN run.session.candidates = DOMAIN candidates
    /\ \A k \in DOMAIN candidates :
          /\ run.session.candidates[k].path = candidates[k].path
          /\ run.session.candidates[k].hash = candidates[k].hash
          /\ run.session.candidates[k].selected <=> k \in picked

\* The new assets have new numbers, and contents that the vault did not have.
NewAreNew(run, vault) ==
    /\ run.new \subseteq AssetsUpTo(run.taken) /\ Unique(run.new)
    /\ \A a \in run.new : a.id > taken /\ a.vault = vault /\ a.sealed = Nothing
    /\ \A a \in run.new, b \in imports.assets \cup run.new : a.vault = b.vault /\ a.hash = b.hash => a = b
    /\ \A hash : hash \in run.known <=> \E a \in imports.assets \cup run.new : a.vault = vault /\ a.hash = hash

\* Every selected candidate so far was imported, skipped or failed.
CountedSoFar(run, n, picked) ==
    /\ run.session.imported \subseteq 1..run.taken
    /\ \A id \in run.session.imported : \E a \in run.new : a.id = id
    /\ run.session.failed \subseteq {run.session.candidates[k].path : k \in 1..n}
    /\ \A id \in Range(run.session.skipped) :
          id # 0 /\ \E k \in UpTo(picked, n) : run.session.candidates[k].duplicate = id
    /\ ~run.stopped =>
          Cardinality(run.session.imported) + Len(run.session.skipped) + Cardinality(run.session.failed)
             = Cardinality(UpTo(picked, n))

RunInv(run, n, candidates, picked, vault) ==
    /\ run \in RunType /\ run.session.target = vault /\ SameFiles(run, candidates, picked)
    /\ run.taken \in taken..MaxTaken /\ run.taken <= taken + Cardinality(UpTo(picked, n))
    /\ NewAreNew(run, vault) /\ CountedSoFar(run, n, picked)
    /\ DuplicatesAreThere(imports.assets \cup run.new, run.session)
    /\ \A i \in 1..taken : run.managed[i] = managed[i]
    /\ \A a \in run.new : Filed(a, run.managed)

\* Of the selected candidates, one more is behind the loop at each of them.
LEMMA UpToGrows ==
  ASSUME NEW N \in Nat, NEW picked \in SUBSET (1..N), NEW n \in 1..N
  PROVE  /\ IsFiniteSet(picked) /\ Cardinality(UpTo(picked, n)) \in Nat
         /\ Cardinality(UpTo(picked, n - 1)) \in Nat
         /\ Cardinality(UpTo(picked, n)) <= Cardinality(picked)
         /\ n \in picked => Cardinality(UpTo(picked, n)) = Cardinality(UpTo(picked, n - 1)) + 1
         /\ n \notin picked => UpTo(picked, n) = UpTo(picked, n - 1)
<1>1. IsFiniteSet(1..N)
  BY FS_Interval
<1>2. IsFiniteSet(picked)
  BY <1>1, FS_Subset
<1>3. UpTo(picked, n) \in SUBSET picked /\ UpTo(picked, n - 1) \in SUBSET picked
  BY DEF UpTo
<1>4. /\ IsFiniteSet(UpTo(picked, n)) /\ IsFiniteSet(UpTo(picked, n - 1))
      /\ Cardinality(UpTo(picked, n)) <= Cardinality(picked)
  BY <1>2, <1>3, FS_Subset
<1> \A k \in picked : k <= n <=> k <= n - 1 \/ k = n
  OBVIOUS
<1>5. n \notin UpTo(picked, n - 1)
  BY DEF UpTo
<1>6. n \in picked => UpTo(picked, n) = UpTo(picked, n - 1) \cup {n}
  BY DEF UpTo
<1>7. n \in picked => Cardinality(UpTo(picked, n)) = Cardinality(UpTo(picked, n - 1)) + 1
  BY <1>4, <1>5, <1>6, FS_AddElement
<1>8. n \notin picked => UpTo(picked, n) = UpTo(picked, n - 1)
  BY DEF UpTo
<1> QED BY <1>2, <1>4, <1>7, <1>8, FS_CardinalityType

\* What a commit knows when it comes to candidate `n`.
Turn(run, n, candidates, picked, vault) ==
    /\ candidates \in Seq(CandidateType) /\ Listed(candidates)
    /\ picked \subseteq 1..Len(candidates) /\ n \in 1..Len(candidates)
    /\ vault \in Into /\ taken + Cardinality(picked) <= MaxTaken
    /\ RunInv(run, n - 1, candidates, picked, vault)

\* The candidate, and the list it is in.
LEMMA TurnCandidate ==
  ASSUME NEW run, NEW n, NEW candidates, NEW picked, NEW vault, Turn(run, n, candidates, picked, vault)
  PROVE  /\ run.session \in SessionType /\ run.session.candidates \in Seq(CandidateType)
         /\ n \in DOMAIN run.session.candidates /\ DOMAIN run.session.candidates = DOMAIN candidates
         /\ run.session.candidates[n] \in CandidateType
         /\ run.session.candidates[n].selected <=> n \in picked
         /\ n \in Nat /\ n > 0 /\ picked \in SUBSET (1..Len(candidates)) /\ Len(candidates) \in Nat
<1>1. run \in RunType /\ SameFiles(run, candidates, picked)
  BY DEF Turn, RunInv
<1>2. run.session \in SessionType /\ run.session.candidates \in Seq(CandidateType)
  BY <1>1 DEF RunType, SessionType
<1>3. DOMAIN candidates = 1..Len(candidates) /\ Len(candidates) \in Nat
  BY LenProperties DEF Turn
<1>4. n \in DOMAIN candidates /\ n \in Nat /\ n > 0
  BY <1>3 DEF Turn
<1>5. n \in DOMAIN run.session.candidates /\ DOMAIN run.session.candidates = DOMAIN candidates
  BY <1>1, <1>4 DEF SameFiles
<1>6. run.session.candidates[n] \in CandidateType
  BY <1>2, <1>5, ElementOfSeq, LenProperties
<1> QED BY <1>1, <1>2, <1>3, <1>4, <1>5, <1>6 DEF SameFiles, Turn

\* A candidate that was not selected leaves everything as it is.
LEMMA PassedBy ==
  ASSUME NEW run, NEW n, NEW candidates, NEW picked, NEW vault,
         Turn(run, n, candidates, picked, vault), n \notin picked
  PROVE  RunInv(run, n, candidates, picked, vault)
<1> n \in 1..Len(candidates) /\ Len(candidates) \in Nat /\ picked \in SUBSET (1..Len(candidates))
  BY TurnCandidate DEF Turn
<1>1. UpTo(picked, n) = UpTo(picked, n - 1)
  BY UpToGrows
<1>2. 1..n - 1 \subseteq 1..n
  BY TurnCandidate
<1>3. CountedSoFar(run, n - 1, picked) => CountedSoFar(run, n, picked)
  BY <1>1, <1>2 DEF CountedSoFar
<1> QED BY <1>1, <1>3 DEF Turn, RunInv

\* Once a commit has stopped, nothing happens any more.
LEMMA StoppedBy ==
  ASSUME NEW run, NEW n, NEW candidates, NEW picked, NEW vault,
         Turn(run, n, candidates, picked, vault), ImportInv
  PROVE  RunInv([run EXCEPT !.stopped = TRUE], n, candidates, picked, vault)
<1> DEFINE r == [run EXCEPT !.stopped = TRUE]
<1>1. /\ r \in RunType /\ r.stopped /\ r.session = run.session /\ r.folder = run.folder
      /\ r.managed = run.managed /\ r.taken = run.taken /\ r.known = run.known /\ r.new = run.new
  BY DEF Turn, RunInv, RunType
<1> HIDE DEF r
<1>2. UpTo(picked, n - 1) \subseteq UpTo(picked, n) /\ 1..n - 1 \subseteq 1..n
  BY TurnCandidate DEF UpTo
<1> n \in 1..Len(candidates) /\ Len(candidates) \in Nat /\ picked \in SUBSET (1..Len(candidates))
  BY TurnCandidate DEF Turn
<1>3. /\ Cardinality(UpTo(picked, n - 1)) \in Nat /\ Cardinality(UpTo(picked, n)) \in Nat
      /\ Cardinality(UpTo(picked, n - 1)) <= Cardinality(UpTo(picked, n))
  <2> DEFINE now == Cardinality(UpTo(picked, n))
             before == Cardinality(UpTo(picked, n - 1))
  <2>1. now \in Nat /\ before \in Nat /\ (n \in picked => now = before + 1) /\ (n \notin picked => now = before)
    BY UpToGrows, Zenon
  <2> HIDE DEF now, before
  <2>2. before <= now
    BY <2>1
  <2> QED BY <2>1, <2>2 DEF now, before
<1>4. taken \in Nat /\ r.taken \in Nat /\ r.taken <= taken + Cardinality(UpTo(picked, n))
  BY <1>1, <1>3, ImportAssumption DEF Turn, RunInv, ImportInv
<1>5. CountedSoFar(r, n, picked)
  BY <1>1, <1>2 DEF Turn, RunInv, CountedSoFar
<1>6. SameFiles(r, candidates, picked) /\ NewAreNew(r, vault)
  BY <1>1 DEF Turn, RunInv, SameFiles, NewAreNew
<1>7. /\ r.session.target = vault /\ r.taken \in taken..MaxTaken
      /\ DuplicatesAreThere(imports.assets \cup r.new, r.session)
      /\ \A i \in 1..taken : r.managed[i] = managed[i]
      /\ \A a \in r.new : Filed(a, r.managed)
  BY <1>1 DEF Turn, RunInv
<1> QED BY <1>1, <1>4, <1>5, <1>6, <1>7 DEF RunInv, r

\* There is a number left for what a selected candidate becomes.
LEMMA RoomForOne ==
  ASSUME NEW run, NEW n, NEW candidates, NEW picked, NEW vault,
         Turn(run, n, candidates, picked, vault), ImportInv, n \in picked
  PROVE  /\ taken \in Nat /\ run.taken \in Nat /\ MaxTaken \in Nat /\ taken <= run.taken
         /\ Cardinality(UpTo(picked, n)) \in Nat /\ Cardinality(UpTo(picked, n - 1)) \in Nat
         /\ Cardinality(UpTo(picked, n)) = Cardinality(UpTo(picked, n - 1)) + 1
         /\ run.taken + 1 <= taken + Cardinality(UpTo(picked, n)) /\ run.taken + 1 \in 1..MaxTaken
         /\ UpTo(picked, n - 1) \subseteq UpTo(picked, n) /\ n \in UpTo(picked, n)
<1> DEFINE now == Cardinality(UpTo(picked, n))
           before == Cardinality(UpTo(picked, n - 1))
           all == Cardinality(picked)
<1>1. n \in 1..Len(candidates) /\ Len(candidates) \in Nat /\ picked \in SUBSET (1..Len(candidates))
  BY TurnCandidate DEF Turn
<1>2. now \in Nat /\ before \in Nat /\ now = before + 1 /\ now <= all /\ IsFiniteSet(picked)
  BY <1>1, UpToGrows, Zenon
<1>3. all \in Nat
  BY <1>2, FS_CardinalityType
<1>4. /\ taken \in 0..MaxTaken /\ MaxTaken \in Nat /\ run.taken \in taken..MaxTaken
      /\ run.taken <= taken + before /\ taken + all <= MaxTaken
  BY ImportAssumption DEF Turn, RunInv, ImportInv
<1>5. UpTo(picked, n - 1) \subseteq UpTo(picked, n) /\ n \in UpTo(picked, n)
  <2>1. n <= n /\ \A k \in picked : k <= n - 1 => k <= n
    BY <1>1
  <2> QED BY <2>1 DEF UpTo
<1> HIDE DEF now, before, all
<1>6. /\ taken \in Nat /\ run.taken \in Nat /\ run.taken + 1 <= taken + now /\ run.taken + 1 \in 1..MaxTaken
      /\ taken <= run.taken
  BY <1>2, <1>3, <1>4
<1> QED BY <1>2, <1>4, <1>5, <1>6 DEF now, before

\* What a candidate with a duplicate in the vault changes.
SkipsOne(run, r, n, id) ==
    LET c == run.session.candidates
    IN /\ r \in RunType
       /\ r.session.candidates = [c EXCEPT ![n] = [c[n] EXCEPT !.duplicate = id]]
       /\ r.session.skipped = Append(run.session.skipped, id)
       /\ r.session.imported = run.session.imported /\ r.session.failed = run.session.failed
       /\ r.session.target = run.session.target /\ r.stopped = run.stopped
       /\ r.folder = run.folder /\ r.managed = run.managed /\ r.taken = run.taken
       /\ r.known = run.known /\ r.new = run.new

\* It is marked, and changes nothing else.
LEMMA SkippedChanges ==
  ASSUME NEW run, NEW n, NEW candidates, NEW picked, NEW vault,
         Turn(run, n, candidates, picked, vault), NEW id \in Nat
  PROVE  SkipsOne(run, Skipped(run, n, id), n, id)
<1> DEFINE c == run.session.candidates
           d == [c[n] EXCEPT !.duplicate = id]
           listed == [c EXCEPT ![n] = d]
           skipped == Append(run.session.skipped, id)
           session == [run.session EXCEPT !.candidates = listed, !.skipped = skipped]
           r == [run EXCEPT !.session = session]
<1>1. /\ run \in RunType /\ run.session \in SessionType /\ c \in Seq(CandidateType)
      /\ n \in DOMAIN c /\ c[n] \in CandidateType
  <2>1. run \in RunType
    BY DEF Turn, RunInv
  <2> QED BY <2>1, TurnCandidate
<1>2. d \in CandidateType
  BY <1>1 DEF CandidateType
<1>3. listed \in Seq(CandidateType)
  BY <1>1, <1>2, ExceptSeq, LenProperties
<1>4. run.session.skipped \in Seq(Nat) /\ skipped \in Seq(Nat)
  BY <1>1, AppendProperties DEF SessionType
<1>5. Skipped(run, n, id) = r
  BY <1>1, Zenon DEF Skipped, RunType, SessionType
<1> HIDE DEF listed, skipped
<1>6. /\ session \in SessionType /\ session.candidates = listed /\ session.skipped = skipped
      /\ session.imported = run.session.imported /\ session.failed = run.session.failed
      /\ session.target = run.session.target
  BY <1>1, <1>3, <1>4 DEF SessionType
<1> HIDE DEF session
<1>7. /\ r \in RunType /\ r.session = session /\ r.stopped = run.stopped
      /\ r.folder = run.folder /\ r.managed = run.managed /\ r.taken = run.taken
      /\ r.known = run.known /\ r.new = run.new
  BY <1>1, <1>6 DEF RunType
<1> QED BY <1>5, <1>6, <1>7 DEF SkipsOne, listed, skipped

\* What is skipped is counted, and named as what it duplicates.
LEMMA SkippedBy ==
  ASSUME NEW run, NEW n, NEW candidates, NEW picked, NEW vault,
         Turn(run, n, candidates, picked, vault), ImportInv, n \in picked, NEW id \in Nat, id # 0,
         Has(imports.assets \cup run.new, vault, id, run.session.candidates[n].hash)
  PROVE  RunInv(Skipped(run, n, id), n, candidates, picked, vault)
<1> DEFINE r == Skipped(run, n, id)
           c == run.session.candidates
           d == r.session.candidates
<1>0. SkipsOne(run, r, n, id)
  BY SkippedChanges
<1>1. /\ r \in RunType /\ d = [c EXCEPT ![n] = [c[n] EXCEPT !.duplicate = id]]
      /\ r.session.skipped = Append(run.session.skipped, id)
      /\ r.session.imported = run.session.imported /\ r.session.failed = run.session.failed
      /\ r.session.target = run.session.target /\ r.stopped = run.stopped
      /\ r.folder = run.folder /\ r.managed = run.managed /\ r.taken = run.taken
      /\ r.known = run.known /\ r.new = run.new
  BY <1>0, Zenon DEF SkipsOne
<1>2. /\ c \in Seq(CandidateType) /\ n \in DOMAIN c /\ c[n] \in CandidateType /\ n \in Nat
      /\ DOMAIN c = DOMAIN candidates
  BY TurnCandidate
<1> HIDE DEF r
<1>3. /\ DOMAIN d = DOMAIN c /\ d[n].duplicate = id /\ d[n].path = c[n].path
      /\ d[n].hash = c[n].hash /\ d[n].selected = c[n].selected
      /\ \A k \in DOMAIN c : k # n => d[k] = c[k]
  BY <1>1, <1>2 DEF CandidateType
<1> HIDE DEF c, d
<1>4. \A k \in DOMAIN c : d[k].path = c[k].path /\ d[k].hash = c[k].hash /\ d[k].selected = c[k].selected
  BY <1>3
<1>5. SameFiles(r, candidates, picked)
  BY <1>2, <1>3, <1>4 DEF Turn, RunInv, SameFiles, c, d
<1>6. NewAreNew(r, vault)
  BY <1>1 DEF Turn, RunInv, NewAreNew
<1>7. DuplicatesAreThere(imports.assets \cup r.new, r.session)
  BY <1>1, <1>3, <1>4 DEF Turn, RunInv, DuplicatesAreThere, c, d
<1>8. CountedSoFar(r, n, picked)
  <2>1. CountedSoFar(run, n - 1, picked)
    BY DEF Turn, RunInv
  <2>2. /\ UpTo(picked, n - 1) \subseteq UpTo(picked, n) /\ n \in UpTo(picked, n)
        /\ Cardinality(UpTo(picked, n)) = Cardinality(UpTo(picked, n - 1)) + 1
        /\ Cardinality(UpTo(picked, n - 1)) \in Nat
    BY RoomForOne
  <2>3. run.session.skipped \in Seq(Nat)
    BY TurnCandidate DEF SessionType
  <2>4. /\ Len(r.session.skipped) = Len(run.session.skipped) + 1
        /\ \A x \in Range(r.session.skipped) : x = id \/ x \in Range(run.session.skipped)
    <3>1. Len(run.session.skipped) \in Nat /\ DOMAIN run.session.skipped = 1..Len(run.session.skipped)
      BY <2>3, LenProperties
    <3>2. Append(run.session.skipped, id) \in Seq(Nat)
      BY <2>3, AppendProperties
    <3>3. DOMAIN Append(run.session.skipped, id) = 1..Len(run.session.skipped) + 1
      BY <2>3, <3>1, <3>2, AppendProperties, LenProperties
    <3> QED BY <1>1, <2>3, <3>1, <3>3, AppendProperties DEF Range
  <2>5. ASSUME NEW x \in Range(r.session.skipped)
        PROVE  x # 0 /\ \E k \in UpTo(picked, n) : d[k].duplicate = x
    <3>1. CASE x = id
      BY <1>3, <2>2, <3>1
    <3>2. CASE x # id
      <4>1. PICK k \in UpTo(picked, n - 1) : x # 0 /\ c[k].duplicate = x
        BY <2>1, <2>4, <2>5, <3>2 DEF CountedSoFar, c
      <4>2. k # n /\ k \in UpTo(picked, n) /\ k \in DOMAIN c
        BY <1>2, <2>2, <4>1, TurnCandidate, LenProperties DEF UpTo, Turn
      <4> QED BY <1>3, <4>1, <4>2
    <3> QED BY <3>1, <3>2
  <2>6. r.session.failed \subseteq {d[k].path : k \in 1..n}
    <3>1. 1..n - 1 \subseteq 1..n /\ \A k \in 1..n : k \in DOMAIN c
      BY <1>2, LenProperties, TurnCandidate DEF Turn, c
    <3> QED BY <1>1, <1>4, <2>1, <3>1 DEF CountedSoFar, c
  <2>7. Len(run.session.skipped) \in Nat
    BY <2>3, LenProperties
  <2>8. ~r.stopped =>
            Cardinality(r.session.imported) + Len(r.session.skipped) + Cardinality(r.session.failed)
               = Cardinality(UpTo(picked, n))
    <3> DEFINE i == Cardinality(r.session.imported)
               f == Cardinality(r.session.failed)
    <3>1. i \in Nat /\ f \in Nat
      <4>1. IsFiniteSet(r.session.imported)
        <5>1. IsFiniteSet(1..run.taken)
          BY RoomForOne, NumbersAreFinite
        <5>2. r.session.imported \in SUBSET (1..run.taken)
          BY <1>1, <2>1 DEF CountedSoFar
        <5> QED BY <5>1, <5>2, FS_Subset
      <4>2. IsFiniteSet(r.session.failed)
        BY <1>1, TurnCandidate, ImportAssumption, FS_Subset DEF SessionType
      <4> QED BY <4>1, <4>2, FS_CardinalityType
    <3>2. ~run.stopped => i + Len(run.session.skipped) + f = Cardinality(UpTo(picked, n - 1))
      BY <1>1, <2>1 DEF CountedSoFar
    <3> HIDE DEF i, f
    <3>3. ~r.stopped => i + Len(r.session.skipped) + f = Cardinality(UpTo(picked, n))
      BY <1>1, <2>2, <2>4, <2>7, <3>1, <3>2
    <3> QED BY <3>3 DEF i, f
  <2> QED BY <1>1, <2>1, <2>5, <2>6, <2>8 DEF CountedSoFar, d
<1> DEFINE now == Cardinality(UpTo(picked, n))
<1>10. /\ taken \in Nat /\ run.taken \in Nat /\ run.taken + 1 <= taken + now /\ now \in Nat
  BY RoomForOne
<1> HIDE DEF now
<1>11. r.taken <= taken + now
  BY <1>1, <1>10
<1>9. /\ r.session.target = vault /\ r.taken \in taken..MaxTaken
      /\ \A i \in 1..taken : r.managed[i] = managed[i]
      /\ \A a \in r.new : Filed(a, r.managed)
  BY <1>1 DEF Turn, RunInv
<1> QED BY <1>1, <1>5, <1>6, <1>7, <1>8, <1>9, <1>11 DEF RunInv, r, now

\* What a candidate that becomes an asset changes.
TakesOne(run, r, n, vault, m, filed) ==
    LET c == run.session.candidates[n]
    IN /\ r \in RunType /\ r.taken = run.taken + 1 /\ r.known = run.known \cup {c.hash}
       /\ r.new = run.new \cup {Asset(run, n, vault, m)}
       /\ r.session.imported = run.session.imported \cup {run.taken + 1}
       /\ r.managed = [run.managed EXCEPT ![run.taken + 1] = filed]
       /\ r.session.candidates = run.session.candidates /\ r.session.skipped = run.session.skipped
       /\ r.session.failed = run.session.failed /\ r.session.target = run.session.target
       /\ r.folder = run.folder /\ r.stopped = run.stopped

\* The asset that a candidate becomes.
LEMMA AssetOfCandidate ==
  ASSUME NEW run, NEW n, NEW candidates, NEW picked, NEW vault,
         Turn(run, n, candidates, picked, vault), ImportInv, n \in picked, NEW m \in Modes
  PROVE  LET a == Asset(run, n, vault, m)
             c == run.session.candidates[n]
         IN /\ a \in AssetsUpTo(run.taken + 1) /\ a \in AssetsUpTo(MaxTaken)
            /\ a.id = run.taken + 1 /\ a.vault = vault /\ a.hash = c.hash /\ a.mode = m
            /\ a.sealed = Nothing /\ c.hash \in Bytes
<1> DEFINE c == run.session.candidates[n]
<1>1. c \in CandidateType /\ vault \in Into
  BY TurnCandidate DEF Turn
<1>2. c.hash \in Bytes /\ c.path \in Paths
  BY <1>1 DEF CandidateType
<1>3. run.taken \in Nat /\ run.taken + 1 \in 1..MaxTaken /\ run.taken + 1 \in 1..run.taken + 1
  BY RoomForOne
<1> HIDE DEF c
<1> QED BY <1>1, <1>2, <1>3 DEF Asset, AssetsUpTo, Nothing, c

\* It is one more new asset of the session.
LEMMA TakenChanges ==
  ASSUME NEW run, NEW n, NEW candidates, NEW picked, NEW vault,
         Turn(run, n, candidates, picked, vault), ImportInv, n \in picked,
         NEW m \in Modes, NEW filed \in Contents
  PROVE  TakesOne(run, Taken(run, n, vault, m, filed), n, vault, m, filed)
<1> DEFINE a == Asset(run, n, vault, m)
           hash == run.session.candidates[n].hash
           imported == run.session.imported \cup {run.taken + 1}
           session == [run.session EXCEPT !.imported = imported]
           files == [run.managed EXCEPT ![run.taken + 1] = filed]
           known == run.known \cup {hash}
           new == run.new \cup {a}
           r == [run EXCEPT !.taken = run.taken + 1, !.known = known, !.new = new,
                            !.session = session, !.managed = files]
<1>1. run \in RunType /\ run.session \in SessionType
  <2>1. run \in RunType
    BY DEF Turn, RunInv
  <2> QED BY <2>1, TurnCandidate
<1>2. run.taken \in Nat /\ run.taken + 1 \in 1..MaxTaken /\ run.taken + 1 \in Nat
  BY RoomForOne
<1>3. a \in AssetsUpTo(MaxTaken) /\ hash \in Bytes
  BY AssetOfCandidate
<1>4. Taken(run, n, vault, m, filed) = r
  BY <1>1, Zenon DEF Taken, Learned
<1> HIDE DEF a, hash
<1>5. /\ session \in SessionType /\ session.imported = imported
      /\ session.candidates = run.session.candidates /\ session.skipped = run.session.skipped
      /\ session.failed = run.session.failed /\ session.target = run.session.target
  BY <1>1, <1>2 DEF SessionType
<1>6. files \in [1..MaxTaken -> Contents] /\ known \in SUBSET Bytes /\ new \in SUBSET AssetsUpTo(MaxTaken)
  BY <1>1, <1>2, <1>3 DEF RunType
<1> HIDE DEF session, files, known, new
<1>7. /\ r \in RunType /\ r.taken = run.taken + 1 /\ r.known = known /\ r.new = new
      /\ r.session = session /\ r.managed = files /\ r.folder = run.folder /\ r.stopped = run.stopped
  BY <1>1, <1>2, <1>5, <1>6 DEF RunType
<1> QED BY <1>4, <1>5, <1>7 DEF TakesOne, a, hash, known, new, files

\* What becomes an asset is counted, and the vault has it once.
LEMMA TakenBy ==
  ASSUME NEW run, NEW n, NEW candidates, NEW picked, NEW vault,
         Turn(run, n, candidates, picked, vault), ImportInv, n \in picked,
         NEW m \in Modes, NEW filed \in Contents,
         run.session.candidates[n].hash \notin run.known,
         m = "Move" => filed = run.session.candidates[n].hash
  PROVE  RunInv(Taken(run, n, vault, m, filed), n, candidates, picked, vault)
<1> DEFINE r == Taken(run, n, vault, m, filed)
           a == Asset(run, n, vault, m)
           hash == run.session.candidates[n].hash
<1>0. TakesOne(run, r, n, vault, m, filed)
  BY TakenChanges
<1>1. /\ r \in RunType /\ r.taken = run.taken + 1 /\ r.known = run.known \cup {hash}
      /\ r.new = run.new \cup {a}
      /\ r.session.imported = run.session.imported \cup {run.taken + 1}
      /\ r.managed = [run.managed EXCEPT ![run.taken + 1] = filed]
      /\ r.session.candidates = run.session.candidates /\ r.session.skipped = run.session.skipped
      /\ r.session.failed = run.session.failed /\ r.session.target = run.session.target
      /\ r.folder = run.folder /\ r.stopped = run.stopped
  BY <1>0, Zenon DEF TakesOne
<1>2. /\ a \in AssetsUpTo(run.taken + 1) /\ a.id = run.taken + 1 /\ a.vault = vault
      /\ a.hash = hash /\ a.mode = m /\ a.sealed = Nothing
  BY AssetOfCandidate
<1>3. /\ taken \in Nat /\ run.taken \in Nat /\ MaxTaken \in Nat /\ taken <= run.taken
      /\ Cardinality(UpTo(picked, n)) \in Nat /\ Cardinality(UpTo(picked, n - 1)) \in Nat
      /\ Cardinality(UpTo(picked, n)) = Cardinality(UpTo(picked, n - 1)) + 1
      /\ run.taken + 1 <= taken + Cardinality(UpTo(picked, n)) /\ run.taken + 1 \in 1..MaxTaken
      /\ UpTo(picked, n - 1) \subseteq UpTo(picked, n)
  BY RoomForOne
<1>4. /\ run \in RunType /\ run.session.target = vault /\ SameFiles(run, candidates, picked)
      /\ NewAreNew(run, vault) /\ CountedSoFar(run, n - 1, picked)
      /\ DuplicatesAreThere(imports.assets \cup run.new, run.session)
      /\ \A i \in 1..taken : run.managed[i] = managed[i]
      /\ \A b \in run.new : Filed(b, run.managed)
  BY DEF Turn, RunInv
<1> HIDE DEF r, a
<1>5. \A b \in run.new : b.id \in 1..run.taken /\ b.id > taken
  BY <1>4 DEF NewAreNew, AssetsUpTo
<1>6. \A b \in imports.assets : b.id \in 1..taken
  BY DEF ImportInv, LibSound, LibType, AssetsUpTo
<1>7. run.new \subseteq AssetsUpTo(run.taken + 1)
  BY <1>3, <1>4 DEF NewAreNew, AssetsUpTo
<1>8. \A b \in imports.assets \cup run.new : b.vault = vault => b.hash # hash
  BY <1>4 DEF NewAreNew
<1>9. NewAreNew(r, vault)
  <2>1. r.new \subseteq AssetsUpTo(r.taken)
    BY <1>1, <1>2, <1>7
  <2>2. Unique(r.new)
    BY <1>1, <1>2, <1>3, <1>4, <1>5 DEF NewAreNew, Unique
  <2>3. \A b \in r.new : b.id > taken /\ b.vault = vault /\ b.sealed = Nothing
    BY <1>1, <1>2, <1>3, <1>4 DEF NewAreNew
  <2>4. \A b \in r.new, d \in imports.assets \cup r.new : b.vault = d.vault /\ b.hash = d.hash => b = d
    BY <1>1, <1>2, <1>4, <1>8 DEF NewAreNew
  <2>5. \A h : h \in r.known <=> \E b \in imports.assets \cup r.new : b.vault = vault /\ b.hash = h
    BY <1>1, <1>2, <1>4 DEF NewAreNew
  <2> QED BY <2>1, <2>2, <2>3, <2>4, <2>5 DEF NewAreNew
<1>10. SameFiles(r, candidates, picked) /\ DuplicatesAreThere(imports.assets \cup r.new, r.session)
  BY <1>1, <1>4 DEF SameFiles, DuplicatesAreThere, Has
<1>11. run.managed \in [1..MaxTaken -> Contents]
  BY <1>4 DEF RunType
<1>12. \A i \in 1..run.taken : r.managed[i] = run.managed[i]
  BY <1>1, <1>3, <1>11
<1>13. r.managed[run.taken + 1] = filed
  BY <1>1, <1>3, <1>11
<1>14. \A i \in 1..taken : r.managed[i] = managed[i]
  BY <1>3, <1>4, <1>12
<1>15. \A b \in r.new : Filed(b, r.managed)
  BY <1>1, <1>2, <1>4, <1>5, <1>12, <1>13 DEF Filed
<1>16. CountedSoFar(r, n, picked)
  <2>1. r.session.imported \subseteq 1..r.taken /\ run.taken + 1 \notin run.session.imported
    BY <1>1, <1>3, <1>4 DEF CountedSoFar
  <2>2. \A id \in r.session.imported : \E b \in r.new : b.id = id
    BY <1>1, <1>2, <1>4 DEF CountedSoFar
  <2>3. r.session.failed \subseteq {r.session.candidates[k].path : k \in 1..n}
    <3>1. 1..n - 1 \subseteq 1..n
      BY TurnCandidate
    <3> QED BY <1>1, <1>4, <3>1 DEF CountedSoFar
  <2>4. \A id \in Range(r.session.skipped) :
            id # 0 /\ \E k \in UpTo(picked, n) : r.session.candidates[k].duplicate = id
    BY <1>1, <1>3, <1>4 DEF CountedSoFar
  <2>5. run.session.imported \in SUBSET (1..run.taken)
    BY <1>4 DEF CountedSoFar
  <2>6. IsFiniteSet(run.session.imported)
    <3>1. IsFiniteSet(1..run.taken)
      BY <1>3, NumbersAreFinite
    <3> QED BY <2>5, <3>1, FS_Subset
  <2>7. /\ Cardinality(run.session.imported) \in Nat
        /\ Cardinality(r.session.imported) = Cardinality(run.session.imported) + 1
    BY <1>1, <2>1, <2>6, FS_AddElement, FS_CardinalityType
  <2>8. Cardinality(run.session.failed) \in Nat /\ Len(run.session.skipped) \in Nat
    <3>1. run.session.failed \in SUBSET Paths /\ run.session.skipped \in Seq(Nat)
      BY TurnCandidate DEF SessionType
    <3> QED BY <3>1, ImportAssumption, FS_Subset, FS_CardinalityType, LenProperties
  <2>9. ~r.stopped =>
            Cardinality(r.session.imported) + Len(r.session.skipped) + Cardinality(r.session.failed)
               = Cardinality(UpTo(picked, n))
    <3> DEFINE i == Cardinality(run.session.imported)
               f == Cardinality(run.session.failed)
               l == Len(run.session.skipped)
               before == Cardinality(UpTo(picked, n - 1))
    <3>1. ~run.stopped => i + l + f = before
      BY <1>4 DEF CountedSoFar
    <3>2. i \in Nat /\ f \in Nat /\ l \in Nat /\ before \in Nat
      BY <1>3, <2>7, <2>8
    <3> HIDE DEF i, f, l, before
    <3>3. ~run.stopped => (i + 1) + l + f = before + 1
      BY <3>1, <3>2
    <3> QED BY <1>1, <1>3, <2>7, <3>3 DEF i, f, l, before
  <2> QED BY <2>1, <2>2, <2>3, <2>4, <2>9 DEF CountedSoFar
<1>17. r.taken \in taken..MaxTaken /\ r.taken <= taken + Cardinality(UpTo(picked, n))
  BY <1>1, <1>3
<1> QED BY <1>1, <1>4, <1>9, <1>10, <1>14, <1>15, <1>16, <1>17 DEF RunInv, r

\* What becomes of the user's file is no matter to the commit.
LEMMA FileTakenAway ==
  ASSUME NEW run, NEW n, NEW candidates, NEW picked, NEW vault, NEW p,
         RunInv(run, n, candidates, picked, vault)
  PROVE  RunInv([run EXCEPT !.folder[p] = Nothing], n, candidates, picked, vault)
<1> DEFINE folders == [run.folder EXCEPT ![p] = Nothing]
           r == [run EXCEPT !.folder = folders]
<1>1. run \in RunType
  BY DEF RunInv
<1>2. [run EXCEPT !.folder[p] = Nothing] = r
  BY <1>1, Zenon DEF RunType
<1>3. folders \in [Paths -> Contents]
  BY <1>1 DEF RunType, Contents
<1> HIDE DEF folders
<1>4. /\ r \in RunType /\ r.session = run.session /\ r.managed = run.managed /\ r.taken = run.taken
      /\ r.known = run.known /\ r.new = run.new /\ r.stopped = run.stopped
  BY <1>1, <1>3 DEF RunType
<1> HIDE DEF r
<1>5. SameFiles(r, candidates, picked) /\ NewAreNew(r, vault) /\ CountedSoFar(r, n, picked)
  BY <1>4 DEF RunInv, SameFiles, NewAreNew, CountedSoFar
<1> QED BY <1>2, <1>4, <1>5 DEF RunInv, r

\* A candidate that fails, and leaves a file of the library without an asset
\* when `filed` is not what is there already.
FailsOne(run, r, n) ==
    /\ r \in RunType
    /\ r.session.failed = run.session.failed \cup {run.session.candidates[n].path}
    /\ r.session.candidates = run.session.candidates /\ r.session.skipped = run.session.skipped
    /\ r.session.imported = run.session.imported /\ r.session.target = run.session.target
    /\ r.known = run.known /\ r.new = run.new /\ r.stopped = run.stopped
    /\ \/ r.taken = run.taken /\ r.managed = run.managed
       \/ r.taken = run.taken + 1 /\ \A i \in 1..run.taken : r.managed[i] = run.managed[i]

\* A failure is counted, and changes no asset.
LEMMA FailedBy ==
  ASSUME NEW run, NEW n, NEW candidates, NEW picked, NEW vault, NEW r,
         Turn(run, n, candidates, picked, vault), ImportInv, n \in picked, FailsOne(run, r, n)
  PROVE  RunInv(r, n, candidates, picked, vault)
<1> DEFINE path == run.session.candidates[n].path
<1>3. /\ taken \in Nat /\ run.taken \in Nat /\ MaxTaken \in Nat /\ taken <= run.taken
      /\ Cardinality(UpTo(picked, n)) \in Nat /\ Cardinality(UpTo(picked, n - 1)) \in Nat
      /\ Cardinality(UpTo(picked, n)) = Cardinality(UpTo(picked, n - 1)) + 1
      /\ run.taken + 1 <= taken + Cardinality(UpTo(picked, n)) /\ run.taken + 1 \in 1..MaxTaken
      /\ UpTo(picked, n - 1) \subseteq UpTo(picked, n)
  BY RoomForOne
<1>4. /\ run \in RunType /\ run.session.target = vault /\ SameFiles(run, candidates, picked)
      /\ NewAreNew(run, vault) /\ CountedSoFar(run, n - 1, picked)
      /\ DuplicatesAreThere(imports.assets \cup run.new, run.session)
      /\ \A i \in 1..taken : run.managed[i] = managed[i]
      /\ \A b \in run.new : Filed(b, run.managed)
  BY DEF Turn, RunInv
<1>5. r.taken \in {run.taken, run.taken + 1} /\ \A i \in 1..run.taken : r.managed[i] = run.managed[i]
  BY DEF FailsOne
<1>6. \A b \in run.new : b.id \in 1..run.taken
  BY <1>4 DEF NewAreNew, AssetsUpTo
<1>7. AssetsUpTo(run.taken) \subseteq AssetsUpTo(r.taken)
  BY <1>3, <1>5 DEF AssetsUpTo
<1>8. NewAreNew(r, vault)
  BY <1>4, <1>7 DEF FailsOne, NewAreNew
<1>9. SameFiles(r, candidates, picked) /\ DuplicatesAreThere(imports.assets \cup r.new, r.session)
  BY <1>4 DEF FailsOne, SameFiles, DuplicatesAreThere
<1>10. \A i \in 1..taken : r.managed[i] = managed[i]
  BY <1>3, <1>4, <1>5
<1>11. \A b \in r.new : Filed(b, r.managed)
  BY <1>4, <1>5, <1>6 DEF FailsOne, Filed
<1>12. CountedSoFar(r, n, picked)
  <2>1. r.session.imported \subseteq 1..r.taken
    BY <1>3, <1>4, <1>5 DEF FailsOne, CountedSoFar
  <2>2. \A id \in r.session.imported : \E b \in r.new : b.id = id
    BY <1>4 DEF FailsOne, CountedSoFar
  <2>3. \A id \in Range(r.session.skipped) :
            id # 0 /\ \E k \in UpTo(picked, n) : r.session.candidates[k].duplicate = id
    BY <1>3, <1>4 DEF FailsOne, CountedSoFar
  <2>4. 1..n - 1 \subseteq 1..n /\ n \in 1..n /\ n \notin 1..n - 1
    BY TurnCandidate
  <2>5. r.session.failed \subseteq {r.session.candidates[k].path : k \in 1..n}
    BY <1>4, <2>4 DEF FailsOne, CountedSoFar
  <2>6. path \notin run.session.failed
    <3>1. \A k \in 1..n - 1 : k \in DOMAIN candidates /\ n \in DOMAIN candidates /\ k # n
      BY TurnCandidate, LenProperties DEF Turn
    <3>2. \A k \in 1..n - 1 : run.session.candidates[k].path # path
      BY <1>4, <3>1 DEF Turn, Listed, SameFiles
    <3> QED BY <1>4, <3>2 DEF CountedSoFar
  <2>7. run.session.failed \in SUBSET Paths /\ run.session.skipped \in Seq(Nat)
    BY TurnCandidate DEF SessionType
  <2>8. IsFiniteSet(run.session.failed) /\ Len(run.session.skipped) \in Nat
    BY <2>7, ImportAssumption, FS_Subset, LenProperties
  <2>9. /\ Cardinality(run.session.failed) \in Nat
        /\ Cardinality(r.session.failed) = Cardinality(run.session.failed) + 1
    BY <2>6, <2>8, FS_AddElement, FS_CardinalityType DEF FailsOne
  <2>10. Cardinality(run.session.imported) \in Nat
    <3>1. IsFiniteSet(1..run.taken) 
      BY <1>3, NumbersAreFinite
    <3>2. run.session.imported \in SUBSET (1..run.taken)
      BY <1>4 DEF CountedSoFar
    <3> QED BY <3>1, <3>2, FS_Subset, FS_CardinalityType
  <2>11. ~r.stopped =>
            Cardinality(r.session.imported) + Len(r.session.skipped) + Cardinality(r.session.failed)
               = Cardinality(UpTo(picked, n))
    <3> DEFINE i == Cardinality(run.session.imported)
               f == Cardinality(run.session.failed)
               l == Len(run.session.skipped)
               before == Cardinality(UpTo(picked, n - 1))
    <3>1. ~run.stopped => i + l + f = before
      BY <1>4 DEF CountedSoFar
    <3>2. i \in Nat /\ f \in Nat /\ l \in Nat /\ before \in Nat
      BY <1>3, <2>8, <2>9, <2>10
    <3> HIDE DEF i, f, l, before
    <3>3. ~run.stopped => i + l + (f + 1) = before + 1
      BY <3>1, <3>2
    <3> QED BY <1>3, <2>9, <3>3 DEF FailsOne, i, f, l, before
  <2> QED BY <2>1, <2>2, <2>3, <2>5, <2>11 DEF CountedSoFar
<1>13. r.taken \in taken..MaxTaken /\ r.taken <= taken + Cardinality(UpTo(picked, n))
  BY <1>3, <1>5
<1> QED BY <1>4, <1>8, <1>9, <1>10, <1>11, <1>12, <1>13 DEF FailsOne, RunInv

\* A file that could not be moved is a failure, also when it is gone already.
LEMMA FailuresAreOne ==
  ASSUME NEW run, NEW n, NEW candidates, NEW picked, NEW vault,
         Turn(run, n, candidates, picked, vault), ImportInv, n \in picked
  PROVE  LET c == run.session.candidates[n]
             failed == [run EXCEPT !.session.failed = @ \cup {c.path}]
         IN /\ FailsOne(run, failed, n)
            /\ run.folder[c.path] # Nothing =>
                  FailsOne(run, [failed EXCEPT !.folder[c.path] = Nothing,
                                    !.managed[run.taken + 1] = run.folder[c.path], !.taken = @ + 1], n)
<1> DEFINE c == run.session.candidates[n]
           path == c.path
           failures == run.session.failed \cup {path}
           session == [run.session EXCEPT !.failed = failures]
           failed == [run EXCEPT !.session = session]
           folders == [run.folder EXCEPT ![path] = Nothing]
           files == [run.managed EXCEPT ![run.taken + 1] = run.folder[path]]
           gone == [failed EXCEPT !.folder = folders, !.managed = files, !.taken = run.taken + 1]
<1>1. run \in RunType /\ run.session \in SessionType /\ path \in Paths
  <2>1. c \in CandidateType /\ run.session \in SessionType
    BY TurnCandidate
  <2> HIDE DEF c
  <2>2. path \in Paths
    BY <2>1 DEF CandidateType
  <2> QED BY <2>1, <2>2 DEF Turn, RunInv
<1>2. run.taken \in Nat /\ run.taken + 1 \in 1..MaxTaken /\ run.taken + 1 \in Nat
  BY RoomForOne
<1>3. [run EXCEPT !.session.failed = @ \cup {c.path}] = failed
  BY <1>1, Zenon DEF RunType, SessionType
<1> HIDE DEF c
<1>4. /\ session \in SessionType /\ session.failed = failures
      /\ session.candidates = run.session.candidates /\ session.skipped = run.session.skipped
      /\ session.imported = run.session.imported /\ session.target = run.session.target
  BY <1>1 DEF SessionType
<1> HIDE DEF session
<1>5. /\ failed \in RunType /\ failed.session = session /\ failed.taken = run.taken
      /\ failed.managed = run.managed /\ failed.known = run.known /\ failed.new = run.new
      /\ failed.folder = run.folder /\ failed.stopped = run.stopped
  BY <1>1, <1>4 DEF RunType
<1>6. FailsOne(run, failed, n)
  BY <1>4, <1>5 DEF FailsOne, c
<1> HIDE DEF failed
<1>7. [failed EXCEPT !.folder[path] = Nothing, !.managed[run.taken + 1] = run.folder[path], !.taken = @ + 1] = gone
  BY <1>5, Zenon DEF RunType
<1>8. run.folder[path] \in Contents /\ folders \in [Paths -> Contents] /\ files \in [1..MaxTaken -> Contents]
  BY <1>1 DEF RunType, Contents
<1>9. \A i \in 1..run.taken : files[i] = run.managed[i]
  BY <1>1, <1>2 DEF RunType
<1> HIDE DEF folders, files
<1>10. /\ gone \in RunType /\ gone.session = session /\ gone.taken = run.taken + 1
       /\ gone.managed = files /\ gone.known = run.known /\ gone.new = run.new
       /\ gone.stopped = run.stopped
  BY <1>2, <1>5, <1>8 DEF RunType
<1>11. FailsOne(run, gone, n)
  BY <1>4, <1>9, <1>10 DEF FailsOne, c
<1> QED BY <1>3, <1>6, <1>7, <1>11 DEF failed, c

\* A selected candidate of a move.
LEMMA MovedBy ==
  ASSUME NEW run, NEW n, NEW candidates, NEW picked, NEW vault, NEW stuck,
         Turn(run, n, candidates, picked, vault), ImportInv, n \in picked, "Move" \in Modes,
         run.session.candidates[n].hash \notin run.known
  PROVE  RunInv(Moved(run, n, vault, stuck), n, candidates, picked, vault)
<1> DEFINE c == run.session.candidates[n]
           file == run.folder[c.path]
           failed == [run EXCEPT !.session.failed = @ \cup {c.path}]
           gone == [failed EXCEPT !.folder[c.path] = Nothing, !.managed[run.taken + 1] = file, !.taken = @ + 1]
           r == Moved(run, n, vault, stuck)
<1>1. FailsOne(run, failed, n) /\ (file # Nothing => FailsOne(run, gone, n))
  BY FailuresAreOne
<1>2. CASE file = Nothing \/ ~HashedAgain(file, c)
  <2>1. r = failed
    BY <1>2 DEF Moved
  <2> HIDE DEF r, failed
  <2> QED BY <1>1, <2>1, FailedBy DEF r
<1>3. CASE ~(file = Nothing \/ ~HashedAgain(file, c)) /\ c.path \in stuck
  <2>1. r = gone
    BY <1>3 DEF Moved
  <2> HIDE DEF r, gone, failed
  <2> QED BY <1>1, <1>3, <2>1, FailedBy DEF r
<1>4. CASE ~(file = Nothing \/ ~HashedAgain(file, c)) /\ c.path \notin stuck
  <2>1. r = [Taken(run, n, vault, "Move", file) EXCEPT !.folder[c.path] = Nothing]
    BY <1>4 DEF Moved
  <2>2. file = c.hash /\ c \in CandidateType
    BY <1>4, TurnCandidate DEF HashedAgain
  <2>3. file \in Contents
    BY <2>2 DEF CandidateType, Contents
  <2>4. RunInv(Taken(run, n, vault, "Move", file), n, candidates, picked, vault)
    BY <2>2, <2>3, TakenBy
  <2> HIDE DEF r, c, file
  <2>5. RunInv([Taken(run, n, vault, "Move", file) EXCEPT !.folder[c.path] = Nothing], n, candidates, picked, vault)
    BY <2>4, FileTakenAway
  <2> QED BY <2>1, <2>5 DEF r
<1> QED BY <1>2, <1>3, <1>4

\* Every turn of the loop keeps its invariant.
LEMMA EveryTurn ==
  ASSUME NEW run, NEW n, NEW candidates, NEW picked, NEW vault, NEW mode \in Modes, NEW stuck,
         Turn(run, n, candidates, picked, vault), ImportInv
  PROVE  RunInv(Candidate(run, n, vault, mode, stuck), n, candidates, picked, vault)
<1> DEFINE c == run.session.candidates[n]
           same == AssetIn([assets |-> imports.assets \cup run.new], vault, c.hash)
           r == Candidate(run, n, vault, mode, stuck)
<1>1. /\ c \in CandidateType /\ (c.selected <=> n \in picked) /\ n \in DOMAIN run.session.candidates
      /\ run \in RunType /\ run.session.target = vault /\ NewAreNew(run, vault)
      /\ DuplicatesAreThere(imports.assets \cup run.new, run.session)
  BY TurnCandidate DEF Turn, RunInv
<1>2. CASE ~c.selected
  <2>1. r = run
    BY <1>2 DEF Candidate
  <2> QED BY <1>1, <1>2, <2>1, PassedBy
<1>3. CASE c.selected /\ run.stopped
  <2>1. r = run
    BY <1>3 DEF Candidate
  <2>2. [run EXCEPT !.stopped = TRUE] = run
    BY <1>1, <1>3 DEF RunType
  <2> HIDE DEF r
  <2>3. RunInv([run EXCEPT !.stopped = TRUE], n, candidates, picked, vault)
    BY StoppedBy
  <2> QED BY <2>1, <2>2, <2>3 DEF r
<1>4. CASE c.selected /\ ~run.stopped /\ c.duplicate # 0
  <2>1. r = Skipped(run, n, c.duplicate)
    BY <1>4 DEF Candidate
  <2>2. c.duplicate \in Nat /\ Has(imports.assets \cup run.new, vault, c.duplicate, c.hash)
    BY <1>1, <1>4 DEF DuplicatesAreThere, CandidateType
  <2> HIDE DEF r
  <2>3. RunInv(Skipped(run, n, c.duplicate), n, candidates, picked, vault)
    BY <1>1, <1>4, <2>2, SkippedBy
  <2> QED BY <2>1, <2>3 DEF r
<1>5. CASE c.selected /\ ~run.stopped /\ c.duplicate = 0 /\ c.hash \in run.known
  <2> DEFINE a == CHOOSE a \in same : TRUE
  <2>1. r = Skipped(run, n, a.id)
    BY <1>5 DEF Candidate
  <2>2. \E b \in imports.assets \cup run.new : b.vault = vault /\ b.hash = c.hash
    BY <1>1, <1>5 DEF NewAreNew
  <2>3. same # {}
    BY <2>2 DEF AssetIn
  <2>4. a \in same
    BY <2>3
  <2> HIDE DEF a
  <2>5. a \in imports.assets \cup run.new /\ a.vault = vault /\ a.hash = c.hash
    BY <2>4 DEF AssetIn
  <2>6. a.id \in Nat /\ a.id # 0
    BY <1>1, <2>5, TurnCandidate DEF ImportInv, LibSound, LibType, NewAreNew, AssetsUpTo
  <2>7. Has(imports.assets \cup run.new, vault, a.id, c.hash)
    BY <2>5 DEF Has
  <2> HIDE DEF r
  <2>8. RunInv(Skipped(run, n, a.id), n, candidates, picked, vault)
    BY <1>1, <1>5, <2>6, <2>7, SkippedBy
  <2> QED BY <2>1, <2>8 DEF r
<1>6. CASE c.selected /\ ~run.stopped /\ c.duplicate = 0 /\ c.hash \notin run.known
  <2>1. n \in picked
    BY <1>1, <1>6
  <2>2. CASE mode = "Move"
    <3>1. r = Moved(run, n, vault, stuck)
      BY <1>6, <2>2 DEF Candidate
    <3> HIDE DEF r
    <3>2. RunInv(Moved(run, n, vault, stuck), n, candidates, picked, vault)
      BY <1>6, <2>1, <2>2, MovedBy
    <3> QED BY <3>1, <3>2 DEF r
  <2>3. CASE mode = "Copy" /\ run.folder[c.path] = Nothing
    <3>1. r = [run EXCEPT !.stopped = TRUE]
      BY <1>6, <2>3 DEF Candidate
    <3> HIDE DEF r
    <3> QED BY <3>1, StoppedBy DEF r
  <2>4. CASE mode = "Copy" /\ run.folder[c.path] # Nothing
    <3>1. r = Taken(run, n, vault, mode, run.folder[c.path])
      BY <1>6, <2>4 DEF Candidate
    <3>2. run.folder[c.path] \in Contents
      BY <1>1 DEF RunType, CandidateType
    <3> HIDE DEF r
    <3>3. RunInv(Taken(run, n, vault, mode, run.folder[c.path]), n, candidates, picked, vault)
      BY <1>6, <2>1, <2>4, <3>2, TakenBy
    <3> QED BY <3>1, <3>3 DEF r
  <2>5. CASE mode = "Reference"
    <3>1. r = Taken(run, n, vault, mode, Nothing)
      BY <1>6, <2>5 DEF Candidate
    <3>2. Nothing \in Contents
      BY DEF Contents
    <3> HIDE DEF r
    <3>3. RunInv(Taken(run, n, vault, mode, Nothing), n, candidates, picked, vault)
      BY <1>6, <2>1, <2>5, <3>2, TakenBy
    <3> QED BY <3>1, <3>3 DEF r
  <2> QED BY <2>2, <2>3, <2>4, <2>5, ImportAssumption
<1> QED BY <1>2, <1>3, <1>4, <1>5, <1>6

\* The loop is well defined.
LEMMA LoopIsDefined ==
  ASSUME NEW start, NEW vault, NEW mode, NEW stuck, NEW N \in Nat
  PROVE  \E after : after = [n \in 0..N |->
            IF n = 0 THEN start ELSE Candidate(after[n - 1], n, vault, mode, stuck)]
<1> DEFINE Is(after, k) ==
             after = [n \in 0..k |-> IF n = 0 THEN start ELSE Candidate(after[n - 1], n, vault, mode, stuck)]
           T == {k \in Nat : \E after : Is(after, k)}
<1>1. 0 \in T
  <2>1. Is([n \in 0..0 |-> start], 0)
    OBVIOUS
  <2> QED BY <2>1
<1>2. ASSUME NEW k \in Nat, k \in T PROVE k + 1 \in T
  <2>1. PICK before : Is(before, k)
    BY <1>2
  <2> DEFINE after == [n \in 0..k + 1 |-> IF n = k + 1 THEN Candidate(before[k], n, vault, mode, stuck) ELSE before[n]]
  <2>2. \A n \in 0..k : before[n] = IF n = 0 THEN start ELSE Candidate(before[n - 1], n, vault, mode, stuck)
    BY <2>1
  <2>3. ASSUME NEW n \in 0..k + 1
        PROVE  after[n] = IF n = 0 THEN start ELSE Candidate(after[n - 1], n, vault, mode, stuck)
    <3>1. CASE n = k + 1
      BY <3>1
    <3>2. CASE n # k + 1
      <4>1. n \in 0..k /\ (n # 0 => n - 1 \in 0..k)
        BY <3>2
      <4> QED BY <2>2, <4>1
    <3> QED BY <3>1, <3>2
  <2>4. Is(after, k + 1)
    <3> DEFINE loop == [n \in 0..k + 1 |-> IF n = 0 THEN start ELSE Candidate(after[n - 1], n, vault, mode, stuck)]
    <3>1. DOMAIN after = 0..k + 1 /\ after = [n \in 0..k + 1 |-> after[n]]
      OBVIOUS
    <3> HIDE DEF after
    <3>2. after = loop
      BY <2>3, <3>1
    <3> QED BY <3>2
  <2> HIDE DEF Is, after
  <2>5. \E f : Is(f, k + 1)
    BY <2>4
  <2> QED BY <2>5
<1> HIDE DEF T
<1>3. N \in T
  BY <1>1, <1>2, TurnByTurn
<1> QED BY <1>3 DEF T

\* What holds before the loop and is kept by every turn holds after it.
LEMMA LoopKeeps ==
  ASSUME NEW start, NEW candidates, NEW picked, NEW vault \in Into, NEW mode \in Modes, NEW stuck,
         ImportInv, candidates \in Seq(CandidateType), Listed(candidates),
         picked \subseteq 1..Len(candidates), taken + Cardinality(picked) <= MaxTaken,
         start.session.candidates \in Seq(CandidateType),
         RunInv(start, 0, candidates, picked, vault)
  PROVE  RunInv(AfterCandidates(start, vault, mode, stuck), Len(candidates), candidates, picked, vault)
<1> DEFINE N == Len(start.session.candidates)
           after == CHOOSE after : after = [n \in 0..N |->
                        IF n = 0 THEN start ELSE Candidate(after[n - 1], n, vault, mode, stuck)]
<1>1. N \in Nat /\ N = Len(candidates)
  <2>1. DOMAIN start.session.candidates = DOMAIN candidates
    BY DEF RunInv, SameFiles
  <2> QED BY <2>1, LenProperties
<1>2. after = [n \in 0..N |-> IF n = 0 THEN start ELSE Candidate(after[n - 1], n, vault, mode, stuck)]
  <2> HIDE DEF N
  <2> QED BY <1>1, LoopIsDefined
<1>3. AfterCandidates(start, vault, mode, stuck) = after[N]
  BY DEF AfterCandidates
<1> HIDE DEF after, N
<1>4. after[0] = start /\ \A n \in 1..N : after[n] = Candidate(after[n - 1], n, vault, mode, stuck)
  <2>1. \A n \in 0..N : after[n] = IF n = 0 THEN start ELSE Candidate(after[n - 1], n, vault, mode, stuck)
    BY <1>2
  <2> QED BY <1>1, <2>1
<1> DEFINE T == {n \in Nat : n <= N => RunInv(after[n], n, candidates, picked, vault)}
<1>5. 0 \in T
  BY <1>4
<1>6. ASSUME NEW n \in Nat, n \in T PROVE n + 1 \in T
  <2> SUFFICES ASSUME n + 1 <= N PROVE RunInv(after[n + 1], n + 1, candidates, picked, vault)
    OBVIOUS
  <2>1. n + 1 \in 1..N /\ (n + 1) - 1 = n /\ n <= N
    BY <1>1
  <2>2. RunInv(after[n], n, candidates, picked, vault)
    BY <1>6, <2>1
  <2>3. Turn(after[n], n + 1, candidates, picked, vault)
    BY <1>1, <2>1, <2>2 DEF Turn
  <2>4. after[n + 1] = Candidate(after[n], n + 1, vault, mode, stuck)
    BY <1>4, <2>1
  <2>5. RunInv(Candidate(after[n], n + 1, vault, mode, stuck), n + 1, candidates, picked, vault)
    BY <2>3, EveryTurn
  <2> QED BY <2>4, <2>5
<1> HIDE DEF T
<1>7. N \in T
  BY <1>1, <1>5, <1>6, TurnByTurn
<1> QED BY <1>1, <1>3, <1>7 DEF T
-----------------------------------------------------------------------------
\* What one collection of assets has, the other has too, sealed or not.
Covers(assets, others) ==
    \A a \in assets : \E b \in others :
        /\ b.id = a.id /\ b.vault = a.vault /\ b.hash = a.hash /\ b.mode = a.mode /\ b.path = a.path

\* A session stays sound when the library only grows.
LEMMA SessionStays ==
  ASSUME NEW assets, NEW others, NEW session, Covers(assets, others), SessionSound(assets, session)
  PROVE  SessionSound(others, session)
<1>1. \A vault, id, hash : Has(assets, vault, id, hash) => Has(others, vault, id, hash)
  BY DEF Covers, Has
<1>2. \A vault, id : Named(assets, vault, id) => Named(others, vault, id)
  BY DEF Covers, Named
<1>3. DuplicatesAreThere(others, session)
  BY <1>1 DEF SessionSound, DuplicatesAreThere
<1>4. AddsUp(assets, session) => AddsUp(others, session)
  BY <1>2 DEF AddsUp
<1> QED BY <1>3, <1>4 DEF SessionSound

\* The library keeps its shape when more numbers are used.
LEMMA MoreNumbers ==
  ASSUME NEW l, NEW m \in Nat, NEW n \in Nat, m <= n, LibSound(l, m)
  PROVE  LibSound(l, n)
<1>1. 1..m \subseteq 1..n
  OBVIOUS
<1>2. AssetsUpTo(m) \subseteq AssetsUpTo(n)
  BY <1>1 DEF AssetsUpTo
<1>3. LibType(m) \subseteq LibType(n)
  BY <1>2 DEF LibType
<1> QED BY <1>3 DEF LibSound

\* What a refresh makes of an asset.
AfterOwn(a, l, files, own, unsealed) ==
    IF a \in ToSeal(l, files, own) \ unsealed THEN [a EXCEPT !.sealed = FileOf(a, files, own)] ELSE a

\* It is the same asset, and one of a file that was moved is sealed as what it was named for.
LEMMA RefreshedAsset ==
  ASSUME NEW l, NEW n \in Nat, n <= MaxTaken, NEW files \in [1..MaxTaken -> Contents],
         NEW own \in [Paths -> Contents], NEW unsealed, NEW a \in AssetsUpTo(n), Filed(a, files)
  PROVE  LET b == AfterOwn(a, l, files, own, unsealed)
         IN /\ b \in AssetsUpTo(n) /\ Filed(b, files)
            /\ b.id = a.id /\ b.vault = a.vault /\ b.hash = a.hash /\ b.mode = a.mode /\ b.path = a.path
<1> DEFINE b == AfterOwn(a, l, files, own, unsealed)
           file == FileOf(a, files, own)
<1>1. a.id \in 1..n /\ a.path \in Paths /\ MaxTaken \in Nat
  BY ImportAssumption DEF AssetsUpTo
<1>2. a.id \in 1..MaxTaken
  BY <1>1
<1>3. file \in Contents
  BY <1>1, <1>2 DEF FileOf
<1>4. a.mode = "Move" => file = files[a.id]
  BY DEF FileOf
<1> HIDE DEF file
<1>5. CASE b = a
  BY <1>5
<1>6. CASE b = [a EXCEPT !.sealed = file]
  <2>1. /\ b.sealed = file /\ b \in AssetsUpTo(n)
        /\ b.id = a.id /\ b.vault = a.vault /\ b.hash = a.hash /\ b.mode = a.mode /\ b.path = a.path
    <3> HIDE DEF b
    <3> QED BY <1>3, <1>6 DEF AssetsUpTo, Contents
  <2> HIDE DEF b
  <2>2. Filed(b, files)
    BY <1>4, <2>1 DEF Filed
  <2> QED BY <2>1, <2>2 DEF b
<1>7. b = a \/ b = [a EXCEPT !.sealed = file]
  BY DEF AfterOwn, file
<1> QED BY <1>5, <1>6, <1>7

\* No file of the library goes away but that of a copied asset.
OnlyCopiesGo(assets, files, later) ==
    \A id \in 1..MaxTaken : later[id] = files[id] \/ \E a \in assets : a.id = id /\ a.mode = "Copy"

\* A refresh keeps the library sound, and takes no file that was moved.
LEMMA RefreshKeeps ==
  ASSUME NEW l, NEW n \in Nat, n <= MaxTaken, NEW files \in [1..MaxTaken -> Contents],
         NEW own \in [Paths -> Contents], NEW unsealed \in SUBSET ToSeal(l, files, own),
         LibSound(l, n), \A a \in l.assets : Filed(a, files)
  PROVE  LET r == AfterRefresh(l, files, own, unsealed)
         IN /\ LibSound(r.lib, n) /\ r.lib.sessions = l.sessions
            /\ r.files \in [1..MaxTaken -> Contents]
            /\ Covers(l.assets, r.lib.assets) /\ Covers(r.lib.assets, l.assets)
            /\ \A b \in r.lib.assets : Filed(b, r.files)
            /\ OnlyCopiesGo(l.assets, files, r.files)
<1> DEFINE r == AfterRefresh(l, files, own, unsealed)
           B(a) == AfterOwn(a, l, files, own, unsealed)
<1>1. l \in LibType(n) /\ l.assets \in SUBSET AssetsUpTo(n) /\ l.sessions \in Seq(SessionType)
  BY DEF LibSound, LibType
<1>2. \A a \in l.assets :
         /\ B(a) \in AssetsUpTo(n) /\ Filed(B(a), files)
         /\ B(a).id = a.id /\ B(a).vault = a.vault /\ B(a).hash = a.hash /\ B(a).mode = a.mode
         /\ B(a).path = a.path
  BY <1>1, RefreshedAsset
<1>3. r.lib = [l EXCEPT !.assets = {B(a) : a \in l.assets}]
  BY DEF AfterRefresh, AfterOwn
<1>4. r.files = [id \in DOMAIN files |->
           IF \E a \in unsealed : a.id = id /\ a.mode = "Copy" /\ own[a.path] # Nothing
           THEN Nothing ELSE files[id]]
  BY DEF AfterRefresh
<1> HIDE DEF r, B
<1>5. /\ r.lib.assets = {B(a) : a \in l.assets} /\ r.lib.sessions = l.sessions
      /\ r.lib = [assets |-> {B(a) : a \in l.assets}, sessions |-> l.sessions]
  BY <1>1, <1>3 DEF LibType
<1>6. r.lib \in LibType(n)
  BY <1>1, <1>2, <1>5 DEF LibType
<1>7. Covers(l.assets, r.lib.assets) /\ Covers(r.lib.assets, l.assets)
  BY <1>2, <1>5 DEF Covers
<1>8. Unique(r.lib.assets) /\ ImportsFit(r.lib)
  BY <1>2, <1>5 DEF LibSound, Unique, ImportsFit
<1>9. \A s \in DOMAIN r.lib.sessions : SessionSound(r.lib.assets, r.lib.sessions[s])
  BY <1>5, <1>7, SessionStays DEF LibSound
<1>10. r.files \in [1..MaxTaken -> Contents]
  BY <1>4 DEF Contents
<1>11. unsealed \subseteq l.assets
  BY DEF ToSeal
<1>12. ASSUME NEW id \in 1..MaxTaken
       PROVE  r.files[id] = files[id] \/ \E a \in l.assets : a.id = id /\ a.mode = "Copy"
  BY <1>4, <1>11
<1>13. ASSUME NEW b \in r.lib.assets PROVE Filed(b, r.files)
  <2>1. PICK a \in l.assets : b = B(a)
    BY <1>5
  <2>2. b.id \in 1..MaxTaken
    BY <1>1, <1>2, <2>1, ImportAssumption DEF AssetsUpTo
  <2>3. b.mode = "Move" => r.files[b.id] = files[b.id]
    <3> SUFFICES ASSUME b.mode = "Move" PROVE ~ \E d \in l.assets : d.id = b.id /\ d.mode = "Copy"
      BY <1>12, <2>2
    <3> QED BY <1>2, <2>1 DEF LibSound, Unique
  <2> QED BY <1>2, <2>1, <2>3 DEF Filed
<1> QED BY <1>5, <1>6, <1>7, <1>8, <1>9, <1>10, <1>12, <1>13 DEF LibSound, OnlyCopiesGo, r

\* What a library is worth does not depend on the state.
LEMMA SoundLater ==
  ASSUME LibSound(imports', taken'), LibSound(importRows', taken')
  PROVE  LibSound(imports, taken)' /\ LibSound(importRows, taken)'
BY DEF LibSound, LibType, AssetsUpTo, SessionType, CandidateType, Unique, ImportsFit, SessionSound,
       Listed, DuplicatesAreThere, AddsUp, SkippedAreDuplicates, Has, Named, Selected

\* The library and the database after what was sealed is saved, or not.
LEMMA LibraryStep ==
  ASSUME ImportInv, NEW n \in Nat, taken <= n, n <= MaxTaken, NEW l,
         NEW files \in [1..MaxTaken -> Contents], NEW own \in [Paths -> Contents],
         NEW unsealed \in SUBSET ToSeal(l, files, own), LibSound(l, n),
         \A a \in l.assets, b \in importRows.assets : SameAsset(a, b),
         \A a \in l.assets \cup importRows.assets : Filed(a, files),
         NEW next, LibSound(next, n),
         next.assets = AfterRefresh(l, files, own, unsealed).lib.assets,
         imports' = next, importRows' \in {importRows, next},
         managed' = AfterRefresh(l, files, own, unsealed).files, taken' = n,
         folder' \in [Paths -> Contents]
  PROVE  ImportInv'
<1> DEFINE r == AfterRefresh(l, files, own, unsealed)
<1>1. /\ r.files \in [1..MaxTaken -> Contents] /\ Covers(r.lib.assets, l.assets)
      /\ \A b \in r.lib.assets : Filed(b, r.files)
      /\ OnlyCopiesGo(l.assets, files, r.files)
  <2>1. \A a \in l.assets : Filed(a, files)
    OBVIOUS
  <2> QED BY <2>1, RefreshKeeps
<1> HIDE DEF r
<1>2. \A a \in next.assets, b \in importRows.assets : SameAsset(a, b)
  BY <1>1 DEF Covers, SameAsset, r
<1>3. taken \in Nat /\ MaxTaken \in Nat /\ n \in 0..MaxTaken
  BY ImportAssumption DEF ImportInv
<1>4. LibSound(importRows, n)
  BY <1>3, MoreNumbers DEF ImportInv
<1>5. ASSUME NEW b \in importRows.assets PROVE Filed(b, r.files)
  <2> SUFFICES ASSUME b.mode = "Move" PROVE r.files[b.id] = files[b.id]
    BY DEF Filed
  <2>1. b.id \in 1..n
    BY <1>4 DEF LibSound, LibType, AssetsUpTo
  <2>2. b.id \in 1..MaxTaken
    BY <1>3, <2>1
  <2>3. \A a \in l.assets : a.id = b.id => a.mode = "Move"
    BY DEF SameAsset
  <2> QED BY <1>1, <2>2, <2>3 DEF OnlyCopiesGo
<1>6. LibSound(imports', n) /\ LibSound(importRows', n)
  BY <1>4
<1>7. Unique(next.assets)
  BY DEF LibSound
<1>8. \A a \in imports'.assets, b \in importRows'.assets : SameAsset(a, b)
  BY <1>2, <1>7 DEF Unique, SameAsset
<1>9. \A a \in imports'.assets \cup importRows'.assets : Filed(a, managed')
  BY <1>1, <1>5 DEF r
<1>10. folder' \in [Paths -> Bytes \cup {Nothing}] /\ managed' \in [1..MaxTaken -> Bytes \cup {Nothing}]
  BY <1>1 DEF Contents, r
<1>11. taken' \in 0..MaxTaken
  BY <1>3
<1>12. LibSound(imports, taken)' /\ LibSound(importRows, taken)'
  BY <1>6, SoundLater
<1>13. (\A a \in imports.assets, b \in importRows.assets : SameAsset(a, b))'
  BY <1>8 DEF SameAsset
<1>14. (\A a \in imports.assets \cup importRows.assets : Filed(a, managed))'
  BY <1>9 DEF Filed
<1> QED BY <1>10, <1>11, <1>12, <1>13, <1>14 DEF ImportInv

\* The user's files are none of the library's business.
LEMMA EditedKeeps ==
  ASSUME ImportInv, NEW p \in Paths, NEW content \in Bytes \cup {Nothing}, Edited(p, content)
  PROVE  ImportInv'
<1>1. folder' \in [Paths -> Bytes \cup {Nothing}]
  BY DEF ImportInv, Edited
<1>2. /\ managed' = managed /\ imports' = imports /\ importRows' = importRows /\ taken' = taken
  BY DEF Edited
<1>3. LibSound(imports, taken)' /\ LibSound(importRows, taken)'
  BY <1>2, SoundLater DEF ImportInv
<1>4. (\A a \in imports.assets, b \in importRows.assets : SameAsset(a, b))'
  BY <1>2 DEF ImportInv, SameAsset
<1>5. (\A a \in imports.assets \cup importRows.assets : Filed(a, managed))'
  BY <1>2 DEF ImportInv, Filed
<1> QED BY <1>1, <1>2, <1>3, <1>4, <1>5 DEF ImportInv

\* A file imported on its own is a new asset of its vault.
LEMMA import_asset_keeps ==
  ASSUME ImportInv, NEW p \in Paths, NEW vault \in Into, NEW mode \in Modes, import_asset(p, vault, mode)
  PROVE  ImportInv'
<1> DEFINE a == [id |-> taken + 1, vault |-> vault, hash |-> folder[p], mode |-> mode,
                 path |-> p, sealed |-> Nothing]
           files == IF mode = "Copy" THEN [managed EXCEPT ![a.id] = folder[p]] ELSE managed
           l == [imports EXCEPT !.assets = @ \cup {a}]
           n == taken + 1
<1>1. /\ taken \in Nat /\ n \in Nat /\ taken <= n /\ n <= MaxTaken /\ MaxTaken \in Nat
      /\ n \in 1..MaxTaken /\ n \in 1..n
  BY ImportAssumption DEF ImportInv, import_asset
<1>2. /\ folder \in [Paths -> Contents] /\ managed \in [1..MaxTaken -> Contents] /\ folder[p] \in Bytes
      /\ mode # "Move" /\ taken' = n /\ folder' = folder /\ AssetIn(imports, vault, folder[p]) = {}
  BY DEF ImportInv, import_asset, Contents
<1>3. a \in AssetsUpTo(n) /\ a.id = n /\ a.vault = vault /\ a.hash = folder[p] /\ a.mode = mode
  BY <1>1, <1>2 DEF AssetsUpTo
<1> HIDE DEF a
<1>4. /\ LibSound(imports, n) /\ LibSound(importRows, n) /\ LibSound(imports, taken) /\ LibSound(importRows, taken)
  BY <1>1, MoreNumbers DEF ImportInv
<1>5. l.assets = imports.assets \cup {a} /\ l.sessions = imports.sessions /\ l \in LibType(n)
  BY <1>3, <1>4 DEF LibSound, LibType
<1> HIDE DEF l
<1>6. \A b \in imports.assets \cup importRows.assets : b.id \in 1..taken /\ b.id # n
  <2>1. \A b \in imports.assets \cup importRows.assets : b.id \in 1..taken
    BY <1>4 DEF LibSound, LibType, AssetsUpTo
  <2> QED BY <1>1, <2>1
<1>7. LibSound(l, n)
  <2>1. Unique(l.assets)
    BY <1>3, <1>4, <1>5, <1>6 DEF Unique, LibSound
  <2>2. ImportsFit(l)
    BY <1>2, <1>3, <1>4, <1>5 DEF ImportsFit, LibSound, AssetIn
  <2>3. Covers(imports.assets, l.assets)
    BY <1>5 DEF Covers
  <2>4. \A s \in DOMAIN l.sessions : SessionSound(l.assets, l.sessions[s])
    BY <1>4, <1>5, <2>3, SessionStays DEF LibSound
  <2> QED BY <1>5, <2>1, <2>2, <2>4 DEF LibSound
<1>8. /\ files \in [1..MaxTaken -> Contents] /\ \A i \in 1..taken : files[i] = managed[i]
  <2>1. n \notin 1..taken /\ 1..taken \subseteq 1..MaxTaken
    BY <1>1
  <2> QED BY <1>1, <1>2, <1>3, <2>1 DEF Contents
<1> HIDE DEF files
<1>9. \A b \in l.assets \cup importRows.assets : Filed(b, files)
  BY <1>2, <1>3, <1>5, <1>6, <1>8 DEF ImportInv, Filed
<1>10. \A c \in l.assets, b \in importRows.assets : SameAsset(c, b)
  BY <1>3, <1>5, <1>6 DEF ImportInv, SameAsset
<1>11. PICK unsealed \in SUBSET ToSeal(l, files, folder) :
          LET r == AfterRefresh(l, files, folder, unsealed)
          IN managed' = r.files /\ imports' = r.lib /\ importRows' \in {importRows, r.lib}
  BY DEF import_asset, SaveImports, l, files, a
<1> DEFINE next == AfterRefresh(l, files, folder, unsealed).lib
<1>12. LibSound(next, n)
  BY <1>1, <1>2, <1>7, <1>8, <1>9, RefreshKeeps
<1> QED
  <2> HIDE DEF next, n
  <2> QED BY <1>1, <1>2, <1>7, <1>8, <1>9, <1>10, <1>11, <1>12, LibraryStep DEF next

\* The database after what is in memory is saved, or not, when no asset and no file changes.
LEMMA SavedKeeps ==
  ASSUME ImportInv, NEW l, LibSound(l, taken), l.assets = imports.assets,
         SaveImports(l), UNCHANGED <<folder, managed, taken>>
  PROVE  ImportInv'
<1>1. imports' = l /\ importRows' \in {importRows, l} /\ folder' = folder /\ managed' = managed /\ taken' = taken
  BY DEF SaveImports
<1>2. LibSound(imports, taken)' /\ LibSound(importRows, taken)'
  BY <1>1, SoundLater DEF ImportInv
<1>3. \A a \in l.assets, b \in importRows.assets : SameAsset(a, b)
  BY DEF ImportInv
<1>4. Unique(l.assets)
  BY DEF LibSound
<1>5. (\A a \in imports.assets, b \in importRows.assets : SameAsset(a, b))'
  BY <1>1, <1>3, <1>4 DEF SameAsset, Unique
<1>6. (\A a \in imports.assets \cup importRows.assets : Filed(a, managed))'
  BY <1>1 DEF ImportInv, Filed
<1>7. folder' \in [Paths -> Bytes \cup {Nothing}] /\ taken' \in 0..MaxTaken /\ managed' \in [1..MaxTaken -> Bytes \cup {Nothing}]
  BY <1>1 DEF ImportInv
<1> QED BY <1>2, <1>5, <1>6, <1>7 DEF ImportInv

\* A scan lists every file that is there, once.
LEMMA collect_lists ==
  ASSUME ImportInv
  PROVE  /\ collect_media_files \in Seq({p \in Paths : folder[p] # Nothing})
         /\ Len(collect_media_files) <= Cardinality(Paths)
         /\ \A i, j \in DOMAIN collect_media_files : collect_media_files[i] = collect_media_files[j] => i = j
<1> DEFINE S == {p \in Paths : folder[p] # Nothing}
           list == collect_media_files
           N == Cardinality(S)
<1>1. IsFiniteSet(S) /\ N <= Cardinality(Paths) /\ S \subseteq Nat
  BY ImportAssumption, FS_Subset
<1>2. N \in Nat
  BY <1>1, FS_CardinalityType
<1>3. list = SortedBy(S, [n \in S |-> n])
  BY DEF collect_media_files, Ascending
<1> HIDE DEF S, list
<1>4. \A s \in S : [n \in S |-> n][s] \in Nat
  BY <1>1
<1>5. list \in [1..N -> S] /\ \A i, j \in 1..N : list[i] = list[j] => i = j
  BY <1>1, <1>3, <1>4, SortedIsComplete
<1> HIDE DEF N
<1>6. list \in Seq(S) /\ Len(list) = N
  BY <1>2, <1>5, IsASeq, LenProperties
<1> QED BY <1>1, <1>5, <1>6 DEF S, list, N

\* What a scan takes to be a duplicate is an asset of the vault with the same content.
LEMMA DuplicateIsThere ==
  ASSUME NEW l, NEW n, LibSound(l, n), NEW vault, NEW hash
  PROVE  LET id == DuplicateOf(l, vault, hash)
         IN id \in Nat /\ (id # 0 => Has(l.assets, vault, id, hash))
<1>1. CASE AssetIn(l, vault, hash) = {}
  BY <1>1 DEF DuplicateOf
<1>2. CASE AssetIn(l, vault, hash) # {}
  <2> DEFINE a == CHOOSE a \in AssetIn(l, vault, hash) : TRUE
  <2>1. a \in AssetIn(l, vault, hash)
    BY <1>2
  <2>2. DuplicateOf(l, vault, hash) = a.id
    BY <1>2 DEF DuplicateOf
  <2> HIDE DEF a
  <2>3. a \in l.assets /\ a.vault = vault /\ a.hash = hash
    BY <2>1 DEF AssetIn
  <2>4. a.id \in Nat
    BY <2>3 DEF LibSound, LibType, AssetsUpTo
  <2> QED BY <2>2, <2>3, <2>4 DEF Has
<1> QED BY <1>1, <1>2

\* The vault of a session is one of those there are, or none yet.
LEMMA OnlyVaultType ==
  ASSUME NEW vault \in Into \cup {0}
  PROVE  OnlyVault(vault) \in Into \cup {0} /\ (vault # 0 => OnlyVault(vault) = vault)
<1>1. CASE vault = 0 /\ Cardinality(Into) = 1
  <2>1. Into # {}
    BY <1>1, FS_EmptySet
  <2> QED BY <1>1, <2>1 DEF OnlyVault
<1>2. CASE ~(vault = 0 /\ Cardinality(Into) = 1)
  BY <1>2 DEF OnlyVault
<1> QED BY <1>1, <1>2

\* A session as it was scanned is sound.
LEMMA ScanIsSound ==
  ASSUME ImportInv, NEW vault \in Into \cup {0}, NEW mode \in Modes
  PROVE  /\ scan_source(vault, mode) \in SessionType
         /\ SessionSound(imports.assets, scan_source(vault, mode))
<1> DEFINE list == collect_media_files
           C(n) == [path |-> list[n], hash |-> folder[list[n]], selected |-> TRUE,
                    duplicate |-> DuplicateOf(imports, vault, folder[list[n]])]
           candidates == [n \in DOMAIN list |-> C(n)]
           session == scan_source(vault, mode)
<1>1. /\ list \in Seq({p \in Paths : folder[p] # Nothing}) /\ Len(list) <= Cardinality(Paths)
      /\ \A i, j \in DOMAIN list : list[i] = list[j] => i = j
  BY collect_lists
<1>2. session = [target |-> vault, mode |-> mode, status |-> "scanned",
                 imported |-> {}, skipped |-> <<>>, failed |-> {}, candidates |-> candidates]
  BY DEF scan_source
<1> HIDE DEF list, session
<1>3. DOMAIN list = 1..Len(list) /\ Len(list) \in Nat
  BY <1>1, LenProperties
<1>4. \A n \in DOMAIN list : list[n] \in Paths /\ folder[list[n]] \in Bytes
  <2>1. \A n \in DOMAIN list : list[n] \in {p \in Paths : folder[p] # Nothing}
    BY <1>1, <1>3, ElementOfSeq
  <2> QED BY <2>1 DEF ImportInv
<1>5. ASSUME NEW n \in DOMAIN list
      PROVE  /\ C(n) \in CandidateType
             /\ C(n).duplicate # 0 => Has(imports.assets, vault, C(n).duplicate, C(n).hash)
  <2> DEFINE d == DuplicateOf(imports, vault, folder[list[n]])
  <2>1. d \in Nat /\ (d # 0 => Has(imports.assets, vault, d, folder[list[n]]))
    BY DuplicateIsThere DEF ImportInv
  <2> HIDE DEF d
  <2> QED BY <1>4, <2>1 DEF CandidateType, d
<1>6. /\ candidates \in Seq(CandidateType) /\ Len(candidates) = Len(list)
  <2> HIDE DEF C
  <2>1. candidates \in [1..Len(list) -> CandidateType]
    BY <1>3, <1>5
  <2> HIDE DEF candidates
  <2>2. candidates \in Seq(CandidateType)
    BY <1>3, <2>1, IsASeq
  <2> QED BY <1>3, <2>1, <2>2, LenProperties
<1>7. Listed(candidates)
  <2>1. \A n \in DOMAIN candidates : n \in DOMAIN list /\ candidates[n].path = list[n]
    OBVIOUS
  <2> HIDE DEF candidates
  <2> QED BY <1>1, <1>6, <2>1 DEF Listed
<1>8. \A n \in DOMAIN candidates : candidates[n].duplicate # 0 =>
         Has(imports.assets, vault, candidates[n].duplicate, candidates[n].hash)
  <2>1. \A n \in DOMAIN candidates : n \in DOMAIN list /\ candidates[n] = C(n)
    OBVIOUS
  <2> HIDE DEF candidates, C
  <2> QED BY <1>5, <2>1
<1> HIDE DEF candidates
<1>9. session \in SessionType
  <2>1. <<>> \in Seq(Nat)
    OBVIOUS
  <2> QED BY <1>2, <1>6, <2>1 DEF SessionType
<1>10. SessionSound(imports.assets, session)
  BY <1>2, <1>7, <1>8 DEF SessionSound, DuplicatesAreThere
<1> QED BY <1>9, <1>10 DEF session

\* A scan adds a session to the library.
LEMMA scan_import_source_keeps ==
  ASSUME ImportInv, NEW vault \in Into \cup {0}, NEW mode \in Modes, scan_import_source(vault, mode)
  PROVE  ImportInv'
<1> DEFINE session == scan_source(OnlyVault(vault), mode)
           l == [imports EXCEPT !.sessions = Append(@, session)]
<1>1. session \in SessionType /\ SessionSound(imports.assets, session)
  BY OnlyVaultType, ScanIsSound
<1>2. SaveImports(l) /\ UNCHANGED <<folder, managed, taken>>
  BY DEF scan_import_source
<1> HIDE DEF session
<1>3. LibSound(imports, taken)
  BY DEF ImportInv
<1>4. imports.sessions \in Seq(SessionType) /\ imports \in LibType(taken)
  BY <1>3 DEF LibSound, LibType
<1>5. /\ l.assets = imports.assets /\ l.sessions = Append(imports.sessions, session)
      /\ l \in LibType(taken)
  BY <1>1, <1>4, AppendProperties DEF LibType
<1> HIDE DEF l
<1>6. ASSUME NEW s \in DOMAIN l.sessions PROVE SessionSound(l.assets, l.sessions[s])
  <2>1. Len(imports.sessions) \in Nat /\ DOMAIN imports.sessions = 1..Len(imports.sessions)
    BY <1>4, LenProperties
  <2>2. DOMAIN l.sessions = 1..Len(imports.sessions) + 1
    BY <1>1, <1>4, <1>5, <2>1, AppendProperties, LenProperties
  <2>3. s \in DOMAIN imports.sessions \/ s = Len(imports.sessions) + 1
    BY <1>6, <2>1, <2>2
  <2>4. l.sessions[s] = session \/ (s \in DOMAIN imports.sessions /\ l.sessions[s] = imports.sessions[s])
    BY <1>1, <1>4, <1>5, <2>1, <2>3, AppendProperties
  <2> QED BY <1>1, <1>3, <1>5, <2>4 DEF LibSound
<1>7. LibSound(l, taken)
  BY <1>3, <1>5, <1>6 DEF LibSound, ImportsFit
<1> QED BY <1>2, <1>5, <1>7, SavedKeeps
-----------------------------------------------------------------------------
\* What a commit begins with.
Asked(scanned, target, mode, picked) ==
    [scanned EXCEPT !.target = target, !.mode = mode, !.imported = {}, !.skipped = <<>>, !.failed = {},
                    !.candidates = [n \in DOMAIN @ |-> [@[n] EXCEPT !.selected = n \in picked]]]
Begin(session, target) ==
    [session |-> session, folder |-> folder, managed |-> managed, taken |-> taken,
     known |-> KnownHashes(imports, target), new |-> {}, stopped |-> FALSE]

\* The session as it was asked for: its candidates, and which of them.
LEMMA AskedSession ==
  ASSUME NEW scanned \in SessionType, NEW target \in Into, NEW mode \in Modes, NEW picked,
         picked \subseteq DOMAIN scanned.candidates
  PROVE  LET session == Asked(scanned, target, mode, picked)
         IN /\ session \in SessionType /\ session.target = target
            /\ session.imported = {} /\ session.skipped = <<>> /\ session.failed = {}
            /\ DOMAIN session.candidates = DOMAIN scanned.candidates
            /\ \A n \in DOMAIN scanned.candidates :
                  /\ session.candidates[n].path = scanned.candidates[n].path
                  /\ session.candidates[n].hash = scanned.candidates[n].hash
                  /\ session.candidates[n].duplicate = scanned.candidates[n].duplicate
                  /\ session.candidates[n].selected = (n \in picked)
<1> DEFINE c == scanned.candidates
           d == [n \in DOMAIN c |-> [c[n] EXCEPT !.selected = n \in picked]]
           session == Asked(scanned, target, mode, picked)
<1>1. c \in Seq(CandidateType) /\ DOMAIN c = 1..Len(c) /\ Len(c) \in Nat
  BY LenProperties DEF SessionType
<1>2. \A n \in DOMAIN c : c[n] \in CandidateType
  BY <1>1, ElementOfSeq
<1>3. session = [scanned EXCEPT !.target = target, !.mode = mode, !.imported = {}, !.skipped = <<>>,
                                !.failed = {}, !.candidates = d]
  BY Zenon DEF Asked, SessionType
<1> HIDE DEF c, session
<1>4. ASSUME NEW n \in DOMAIN c
      PROVE  /\ d[n] \in CandidateType /\ d[n].path = c[n].path /\ d[n].hash = c[n].hash
             /\ d[n].duplicate = c[n].duplicate /\ d[n].selected = (n \in picked)
  <2> DEFINE chosen == n \in picked
             e == [c[n] EXCEPT !.selected = chosen]
  <2>1. chosen \in BOOLEAN /\ c[n] \in CandidateType
    BY <1>2
  <2>2. d[n] = e
    OBVIOUS
  <2> HIDE DEF chosen
  <2>3. e.selected = chosen /\ e \in CandidateType /\ e.path = c[n].path /\ e.hash = c[n].hash /\ e.duplicate = c[n].duplicate
    BY <2>1 DEF CandidateType
  <2> HIDE DEF e, d
  <2> QED BY <2>2, <2>3 DEF chosen
<1>5. DOMAIN d = DOMAIN c
  OBVIOUS
<1> HIDE DEF d
<1>6. d \in Seq(CandidateType)
  <2>1. d \in [1..Len(c) -> CandidateType]
    <3>1. d = [n \in DOMAIN c |-> d[n]]
      BY DEF d
    <3> QED BY <1>1, <1>4, <1>5, <3>1
  <2> QED BY <1>1, <2>1, IsASeq
<1>7. <<>> \in Seq(Nat)
  OBVIOUS
<1>8. /\ session \in SessionType /\ session.target = target /\ session.candidates = d
      /\ session.imported = {} /\ session.skipped = <<>> /\ session.failed = {}
  BY <1>3, <1>6, <1>7 DEF SessionType
<1> QED BY <1>4, <1>5, <1>8 DEF c, session

\* A commit begins with a sound session, of which nothing has been done.
LEMMA BeginIsSound ==
  ASSUME ImportInv, NEW scanned \in SessionType, SessionSound(imports.assets, scanned),
         NEW target \in Into, scanned.target \in {0, target}, NEW mode \in Modes, NEW picked,
         picked \subseteq DOMAIN scanned.candidates
  PROVE  LET start == Begin(Asked(scanned, target, mode, picked), target)
         IN start.session.candidates \in Seq(CandidateType) /\ RunInv(start, 0, scanned.candidates, picked, target)
<1> DEFINE session == Asked(scanned, target, mode, picked)
           start == Begin(session, target)
<1>1. /\ session \in SessionType /\ session.target = target
      /\ session.imported = {} /\ session.skipped = <<>> /\ session.failed = {}
      /\ DOMAIN session.candidates = DOMAIN scanned.candidates
      /\ \A n \in DOMAIN scanned.candidates :
            /\ session.candidates[n].path = scanned.candidates[n].path
            /\ session.candidates[n].hash = scanned.candidates[n].hash
            /\ session.candidates[n].duplicate = scanned.candidates[n].duplicate
            /\ session.candidates[n].selected = (n \in picked)
  BY AskedSession
<1> HIDE DEF session
<1>2. /\ start.session = session /\ start.folder = folder /\ start.managed = managed /\ start.taken = taken
      /\ start.known = KnownHashes(imports, target) /\ start.new = {} /\ start.stopped = FALSE
      /\ start = [session |-> session, folder |-> folder, managed |-> managed, taken |-> taken,
                  known |-> KnownHashes(imports, target), new |-> {}, stopped |-> FALSE]
  BY DEF Begin
<1> HIDE DEF start
<1>3. taken \in Nat /\ taken \in 0..MaxTaken /\ MaxTaken \in Nat /\ LibSound(imports, taken)
  BY ImportAssumption DEF ImportInv
<1>4. KnownHashes(imports, target) \in SUBSET Bytes
  BY <1>3 DEF KnownHashes, LibSound, LibType, AssetsUpTo
<1>5. start \in RunType
  BY <1>1, <1>2, <1>3, <1>4 DEF RunType, ImportInv, Contents
<1>6. UpTo(picked, 0) = {} /\ Cardinality(UpTo(picked, 0)) = 0
  <2>1. DOMAIN scanned.candidates = 1..Len(scanned.candidates) /\ Len(scanned.candidates) \in Nat
    BY LenProperties DEF SessionType
  <2>2. UpTo(picked, 0) = {}
    BY <2>1 DEF UpTo
  <2> QED BY <2>2, FS_EmptySet
<1>7. SameFiles(start, scanned.candidates, picked)
  BY <1>1, <1>2 DEF SameFiles
<1>8. NewAreNew(start, target)
  BY <1>2 DEF NewAreNew, Unique, KnownHashes
<1>9. CountedSoFar(start, 0, picked)
  <2>1. Cardinality({}) = 0 /\ Len(<<>>) = 0 /\ Range(<<>>) = {}
    BY FS_EmptySet DEF Range
  <2>2. /\ start.session.imported = {} /\ start.session.failed = {} /\ start.session.skipped = <<>>
        /\ Range(start.session.skipped) = {}
    BY <1>1, <1>2, <2>1
  <2>3. Cardinality(start.session.imported) = 0 /\ Len(start.session.skipped) = 0 /\ Cardinality(start.session.failed) = 0
    BY <2>1, <2>2
  <2> QED BY <1>6, <2>2, <2>3 DEF CountedSoFar
<1>10. DuplicatesAreThere(imports.assets \cup start.new, start.session)
  <2>1. \A a \in imports.assets : a.vault # 0
    BY <1>3, ImportAssumption DEF LibSound, LibType, AssetsUpTo
  <2>2. \A n \in DOMAIN scanned.candidates : scanned.candidates[n].duplicate # 0 =>
           Has(imports.assets, target, scanned.candidates[n].duplicate, scanned.candidates[n].hash)
    BY <2>1 DEF SessionSound, DuplicatesAreThere, Has
  <2> QED BY <1>1, <1>2, <2>2 DEF DuplicatesAreThere
<1>11. start.taken \in taken..MaxTaken /\ start.taken <= taken + Cardinality(UpTo(picked, 0))
  BY <1>2, <1>3, <1>6
<1>12. start.session.candidates \in Seq(CandidateType)
  BY <1>1, <1>2 DEF SessionType
<1> QED BY <1>1, <1>2, <1>5, <1>7, <1>8, <1>9, <1>10, <1>11, <1>12 DEF RunInv, start, session

\* What a commit has done is sound: the library with what is new, and the session.
LEMMA EndIsSound ==
  ASSUME ImportInv, NEW candidates \in Seq(CandidateType), Listed(candidates), NEW picked,
         picked \subseteq DOMAIN candidates, NEW target \in Into, NEW run,
         RunInv(run, Len(candidates), candidates, picked, target)
  PROVE  LET l == [imports EXCEPT !.assets = @ \cup run.new]
         IN /\ run.taken \in Nat /\ taken <= run.taken /\ run.taken <= MaxTaken
            /\ run.managed \in [1..MaxTaken -> Contents] /\ run.folder \in [Paths -> Contents]
            /\ LibSound(l, run.taken) /\ l.sessions = imports.sessions
            /\ \A a \in l.assets, b \in importRows.assets : SameAsset(a, b)
            /\ \A a \in l.assets \cup importRows.assets : Filed(a, run.managed)
            /\ ~run.stopped =>
                  /\ [run.session EXCEPT !.status = "committed"] \in SessionType
                  /\ SessionSound(l.assets, [run.session EXCEPT !.status = "committed"])
<1> DEFINE l == [imports EXCEPT !.assets = @ \cup run.new]
           n == run.taken
           committed == [run.session EXCEPT !.status = "committed"]
<1>1. /\ run \in RunType /\ run.session.target = target /\ SameFiles(run, candidates, picked)
      /\ run.taken \in taken..MaxTaken
      /\ NewAreNew(run, target) /\ CountedSoFar(run, Len(candidates), picked)
      /\ DuplicatesAreThere(imports.assets \cup run.new, run.session)
      /\ \A i \in 1..taken : run.managed[i] = managed[i]
      /\ \A a \in run.new : Filed(a, run.managed)
  BY DEF RunInv
<1>2. taken \in Nat /\ MaxTaken \in Nat /\ LibSound(imports, taken) /\ LibSound(importRows, taken)
  BY ImportAssumption DEF ImportInv
<1>3. n \in Nat /\ taken <= n /\ n <= MaxTaken
  BY <1>1, <1>2
<1>4. run.managed \in [1..MaxTaken -> Contents] /\ run.folder \in [Paths -> Contents] /\ run.session \in SessionType
  BY <1>1 DEF RunType
<1>5. LibSound(imports, n)
  BY <1>2, <1>3, MoreNumbers
<1> HIDE DEF n
<1>6. l.assets = imports.assets \cup run.new /\ l.sessions = imports.sessions /\ l \in LibType(n)
  BY <1>1, <1>5 DEF LibSound, LibType, NewAreNew, n
<1> HIDE DEF l
<1>7. \A b \in imports.assets \cup importRows.assets : b.id \in 1..taken /\ b.id <= taken
  BY <1>2 DEF LibSound, LibType, AssetsUpTo
<1>8. \A a \in run.new : a.id > taken /\ a.vault = target /\ a.id \in Nat
  BY <1>1, <1>3 DEF NewAreNew, AssetsUpTo
<1>9. Unique(l.assets)
  <2> SUFFICES ASSUME NEW a \in l.assets, NEW b \in l.assets, a.id = b.id PROVE a = b
    BY DEF Unique
  <2>1. CASE a \in imports.assets /\ b \in imports.assets
    BY <1>2, <2>1 DEF LibSound, Unique
  <2>2. CASE a \in run.new /\ b \in run.new
    BY <1>1, <2>2 DEF NewAreNew, Unique
  <2> QED BY <1>2, <1>6, <1>7, <1>8, <2>1, <2>2
<1>10. ImportsFit(l)
  <2> SUFFICES ASSUME NEW a \in l.assets, NEW b \in l.assets, a.vault = b.vault, a.hash = b.hash PROVE a = b
    BY DEF ImportsFit
  <2>1. CASE a \in imports.assets /\ b \in imports.assets
    BY <1>2, <2>1 DEF LibSound, ImportsFit
  <2>2. CASE a \in run.new
    BY <1>1, <1>6, <2>2 DEF NewAreNew
  <2>3. CASE b \in run.new
    BY <1>1, <1>6, <2>3 DEF NewAreNew
  <2> QED BY <1>6, <2>1, <2>2, <2>3
<1>11. \A s \in DOMAIN l.sessions : SessionSound(l.assets, l.sessions[s])
  <2>1. Covers(imports.assets, l.assets)
    BY <1>6 DEF Covers
  <2> QED BY <1>2, <1>6, <2>1, SessionStays DEF LibSound
<1>12. LibSound(l, n)
  BY <1>6, <1>9, <1>10, <1>11 DEF LibSound
<1>13. \A a \in l.assets, b \in importRows.assets : SameAsset(a, b)
  <2>1. \A a \in run.new, b \in importRows.assets : a.id # b.id
    BY <1>2, <1>7, <1>8
  <2> QED BY <1>6, <2>1 DEF ImportInv, SameAsset
<1>14. \A a \in l.assets \cup importRows.assets : Filed(a, run.managed)
  BY <1>1, <1>6, <1>7 DEF ImportInv, Filed
<1>15. ASSUME ~run.stopped PROVE committed \in SessionType /\ SessionSound(l.assets, committed)
  <2>1. /\ committed \in SessionType /\ committed.status = "committed" /\ committed.target = target
        /\ committed.candidates = run.session.candidates /\ committed.imported = run.session.imported
        /\ committed.skipped = run.session.skipped /\ committed.failed = run.session.failed
    BY <1>1, <1>4 DEF SessionType
  <2> HIDE DEF committed
  <2>2. /\ DOMAIN committed.candidates = DOMAIN candidates /\ Len(candidates) \in Nat
        /\ DOMAIN candidates = 1..Len(candidates) /\ Len(committed.candidates) = Len(candidates)
    <3>1. committed.candidates \in Seq(CandidateType)
      BY <2>1 DEF SessionType
    <3> QED BY <1>1, <2>1, <3>1, LenProperties DEF SameFiles
  <2>3. Listed(committed.candidates)
    BY <1>1, <2>1, <2>2 DEF Listed, SameFiles
  <2>4. DuplicatesAreThere(l.assets, committed)
    BY <1>1, <1>6, <2>1 DEF DuplicatesAreThere
  <2>5. UpTo(picked, Len(candidates)) = picked /\ Selected(committed.candidates) = picked
    <3>1. UpTo(picked, Len(candidates)) = picked
      BY <2>2 DEF UpTo
    <3>2. Selected(committed.candidates) = picked
      BY <1>1, <2>1, <2>2 DEF Selected, SameFiles
    <3> QED BY <3>1, <3>2
  <2>6. \A id \in committed.imported : Named(l.assets, target, id)
    BY <1>1, <1>6, <1>8, <2>1 DEF CountedSoFar, Named
  <2>7. SkippedAreDuplicates(committed)
    BY <1>1, <2>1, <2>5 DEF CountedSoFar, SkippedAreDuplicates
  <2>8. Cardinality(committed.imported) + Len(committed.skipped) + Cardinality(committed.failed)
          = Cardinality(Selected(committed.candidates))
    BY <1>1, <1>15, <2>1, <2>5 DEF CountedSoFar
  <2> QED BY <2>1, <2>3, <2>4, <2>6, <2>7, <2>8 DEF SessionSound, AddsUp
<1> QED BY <1>3, <1>4, <1>6, <1>12, <1>13, <1>14, <1>15 DEF l, n

\* A commit, whether it stops at a file, cannot seal, is refused by the database or succeeds.
LEMMA commit_import_session_keeps ==
  ASSUME ImportInv, NEW s \in DOMAIN imports.sessions, NEW vault \in Into \cup {0},
         NEW chosen, NEW stuck, NEW mode \in Modes, commit_import_session(s, vault, chosen, mode, stuck)
  PROVE  ImportInv'
<1> DEFINE scanned == imports.sessions[s]
           target == Target(scanned, vault)
           picked == {n \in DOMAIN scanned.candidates : scanned.candidates[n].path \in chosen}
           start == Begin(Asked(scanned, target, mode, picked), target)
           run == AfterCandidates(start, target, mode, stuck)
           l == [imports EXCEPT !.assets = @ \cup run.new]
           committed == [run.session EXCEPT !.status = "committed"]
<1>1. LibSound(imports, taken) /\ imports.sessions \in Seq(SessionType)
  BY DEF ImportInv, LibSound, LibType
<1>2. scanned \in SessionType /\ SessionSound(imports.assets, scanned)
  BY <1>1, ElementOfSeq, LenProperties DEF LibSound
<1>3. /\ scanned.target \in {0, vault} \/ vault = 0
      /\ target # 0 /\ taken + Cardinality(picked) <= MaxTaken
      /\ folder' = run.folder /\ taken' = run.taken
      /\ IF run.stopped
         THEN managed' = run.managed /\ UNCHANGED <<imports, importRows, importFaults>>
         ELSE \E unsealed \in SUBSET ToSeal(l, run.managed, run.folder) :
                LET r == AfterRefresh(l, run.managed, run.folder, unsealed)
                IN /\ managed' = r.files
                   /\ IF unsealed # {} THEN Fault /\ imports' = r.lib /\ UNCHANGED importRows
                      ELSE SaveImports([r.lib EXCEPT !.sessions[s] = committed])
  BY DEF commit_import_session, Begin, Asked
<1> HIDE DEF scanned
<1>4. target \in Into /\ scanned.target \in {0, target}
  <2>1. scanned.target \in Into \cup {0}
    BY <1>2 DEF SessionType
  <2>2. OnlyVault(scanned.target) \in Into \cup {0} /\ (scanned.target # 0 => OnlyVault(scanned.target) = scanned.target)
    BY <2>1, OnlyVaultType
  <2> QED BY <1>3, <2>1, <2>2 DEF Target
<1>5. /\ scanned.candidates \in Seq(CandidateType) /\ Listed(scanned.candidates)
      /\ picked \subseteq DOMAIN scanned.candidates
      /\ DOMAIN scanned.candidates = 1..Len(scanned.candidates)
  BY <1>2, LenProperties DEF SessionType, SessionSound
<1> HIDE DEF target, picked
<1>6. start.session.candidates \in Seq(CandidateType) /\ RunInv(start, 0, scanned.candidates, picked, target)
  BY <1>2, <1>4, <1>5, BeginIsSound
<1> HIDE DEF start
<1>7. RunInv(run, Len(scanned.candidates), scanned.candidates, picked, target)
  BY <1>3, <1>4, <1>5, <1>6, LoopKeeps
<1> HIDE DEF run
<1>8. /\ run.taken \in Nat /\ taken <= run.taken /\ run.taken <= MaxTaken
      /\ run.managed \in [1..MaxTaken -> Contents] /\ run.folder \in [Paths -> Contents]
      /\ LibSound(l, run.taken) /\ l.sessions = imports.sessions
      /\ \A a \in l.assets, b \in importRows.assets : SameAsset(a, b)
      /\ \A a \in l.assets \cup importRows.assets : Filed(a, run.managed)
      /\ ~run.stopped =>
            /\ committed \in SessionType
            /\ SessionSound(l.assets, committed)
  BY <1>4, <1>5, <1>7, EndIsSound
<1>9. l.assets = imports.assets \cup run.new
  BY <1>1 DEF LibSound, LibType
<1> HIDE DEF l, committed
<1>10. CASE run.stopped
  <2>1. /\ managed' = run.managed /\ imports' = imports /\ importRows' = importRows
        /\ folder' = run.folder /\ taken' = run.taken
    BY <1>3, <1>10
  <2>2. taken \in Nat /\ LibSound(imports, run.taken) /\ LibSound(importRows, run.taken)
    BY <1>8, ImportAssumption, MoreNumbers DEF ImportInv
  <2>3. LibSound(imports, taken)' /\ LibSound(importRows, taken)'
    BY <2>1, <2>2, SoundLater
  <2>4. (\A a \in imports.assets, b \in importRows.assets : SameAsset(a, b))'
    BY <2>1 DEF ImportInv, SameAsset
  <2>5. (\A a \in imports.assets \cup importRows.assets : Filed(a, managed))'
    BY <1>8, <1>9, <2>1 DEF Filed
  <2>6. run.taken \in 0..MaxTaken
    BY <1>8, ImportAssumption
  <2>7. /\ folder' \in [Paths -> Bytes \cup {Nothing}] /\ managed' \in [1..MaxTaken -> Bytes \cup {Nothing}]
    BY <1>8, <2>1 DEF Contents
  <2> QED BY <2>1, <2>3, <2>4, <2>5, <2>6, <2>7 DEF ImportInv
<1>11. CASE ~run.stopped
  <2>1. PICK unsealed \in SUBSET ToSeal(l, run.managed, run.folder) :
           LET r == AfterRefresh(l, run.managed, run.folder, unsealed)
           IN /\ managed' = r.files
              /\ \/ imports' = r.lib /\ importRows' = importRows
                 \/ /\ imports' = [r.lib EXCEPT !.sessions[s] = committed]
                    /\ importRows' \in {importRows, [r.lib EXCEPT !.sessions[s] = committed]}
    BY <1>3, <1>11 DEF SaveImports
  <2> DEFINE r == AfterRefresh(l, run.managed, run.folder, unsealed)
             next == [r.lib EXCEPT !.sessions[s] = committed]
  <2>2. LibSound(r.lib, run.taken) /\ r.lib.sessions = l.sessions /\ Covers(l.assets, r.lib.assets)
    <3>1. \A a \in l.assets : Filed(a, run.managed)
      BY <1>8
    <3> QED BY <1>8, <3>1, RefreshKeeps
  <2>3. folder' \in [Paths -> Contents] /\ taken' = run.taken
    BY <1>3, <1>8
  <2> HIDE DEF r
  <2>4. LibSound(next, run.taken) /\ next.assets = r.lib.assets
    <3> DEFINE sessions == [imports.sessions EXCEPT ![s] = committed]
    <3>1. r.lib \in LibType(run.taken) /\ r.lib.sessions = imports.sessions
      BY <1>8, <2>2 DEF LibSound
    <3>2. next.assets = r.lib.assets /\ next.sessions = sessions /\ next = [r.lib EXCEPT !.sessions = sessions]
      BY <3>1 DEF LibType
    <3>3. sessions \in Seq(SessionType)
      BY <1>1, <1>8, <1>11, ExceptSeq, LenProperties
    <3>4. \A i \in DOMAIN sessions :
             i \in DOMAIN imports.sessions /\ (sessions[i] = committed \/ sessions[i] = imports.sessions[i])
      OBVIOUS
    <3> HIDE DEF sessions, next
    <3>5. next \in LibType(run.taken)
      BY <3>1, <3>2, <3>3 DEF LibType
    <3>6. SessionSound(r.lib.assets, committed)
      BY <1>8, <1>11, <2>2, SessionStays
    <3>7. \A i \in DOMAIN sessions : SessionSound(r.lib.assets, sessions[i])
      BY <2>2, <3>1, <3>4, <3>6 DEF LibSound
    <3>8. ImportsFit(next)
      BY <2>2, <3>2 DEF LibSound, ImportsFit
    <3> QED BY <2>2, <3>2, <3>5, <3>7, <3>8 DEF LibSound
  <2> HIDE DEF next
  <2>5. CASE imports' = r.lib /\ importRows' = importRows
    BY <1>8, <2>1, <2>2, <2>3, <2>5, LibraryStep DEF r
  <2>6. CASE imports' = next /\ importRows' \in {importRows, next}
    BY <1>8, <2>1, <2>3, <2>4, <2>6, LibraryStep DEF r
  <2> QED BY <2>1, <2>5, <2>6 DEF r, next
<1> QED BY <1>10, <1>11
-----------------------------------------------------------------------------
\* The list of elements that are each there once has as many selected ones as there are.
LEMMA SelectedOnce ==
  ASSUME NEW list, NEW N \in Nat, DOMAIN list = 1..N, \A i, j \in 1..N : list[i] = list[j] => i = j
  PROVE  Cardinality(Selected(list)) = Cardinality({c \in Range(list) : c.selected})
<1> DEFINE S == Selected(list)
           chosen == {c \in Range(list) : c.selected}
           f == [i \in S |-> list[i]]
<1>1. S \subseteq 1..N /\ IsFiniteSet(S)
  <2>1. S \in SUBSET (1..N) /\ IsFiniteSet(1..N)
    BY NumbersAreFinite DEF Selected
  <2> QED BY <2>1, FS_Subset
<1>2. f \in Bijection(S, chosen)
  <2>1. \A i \in S : f[i] \in chosen
    BY <1>1 DEF Selected, Range
  <2>2. \A c \in chosen : \E i \in S : f[i] = c
    BY DEF Selected, Range
  <2>3. \A i, j \in S : f[i] = f[j] => i = j
    BY <1>1
  <2>4. f \in [S -> chosen]
    BY <2>1
  <2> HIDE DEF S, f, chosen
  <2> QED BY <2>2, <2>3, <2>4 DEF Bijection, Injection, Surjection, IsInjective
<1> HIDE DEF f, S, chosen
<1>3. ExistsBijection(S, chosen)
  BY <1>2 DEF ExistsBijection
<1>4. Cardinality(chosen) = Cardinality(S)
  BY <1>1, <1>3, FS_Bijection
<1> QED BY <1>4 DEF S, chosen

\* What is in a sorted session is what was in it.
LEMMA SortedSession ==
  ASSUME NEW session \in SessionType, NEW assets, SessionSound(assets, session)
  PROVE  LET loaded == [session EXCEPT !.candidates =
                           SortedBy(Range(@), [c \in Range(@) |-> NameOrder[c.path]])]
         IN loaded \in SessionType /\ SessionSound(assets, loaded)
<1> DEFINE old == session.candidates
           R == Range(old)
           number == [c \in R |-> NameOrder[c.path]]
           new == SortedBy(R, number)
           loaded == [session EXCEPT !.candidates = new]
           N == Cardinality(R)
<1>1. old \in Seq(CandidateType) /\ DOMAIN old = 1..Len(old) /\ Len(old) \in Nat /\ Listed(old)
  BY LenProperties DEF SessionType, SessionSound
<1>2. \A n \in DOMAIN old : old[n] \in CandidateType
  BY <1>1, ElementOfSeq
<1> HIDE DEF old
<1>3. R \subseteq CandidateType /\ old \in [1..Len(old) -> R] /\ old \in Surjection(1..Len(old), R)
  <2>1. old \in [1..Len(old) -> R]
    <3>1. old = [i \in 1..Len(old) |-> old[i]]
      BY <1>1
    <3>2. \A i \in 1..Len(old) : old[i] \in R
      BY <1>1 DEF Range
    <3> HIDE DEF R
    <3> QED BY <3>1, <3>2
  <2>2. \A c \in R : \E i \in 1..Len(old) : old[i] = c
    BY <1>1 DEF Range
  <2>3. R \subseteq CandidateType
    BY <1>2 DEF Range
  <2> HIDE DEF R
  <2> QED BY <2>1, <2>2, <2>3 DEF Surjection
<1>4. IsFiniteSet(R) /\ N <= Len(old) /\ N \in Nat
  <2>1. IsFiniteSet(1..Len(old)) /\ Cardinality(1..Len(old)) = Len(old)
    BY <1>1, NumbersAreFinite
  <2> HIDE DEF R
  <2> QED BY <1>3, <2>1, FS_Surjection, FS_CardinalityType
<1>5. \A c \in R : number[c] \in Nat
  BY <1>3, ImportAssumption DEF CandidateType
<1> HIDE DEF R, number, new
<1>6. /\ new \in [1..N -> R]
      /\ \A i, j \in 1..N : new[i] = new[j] => i = j
      /\ \A c \in R : \E i \in 1..N : new[i] = c
  BY <1>4, <1>5, SortedIsComplete DEF new
<1> HIDE DEF N
<1>7. new \in Seq(CandidateType) /\ Len(new) = N /\ DOMAIN new = 1..N
  <2>1. new \in [1..N -> CandidateType]
    BY <1>3, <1>6
  <2>2. new \in Seq(CandidateType)
    BY <1>4, <2>1, IsASeq
  <2> QED BY <1>4, <2>1, <2>2, LenProperties
<1>8. Range(new) = R /\ Range(old) = R
  <2>1. \A c : c \in Range(new) <=> c \in R
    BY <1>6, <1>7 DEF Range
  <2> QED BY <2>1 DEF R
<1>9. \A i \in DOMAIN new : \E n \in DOMAIN old : new[i] = old[n]
  BY <1>1, <1>3, <1>6, <1>7 DEF Surjection
<1>10. \A n \in DOMAIN old : \E i \in DOMAIN new : new[i] = old[n]
  BY <1>1, <1>3, <1>6, <1>7
<1>11. [session EXCEPT !.candidates = SortedBy(Range(@), [c \in Range(@) |-> NameOrder[c.path]])] = loaded
  BY DEF new, number, R, old
<1>12. /\ loaded \in SessionType /\ loaded.candidates = new /\ loaded.target = session.target
       /\ loaded.status = session.status /\ loaded.imported = session.imported
       /\ loaded.skipped = session.skipped /\ loaded.failed = session.failed
  BY <1>7 DEF SessionType
<1> HIDE DEF loaded
<1>13. Listed(new)
  <2>1. N <= Cardinality(Paths)
    <3> DEFINE P == Cardinality(Paths)
    <3>1. P \in Nat /\ Len(old) <= P
      BY <1>1, ImportAssumption, FS_CardinalityType DEF Listed
    <3> HIDE DEF P
    <3>2. N <= P
      BY <1>1, <1>4, <3>1
    <3> QED BY <3>2 DEF P
  <2>2. \A c, d \in R : c.path = d.path => c = d
    BY <1>1, <1>3 DEF Listed, Surjection
  <2> QED BY <1>6, <1>7, <2>1, <2>2 DEF Listed
<1>14. DuplicatesAreThere(assets, loaded)
  BY <1>9, <1>12 DEF SessionSound, DuplicatesAreThere, old
<1>15. Cardinality(Selected(new)) = Cardinality(Selected(old))
  <2>1. \A i, j \in 1..Len(old) : old[i] = old[j] => i = j
    BY <1>1 DEF Listed
  <2>2. Cardinality(Selected(old)) = Cardinality({c \in R : c.selected})
    BY <1>1, <1>8, <2>1, SelectedOnce
  <2>3. Cardinality(Selected(new)) = Cardinality({c \in R : c.selected})
    BY <1>4, <1>6, <1>7, <1>8, SelectedOnce
  <2> QED BY <2>2, <2>3
<1>16. \A n \in Selected(old) : \E i \in Selected(new) : new[i] = old[n]
  BY <1>10 DEF Selected
<1>17. AddsUp(assets, session) => AddsUp(assets, loaded)
  <2>1. SkippedAreDuplicates(session) => SkippedAreDuplicates(loaded)
    BY <1>12, <1>16 DEF SkippedAreDuplicates, old
  <2> QED BY <1>12, <1>15, <2>1 DEF AddsUp, old
<1> QED BY <1>11, <1>12, <1>13, <1>14, <1>17 DEF SessionSound

\* A restart loads, seals and saves.
LEMMA RestartImportsKeeps ==
  ASSUME ImportInv, RestartImports
  PROVE  ImportInv'
<1> DEFINE sessions == load_import_sessions(importRows)
           l == [importRows EXCEPT !.sessions = sessions]
<1>1. /\ LibSound(importRows, taken) /\ importRows \in LibType(taken)
      /\ importRows.sessions \in Seq(SessionType) /\ taken \in Nat /\ taken <= MaxTaken /\ taken <= taken
  BY ImportAssumption DEF ImportInv, LibSound, LibType
<1>2. PICK unsealed \in SUBSET ToSeal(importRows, managed, folder) :
         LET r == AfterRefresh(l, managed, folder, unsealed)
         IN imports' = r.lib /\ importRows' = r.lib /\ managed' = r.files
  BY DEF RestartImports
<1>3. folder' = folder /\ taken' = taken
  BY DEF RestartImports
<1>4. DOMAIN importRows.sessions = 1..Len(importRows.sessions) /\ Len(importRows.sessions) \in Nat
  BY <1>1, LenProperties
<1>5. ASSUME NEW s \in DOMAIN importRows.sessions
      PROVE  sessions[s] \in SessionType /\ SessionSound(importRows.assets, sessions[s])
  <2>1. importRows.sessions[s] \in SessionType /\ SessionSound(importRows.assets, importRows.sessions[s])
    BY <1>1, <1>4, ElementOfSeq DEF LibSound
  <2>2. sessions[s] = [importRows.sessions[s] EXCEPT !.candidates =
                          SortedBy(Range(@), [c \in Range(@) |-> NameOrder[c.path]])]
    BY DEF load_import_sessions
  <2> HIDE DEF sessions
  <2> QED BY <2>1, <2>2, SortedSession
<1>6. DOMAIN sessions = DOMAIN importRows.sessions /\ sessions = [s \in DOMAIN importRows.sessions |-> sessions[s]]
  BY DEF load_import_sessions
<1> HIDE DEF sessions
<1>7. sessions \in Seq(SessionType)
  <2>1. sessions \in [1..Len(importRows.sessions) -> SessionType]
    BY <1>4, <1>5, <1>6
  <2> QED BY <1>4, <2>1, IsASeq
<1>8. l.assets = importRows.assets /\ l.sessions = sessions /\ l \in LibType(taken)
  BY <1>1, <1>7 DEF LibType
<1> HIDE DEF l
<1>9. LibSound(l, taken)
  BY <1>1, <1>5, <1>6, <1>8 DEF LibSound, ImportsFit
<1>10. unsealed \in SUBSET ToSeal(l, managed, folder)
  BY <1>8 DEF ToSeal
<1>11. managed \in [1..MaxTaken -> Contents] /\ folder \in [Paths -> Contents]
  BY DEF ImportInv, Contents
<1>12. \A a \in l.assets, b \in importRows.assets : SameAsset(a, b)
  BY <1>1, <1>8 DEF LibSound, Unique, SameAsset
<1>13. \A a \in l.assets \cup importRows.assets : Filed(a, managed)
  BY <1>8 DEF ImportInv
<1> DEFINE next == AfterRefresh(l, managed, folder, unsealed).lib
<1>14. LibSound(next, taken)
  <2>1. \A a \in l.assets : Filed(a, managed)
    BY <1>13
  <2> QED BY <1>1, <1>9, <1>10, <1>11, <2>1, RefreshKeeps
<1> HIDE DEF next
<1> QED BY <1>1, <1>2, <1>3, <1>9, <1>10, <1>11, <1>12, <1>13, <1>14, LibraryStep DEF next
-----------------------------------------------------------------------------
\* The library begins empty.
LEMMA ImportBegins ==
  ASSUME ImportInit
  PROVE  ImportInv
<1>1. LibSound(imports, 0)
  <2>1. <<>> \in Seq(SessionType) /\ DOMAIN <<>> = {}
    OBVIOUS
  <2> QED BY <2>1 DEF ImportInit, LibSound, LibType, Unique, ImportsFit
<1> QED BY <1>1, ImportAssumption DEF ImportInit, ImportInv, Nothing

\* Every step keeps the library and its sessions sound.
THEOREM ImportInvariance == ImportSpec => []ImportInv
<1>1. ImportInit => ImportInv
  BY ImportBegins
<1>2. ImportInv /\ [ImportNext]_importVars => ImportInv'
  <2> SUFFICES ASSUME ImportInv, [ImportNext]_importVars PROVE ImportInv'
    OBVIOUS
  <2>1. CASE UNCHANGED importVars
    <3>1. /\ folder' = folder /\ managed' = managed /\ imports' = imports
          /\ importRows' = importRows /\ taken' = taken
      BY <2>1 DEF importVars
    <3>2. LibSound(imports, taken)' /\ LibSound(importRows, taken)'
      BY <3>1, SoundLater DEF ImportInv
    <3>3. (\A a \in imports.assets, b \in importRows.assets : SameAsset(a, b))'
      BY <3>1 DEF ImportInv, SameAsset
    <3>4. (\A a \in imports.assets \cup importRows.assets : Filed(a, managed))'
      BY <3>1 DEF ImportInv, Filed
    <3> QED BY <3>1, <3>2, <3>3, <3>4 DEF ImportInv
  <2>2. CASE \E p \in Paths, content \in Bytes \cup {Nothing} : Edited(p, content)
    BY <2>2, EditedKeeps
  <2>3. CASE \E vault \in Into \cup {0}, mode \in Modes : scan_import_source(vault, mode)
    BY <2>3, scan_import_source_keeps
  <2>4. CASE \E s \in DOMAIN imports.sessions, vault \in Into \cup {0}, chosen, stuck \in SUBSET Paths,
                mode \in Modes : commit_import_session(s, vault, chosen, mode, stuck)
    BY <2>4, commit_import_session_keeps
  <2>5. CASE \E p \in Paths, vault \in Into, mode \in Modes : import_asset(p, vault, mode)
    BY <2>5, import_asset_keeps
  <2>6. CASE RestartImports
    BY <2>6, RestartImportsKeeps
  <2> QED BY <2>1, <2>2, <2>3, <2>4, <2>5, <2>6 DEF ImportNext
<1> QED BY <1>1, <1>2, PTL DEF ImportSpec

\* A sound session accounts for its selection, in the review of duplicates too.
LEMMA SoundAddsUp ==
  ASSUME NEW l, NEW n, LibSound(l, n), NEW s \in DOMAIN l.sessions
  PROVE  LET session == l.sessions[s]
         IN /\ DuplicatesAreThere(l.assets, session)
            /\ session.status = "committed" =>
                 /\ AddsUp(l.assets, session)
                 /\ \A id \in Range(session.skipped) : id \in DOMAIN duplicate_review_summary(l)
<1> DEFINE session == l.sessions[s]
<1>1. SessionSound(l.assets, session) /\ l.sessions \in Seq(SessionType)
  BY DEF LibSound, LibType
<1>2. session \in SessionType /\ session.candidates \in Seq(CandidateType)
  <2>1. session \in SessionType
    BY <1>1, ElementOfSeq, LenProperties
  <2> QED BY <2>1 DEF SessionType
<1>3. /\ DOMAIN session.candidates = 1..Len(session.candidates) /\ Len(session.candidates) \in Nat
      /\ Len(session.candidates) <= Cardinality(Paths) /\ Cardinality(Paths) \in Nat
  BY <1>1, <1>2, LenProperties, ImportAssumption, FS_CardinalityType DEF SessionSound, Listed
<1>4. ASSUME session.status = "committed", NEW id \in Range(session.skipped)
      PROVE  id \in DOMAIN duplicate_review_summary(l)
  <2>1. PICK i \in Selected(session.candidates) : id # 0 /\ session.candidates[i].duplicate = id
    BY <1>1, <1>4 DEF SessionSound, AddsUp, SkippedAreDuplicates
  <2>2. i \in DOMAIN session.candidates /\ session.candidates[i].selected
    BY <2>1 DEF Selected
  <2>3. i \in 1..Cardinality(Paths)
    <3> DEFINE P == Cardinality(Paths)
    <3> HIDE DEF P
    <3>1. i \in 1..P
      BY <1>3, <2>2 DEF P
    <3> QED BY <3>1 DEF P
  <2> DEFINE at == <<s, i>>
  <2>4. /\ at \in (DOMAIN l.sessions) \X (1..Cardinality(Paths))
        /\ at[1] = s /\ at[2] = i
    BY <2>3
  <2> HIDE DEF at
  <2> QED BY <1>4, <2>1, <2>2, <2>4 DEF duplicate_review_summary
<1> QED BY <1>1, <1>4 DEF SessionSound

\* Nothing is in a vault twice, and every committed session accounts for what it was asked to import.
THEOREM ImportsAlwaysAddUp == ImportSpec => []ImportsAddUp
<1>1. ImportInv => ImportsAddUp
  <2> SUFFICES ASSUME ImportInv PROVE ImportedOnce /\ SessionsAddUp
    BY DEF ImportsAddUp
  <2>1. ImportedOnce
    BY DEF ImportInv, LibSound, ImportedOnce
  <2>2. ASSUME NEW l \in {imports, importRows}, NEW s \in DOMAIN l.sessions
        PROVE  /\ DuplicatesAreThere(l.assets, l.sessions[s])
               /\ l.sessions[s].status = "committed" =>
                    /\ AddsUp(l.assets, l.sessions[s])
                    /\ \A id \in Range(l.sessions[s].skipped) : id \in DOMAIN duplicate_review_summary(l)
    <3>1. LibSound(l, taken)
      BY DEF ImportInv
    <3> QED BY <3>1, SoundAddsUp
  <2>3. ASSUME NEW l \in {imports, importRows}, NEW s \in DOMAIN l.sessions
        PROVE  \A n \in DOMAIN l.sessions[s].candidates :
                  l.sessions[s].candidates[n].duplicate # 0 =>
                     \E a \in l.assets : /\ a.id = l.sessions[s].candidates[n].duplicate
                                         /\ a.vault = l.sessions[s].target
                                         /\ a.hash = l.sessions[s].candidates[n].hash
    BY <2>2 DEF DuplicatesAreThere, Has
  <2>4. ASSUME NEW l \in {imports, importRows}, NEW s \in DOMAIN l.sessions,
               l.sessions[s].status = "committed"
        PROVE  LET session == l.sessions[s]
               IN  /\ \A id \in session.imported :
                          \E a \in l.assets : a.id = id /\ a.vault = session.target
                   /\ Cardinality(session.imported) + Len(session.skipped)
                         + Cardinality(session.failed)
                        = Cardinality({n \in DOMAIN session.candidates :
                                          session.candidates[n].selected})
                   /\ \A id \in Range(session.skipped) :
                          id \in DOMAIN duplicate_review_summary(l)
    <3>1. /\ AddsUp(l.assets, l.sessions[s])
          /\ \A id \in Range(l.sessions[s].skipped) : id \in DOMAIN duplicate_review_summary(l)
      BY <2>2, <2>4
    <3> QED BY <3>1 DEF AddsUp, Named, Selected
  <2>5. SessionsAddUp
    <3> SUFFICES ASSUME NEW l \in {imports, importRows}, NEW s \in DOMAIN l.sessions
                 PROVE
        LET session == l.sessions[s]
            In(id, hash) == \E a \in l.assets : a.id = id /\ a.vault = session.target /\ a.hash = hash
        IN /\ \A n \in DOMAIN session.candidates :
                 LET c == session.candidates[n] IN c.duplicate # 0 => In(c.duplicate, c.hash)
           /\ session.status = "committed" =>
                 /\ \A id \in session.imported : \E a \in l.assets : a.id = id /\ a.vault = session.target
                 /\ Cardinality(session.imported) + Len(session.skipped) + Cardinality(session.failed)
                       = Cardinality({n \in DOMAIN session.candidates : session.candidates[n].selected})
                 /\ \A id \in Range(session.skipped) : id \in DOMAIN duplicate_review_summary(l)
      BY DEF SessionsAddUp
    <3>1. \A n \in DOMAIN l.sessions[s].candidates :
             l.sessions[s].candidates[n].duplicate # 0 =>
                \E a \in l.assets : /\ a.id = l.sessions[s].candidates[n].duplicate
                                    /\ a.vault = l.sessions[s].target
                                    /\ a.hash = l.sessions[s].candidates[n].hash
      BY <2>3
    <3>2. CASE l.sessions[s].status = "committed"
      BY <2>4, <3>1, <3>2
    <3> QED BY <3>1, <3>2
  <2> QED BY <2>1, <2>5
<1> QED BY <1>1, ImportInvariance, PTL

\* A file that was moved, of which the user has no other copy, is in the library as its checksum names it.
THEOREM MovedStaysAsNamed == ImportSpec => []MovedAsNamed
<1>1. ImportInv => MovedAsNamed
  BY DEF ImportInv, Filed, MovedAsNamed
<1> QED BY <1>1, ImportInvariance, PTL
==============================================================================
