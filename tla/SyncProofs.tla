----------------------------- MODULE SyncProofs ------------------------------
(***************************************************************************)
(* Theorems about the exchange of originals with other devices: the receive *)
(* path and the locks of the network (SyncReceive, SyncNetwork), and the    *)
(* two ways an original is stored elsewhere, paired desktops and storage    *)
(* phones (SyncTransfers, PhoneStorage).                                    *)
(***************************************************************************)
EXTENDS SyncReceive, SyncNetwork, SyncTransfers, PhoneStorage, FiniteSetTheorems, SequenceTheorems, TLAPS

-----------------------------------------------------------------------------
(***************************************************************************)
(* Theorems about SyncReceive, for any number of exchanges, chunks, slots   *)
(* and any disk: what is received is readable, is committed only while it   *)
(* may be, and leaves the space the user reserved.  Behind them, theorems   *)
(* about SyncNetwork, the locks an exchange is done under.                  *)
(*                                                                          *)
(* The argument for SyncReceive.  Files are never replaced, only added,     *)
(* except by an eviction: what an exchange published is still its sealing   *)
(* when it commits (Readable).  An exchange claims a chunk file from its    *)
(* reservation on, whether it has staged it or not; claims only become      *)
(* files.  What is neither a file nor claimed never falls below what the    *)
(* user reserved, and a measurement that is not yet compared may be too     *)
(* high by no more than the reservations it will be compared with (Room).   *)
(***************************************************************************)

Exchange ==
    [at : {"idle", "entered", "measured", "reserved", "staging", "publishing", "committing"},
     seal : 0 .. Sealings, nonce : BOOLEAN, next : Nat, staged : SUBSET BlobChunks,
     free : Int, held : BOOLEAN]

\* The type invariant.
ReceiveTypes ==
    /\ rx \in [Exchanges -> Exchange]
    /\ blobRows \in [seal : 0 .. Sealings, nonce : BOOLEAN, local : SUBSET BlobChunks]
    /\ blobFiles \in [BlobChunks -> 0 .. Sealings]
    /\ orphans \in Nat /\ allowed \in BOOLEAN /\ storageOnly \in BOOLEAN

\* How far an exchange has come shows in its stage.
WellStaged(x) ==
    /\ x.at \in {"idle", "entered", "measured"} => x.staged = {} /\ ~x.held
    /\ x.at \in {"entered", "measured", "reserved"} => x.staged = {} /\ x.next = 1
    /\ x.at \in {"reserved", "staging", "publishing", "committing"} => x.held
    /\ x.at # "idle" => x.seal # 0
    /\ x.at = "staging" => x.next <= ChunkCount /\ x.next >= 1 /\ x.staged = 1 .. (x.next - 1)
    /\ x.at = "publishing" => x.next <= ChunkCount /\ x.next >= 1 /\ x.next .. ChunkCount \subseteq x.staged

Stages == \A e \in Exchanges : WellStaged(rx[e])

\* A storage-only device has no nonces; files that are named have a sealing.
RowsAreOwn ==
    /\ storageOnly => ~blobRows.nonce
    /\ blobRows.local # {} => blobRows.seal # 0

\* What an exchange has published of its blob.
PublishedBy(x) ==
    IF x.at = "publishing" THEN 1 .. (x.next - 1)
    ELSE IF x.at = "committing" THEN BlobChunks ELSE {}

\* What is published is what the sealing of its exchange says, to the end.
Readable ==
    "overlap" \notin oddities =>
        /\ \A c \in blobRows.local : blobFiles[c] = blobRows.seal
        /\ \A e \in Exchanges : \A c \in PublishedBy(rx[e]) : blobFiles[c] = rx[e].seal

\* Chunk files an exchange has staged or has reserved space for.
Claims(x) == IF x.at \in {"reserved", "staging"} THEN BlobChunks ELSE x.staged
Claimed == {f \in Exchanges \X BlobChunks : f[2] \in Claims(rx[f[1]])}
Spare == Capacity - orphans - Count(Final) - Count(Claimed)

\* There is room for every claim beside what the user reserved.
Room ==
    "unmeasured" \notin oddities =>
        /\ Spare >= FreeSpace
        /\ \A e \in Exchanges : rx[e].at = "measured" => rx[e].free <= Spare + Held

\* The inductive invariant.
ReceiveInv == ReceiveTypes /\ Stages /\ RowsAreOwn /\ Readable /\ Room

-----------------------------------------------------------------------------
(* Counting. *)

\* Every set that is counted is finite.
LEMMA Counted ==
  ASSUME ReceiveTypes
  PROVE  /\ IsFiniteSet(BlobChunks) /\ Count(BlobChunks) = ChunkCount
         /\ IsFiniteSet(Final) /\ Count(Final) \in Nat
         /\ IsFiniteSet(Exchanges \X BlobChunks)
         /\ IsFiniteSet(Staged) /\ Count(Staged) \in Nat
         /\ IsFiniteSet(Claimed) /\ Count(Claimed) \in Nat
         /\ IsFiniteSet(Holding) /\ Count(Holding) \in Nat
         /\ Held \in Nat /\ Spare \in Int /\ FreeUnits \in Int
<1>1. IsFiniteSet(BlobChunks) /\ Cardinality(BlobChunks) = ChunkCount
  BY ReceiveAssumption, FS_Interval DEF BlobChunks
<1>2. IsFiniteSet(Exchanges \X BlobChunks)
  BY <1>1, ReceiveAssumption, FS_Product
<1>3. Final \in SUBSET BlobChunks /\ Holding \in SUBSET Exchanges
  BY DEF Final, Holding
<1>4. Staged \in SUBSET (Exchanges \X BlobChunks) /\ Claimed \in SUBSET (Exchanges \X BlobChunks)
  BY DEF Staged, Claimed
<1>5. IsFiniteSet(Final) /\ IsFiniteSet(Staged) /\ IsFiniteSet(Claimed) /\ IsFiniteSet(Holding)
  BY <1>1, <1>2, <1>3, <1>4, ReceiveAssumption, FS_Subset
<1>6. Count(Final) \in Nat /\ Count(Staged) \in Nat /\ Count(Claimed) \in Nat /\ Count(Holding) \in Nat
  BY <1>5, FS_CardinalityType DEF Count
<1>7. Held \in Nat /\ Spare \in Int /\ FreeUnits \in Int
  BY <1>6, ReceiveAssumption DEF Held, Spare, FreeUnits, ReceiveTypes
<1> QED
  BY <1>1, <1>2, <1>5, <1>6, <1>7 DEF Count

\* One exchange's claims are as many as its chunks.
LEMMA OneSlice ==
  ASSUME NEW e, NEW C, IsFiniteSet(C)
  PROVE  IsFiniteSet({e} \X C) /\ Cardinality({e} \X C) = Cardinality(C)
<1>1. IsFiniteSet({e}) /\ Cardinality({e}) = 1
  BY FS_Singleton
<1>2. IsFiniteSet({e} \X C) /\ Cardinality({e} \X C) = Cardinality({e}) * Cardinality(C)
  BY <1>1, FS_Product
<1>3. Cardinality(C) \in Nat
  BY FS_CardinalityType
<1> QED
  BY <1>1, <1>2, <1>3

\* A set that loses a part, counted.
LEMMA Apart ==
  ASSUME NEW S, NEW T, IsFiniteSet(S), IsFiniteSet(T), S \cap T = {}
  PROVE  IsFiniteSet(S \cup T) /\ Cardinality(S \cup T) = Cardinality(S) + Cardinality(T)
<1>1. Cardinality(S) \in Nat /\ Cardinality(T) \in Nat /\ Cardinality(S \cap T) = 0
  BY FS_CardinalityType, FS_EmptySet
<1>2. IsFiniteSet(S \cup T)
      /\ Cardinality(S \cup T) = Cardinality(S) + Cardinality(T) - Cardinality(S \cap T)
  BY FS_Union, Zenon
<1> QED
  BY <1>1, <1>2, SMT


\* One exchange e claims the chunk files C now, and no other claims others.
LEMMA ClaimsChange ==
  ASSUME ReceiveTypes, ReceiveTypes', NEW e \in Exchanges,
         \A x \in Exchanges \ {e} : rx'[x] = rx[x]
  PROVE  Count(Claimed') = Count(Claimed) - Count(Claims(rx[e])) + Count(Claims(rx'[e]))
<1> DEFINE Rest == {f \in Claimed : f[1] # e}
<1>1. Claims(rx[e]) \subseteq BlobChunks /\ Claims(rx'[e]) \subseteq BlobChunks
  BY DEF ReceiveTypes, Exchange, Claims
<1>2. Claimed = Rest \cup ({e} \X Claims(rx[e])) /\ Rest \cap ({e} \X Claims(rx[e])) = {}
  BY <1>1 DEF Claimed
<1>3. Claimed' = Rest \cup ({e} \X Claims(rx'[e])) /\ Rest \cap ({e} \X Claims(rx'[e])) = {}
  BY <1>1 DEF Claimed
<1>4. IsFiniteSet(Rest) /\ IsFiniteSet(Claims(rx[e])) /\ IsFiniteSet(Claims(rx'[e]))
  <2>1. Rest \in SUBSET Claimed
    OBVIOUS
  <2> QED
    BY <1>1, <2>1, Counted, FS_Subset
<1>5. Cardinality(Rest) \in Nat /\ Cardinality(Claims(rx[e])) \in Nat /\ Cardinality(Claims(rx'[e])) \in Nat
  BY <1>4, FS_CardinalityType
<1> HIDE DEF Rest
<1>6. Cardinality(Claimed) = Cardinality(Rest) + Cardinality(Claims(rx[e]))
  <2>1. IsFiniteSet({e} \X Claims(rx[e]))
        /\ Cardinality({e} \X Claims(rx[e])) = Cardinality(Claims(rx[e]))
    BY <1>4, OneSlice, Zenon
  <2> QED
    BY <1>2, <1>4, <2>1, Apart, Zenon
<1>7. Cardinality(Claimed') = Cardinality(Rest) + Cardinality(Claims(rx'[e]))
  <2>1. IsFiniteSet({e} \X Claims(rx'[e]))
        /\ Cardinality({e} \X Claims(rx'[e])) = Cardinality(Claims(rx'[e]))
    BY <1>4, OneSlice, Zenon
  <2> QED
    BY <1>3, <1>4, <2>1, Apart, Zenon
<1> QED
  BY <1>5, <1>6, <1>7 DEF Count

\* An exchange takes a reservation, keeps what it has, or gives it back.
LEMMA HoldingChanges ==
  ASSUME ReceiveTypes, ReceiveTypes', NEW e \in Exchanges,
         \A x \in Exchanges \ {e} : rx'[x] = rx[x]
  PROVE  /\ rx'[e].held = rx[e].held => Held' = Held
         /\ rx'[e].held /\ ~rx[e].held => Held' = Held + ChunkCount
         /\ ~rx'[e].held /\ rx[e].held => Held' = Held - ChunkCount
<1>1. IsFiniteSet(Holding) /\ Cardinality(Holding) \in Nat
  BY Counted DEF Count
<1>2. ASSUME rx'[e].held = rx[e].held PROVE Held' = Held
  <2>1. Holding' = Holding
    BY <1>2 DEF Holding
  <2> QED
    BY <2>1 DEF Held
<1>3. ASSUME rx'[e].held, ~rx[e].held PROVE Held' = Held + ChunkCount
  <2>1. Holding' = Holding \cup {e} /\ e \notin Holding
    BY <1>3 DEF Holding
  <2>2. Cardinality(Holding') = Cardinality(Holding) + 1
    BY <1>1, <2>1, FS_AddElement
  <2> QED
    BY <1>1, <2>2, ReceiveAssumption DEF Held, Count
<1>4. ASSUME ~rx'[e].held, rx[e].held PROVE Held' = Held - ChunkCount
  <2>1. Holding' = Holding \ {e} /\ e \in Holding
    BY <1>4 DEF Holding
  <2>2. Cardinality(Holding') = Cardinality(Holding) - 1
    BY <1>1, <2>1, FS_RemoveElement
  <2> QED
    BY <1>1, <2>2, ReceiveAssumption DEF Held, Count
<1> QED
  BY <1>2, <1>3, <1>4

\* A measurement is too high by no more than what is reserved.
LEMMA Measured ==
  ASSUME ReceiveTypes, Stages
  PROVE  FreeUnits <= Spare + Held
<1> DEFINE InHand == Holding \X BlobChunks
<1>1. Claimed \subseteq Staged \cup InHand
  BY DEF Claimed, Staged, Claims, Holding, Stages, WellStaged, ReceiveTypes, Exchange
<1>2. IsFiniteSet(InHand) /\ Cardinality(InHand) = Cardinality(Holding) * ChunkCount
  BY Counted, FS_Product DEF Count
<1>3. IsFiniteSet(Staged) /\ Cardinality(Staged) \in Nat /\ Cardinality(Holding) \in Nat
      /\ IsFiniteSet(Claimed) /\ Cardinality(Claimed) \in Nat
  BY Counted DEF Count
<1> HIDE DEF InHand
<1>4. IsFiniteSet(Staged \cup InHand)
      /\ Cardinality(Staged \cup InHand) = Cardinality(Staged) + Cardinality(InHand) - Cardinality(Staged \cap InHand)
  BY <1>2, <1>3, FS_Union, Zenon
<1>5. Cardinality(Claimed) <= Cardinality(Staged \cup InHand)
  BY <1>1, <1>4, FS_Subset
<1>6. Cardinality(Staged \cap InHand) \in Nat
  BY <1>2, <1>3, FS_Intersection, FS_CardinalityType
<1>7. Cardinality(InHand) \in Nat
  BY <1>2, FS_CardinalityType
<1>8. Cardinality(Claimed) <= Cardinality(Staged) + Held
  <2>1. Cardinality(Holding) * ChunkCount = ChunkCount * Cardinality(Holding)
    BY <1>3, ReceiveAssumption
  <2>2. Held = Cardinality(InHand)
    BY <1>2, <2>1 DEF Held, Count
  <2> QED
    BY <1>3, <1>4, <1>5, <1>6, <1>7, <2>2
<1> QED
  BY <1>3, <1>8, Counted, ReceiveAssumption DEF FreeUnits, Spare, Count, ReceiveTypes


-----------------------------------------------------------------------------
(* Steps. *)

ReceiveStep(e) ==
    \/ \E seal \in 1 .. Sealings, nonce \in BOOLEAN : Enter(e, seal, nonce)
    \/ Measure(e) \/ ReserveSpace(e) \/ OpenStage(e) \/ StageChunk(e)
    \/ PublishChunk(e) \/ Abandon(e) \/ Commit(e)

\* A step of exchange e changes no other exchange.
LEMMA OnlyOne ==
  ASSUME ReceiveTypes, NEW e \in Exchanges, ReceiveStep(e)
  PROVE  \A x \in Exchanges \ {e} : rx'[x] = rx[x]
<1>1. rx \in [Exchanges -> Exchange]
  BY DEF ReceiveTypes
<1> SUFFICES ASSUME NEW x \in Exchanges, x # e PROVE rx'[x] = rx[x]
  OBVIOUS
<1>2. CASE \E seal \in 1 .. Sealings, nonce \in BOOLEAN : Enter(e, seal, nonce)
  BY <1>1, <1>2 DEF Enter
<1>3. CASE Measure(e)
  BY <1>1, <1>3 DEF Measure
<1>4. CASE ReserveSpace(e)
  BY <1>1, <1>4 DEF ReserveSpace
<1>5. CASE OpenStage(e)
  BY <1>1, <1>5 DEF OpenStage
<1>6. CASE StageChunk(e)
  BY <1>1, <1>6 DEF StageChunk
<1>7. CASE PublishChunk(e)
  BY <1>1, <1>7 DEF PublishChunk, Published
<1>8. CASE Abandon(e) \/ Commit(e)
  BY <1>1, <1>8 DEF Abandon, Commit
<1> QED
  BY <1>2, <1>3, <1>4, <1>5, <1>6, <1>7, <1>8 DEF ReceiveStep

\* No exchange, and no claim.
LEMMA NothingUnderWay ==
  /\ NoExchange \in Exchange /\ WellStaged(NoExchange)
  /\ PublishedBy(NoExchange) = {} /\ Claims(NoExchange) = {}
<1>1. 0 \in 0 .. Sealings
  BY ReceiveAssumption
<1> QED
  BY <1>1 DEF NoExchange, Exchange, WellStaged, PublishedBy, Claims

\* A step of exchange e leaves it in one of the stages, with what belongs to it.
LEMMA StageStep ==
  ASSUME ReceiveTypes, Stages, NEW e \in Exchanges, ReceiveStep(e)
  PROVE  rx'[e] \in Exchange /\ WellStaged(rx'[e]) /\ rx' \in [Exchanges -> Exchange]
<1>1. rx \in [Exchanges -> Exchange] /\ rx[e] \in Exchange /\ WellStaged(rx[e])
  BY DEF ReceiveTypes, Stages
<1>2. CASE \E seal \in 1 .. Sealings, nonce \in BOOLEAN : Enter(e, seal, nonce)
  <2>1. PICK seal \in 1 .. Sealings, nonce \in BOOLEAN : Enter(e, seal, nonce)
    BY <1>2
  <2>2. rx' = [rx EXCEPT ![e] = [NoExchange EXCEPT !.at = "entered", !.seal = seal, !.nonce = nonce]]
    BY <2>1 DEF Enter
  <2> QED
    <3> DEFINE r == [NoExchange EXCEPT !.at = "entered", !.seal = seal, !.nonce = nonce]
    <3>1. seal \in 0 .. Sealings /\ seal # 0
      BY ReceiveAssumption
    <3>2. NoExchange \in Exchange /\ NoExchange.next = 1 /\ NoExchange.staged = {} /\ ~NoExchange.held
      BY NothingUnderWay DEF NoExchange
    <3> HIDE DEF NoExchange
    <3>3. r \in Exchange
      BY <3>1, <3>2 DEF Exchange
    <3>4. r.at = "entered" /\ r.seal = seal /\ r.next = 1 /\ r.staged = {} /\ ~r.held
      BY <3>2 DEF Exchange
    <3>5. WellStaged(r)
      BY <3>1, <3>4 DEF WellStaged
    <3> HIDE DEF r
    <3> QED
      BY <1>1, <2>2, <3>3, <3>5 DEF r
<1>3. CASE Measure(e)
  BY <1>1, <1>3, Counted DEF Measure, Exchange, WellStaged
<1>4. CASE ReserveSpace(e)
  BY <1>1, <1>4, NothingUnderWay DEF ReserveSpace, Exchange, WellStaged
<1>5. CASE OpenStage(e)
  <2>1. rx'[e] = [rx[e] EXCEPT !.at = "staging"] /\ rx' = [rx EXCEPT ![e] = rx'[e]]
    BY <1>1, <1>5 DEF OpenStage
  <2>2. rx'[e] \in Exchange
    BY <1>1, <2>1 DEF Exchange
  <2>3. 1 .. 0 = {} /\ ChunkCount >= 1
    BY ReceiveAssumption
  <2>4. WellStaged(rx'[e])
    <3>1. rx[e].at = "reserved"
      BY <1>5 DEF OpenStage
    <3>2. rx[e].staged = {} /\ rx[e].next = 1 /\ rx[e].held /\ rx[e].seal # 0
      BY <1>1, <3>1 DEF WellStaged
    <3>3. /\ rx'[e].at = "staging" /\ rx'[e].staged = {} /\ rx'[e].next = 1
          /\ rx'[e].held = rx[e].held /\ rx'[e].seal # 0
      <4> DEFINE x == rx[e]
      <4>1. x \in Exchange /\ rx'[e] = [x EXCEPT !.at = "staging"]
        BY <1>1, <2>1
      <4> HIDE DEF x
      <4>2. /\ rx'[e].at = "staging" /\ rx'[e].staged = x.staged /\ rx'[e].next = x.next
            /\ rx'[e].held = x.held /\ rx'[e].seal = x.seal
        BY <4>1 DEF Exchange
      <4> QED BY <3>2, <4>2 DEF x
    <3>4. 1 .. (1 - 1) = {}
      BY <2>3
    <3> QED
      BY <2>3, <3>2, <3>3, <3>4 DEF WellStaged
  <2> QED
    BY <1>1, <2>1, <2>2, <2>4
<1>6. CASE StageChunk(e)
  <2>1. rx[e].next \in BlobChunks /\ rx[e].staged = 1 .. (rx[e].next - 1)
    BY <1>1, <1>6 DEF StageChunk, WellStaged, BlobChunks, Exchange
  <2>2. rx[e].staged \cup {rx[e].next} = 1 .. rx[e].next
    BY <2>1, ReceiveAssumption DEF BlobChunks
  <2> DEFINE x == rx[e]
             y == [x EXCEPT !.staged = @ \cup {x.next},
                            !.next = IF @ = ChunkCount THEN 1 ELSE @ + 1,
                            !.at = IF x.next = ChunkCount THEN "publishing" ELSE @]
  <2>3. x \in Exchange /\ WellStaged(x) /\ x.at = "staging"
    BY <1>1, <1>6 DEF StageChunk
  <2>4. rx' = [rx EXCEPT ![e] = y]
    BY <1>1, <1>6 DEF StageChunk, Exchange
  <2>5. x.next \in BlobChunks /\ x.next \in Nat /\ x.staged \cup {x.next} = 1 .. x.next
    BY <2>1, <2>2 DEF BlobChunks
  <2> HIDE DEF x
  <2>6. /\ y \in Exchange /\ y.staged = 1 .. x.next /\ y.held = x.held /\ y.seal = x.seal
        /\ y.next = IF x.next = ChunkCount THEN 1 ELSE x.next + 1
        /\ y.at = IF x.next = ChunkCount THEN "publishing" ELSE "staging"
    <3> DEFINE staged == x.staged \cup {x.next}
               next == IF x.next = ChunkCount THEN 1 ELSE x.next + 1
               at == IF x.next = ChunkCount THEN "publishing" ELSE x.at
    <3>1. staged = 1 .. x.next /\ staged \in SUBSET BlobChunks /\ next \in Nat
          /\ at \in {"staging", "publishing"}
          /\ at = IF x.next = ChunkCount THEN "publishing" ELSE "staging"
      <4>1. x.staged \in SUBSET BlobChunks
        BY <2>3 DEF Exchange
      <4>2. x.staged \cup {x.next} \in SUBSET BlobChunks
        BY <2>5, <4>1
      <4>3. x.at = "staging"
        BY <2>3
      <4> QED BY <2>5, <4>2, <4>3
    <3>2. y = [x EXCEPT !.staged = staged, !.next = next, !.at = at]
      BY <2>3 DEF Exchange
    <3> HIDE DEF y, staged, at
    <3>3. next = IF x.next = ChunkCount THEN 1 ELSE x.next + 1
      OBVIOUS
    <3> HIDE DEF next
    <3>4. /\ y \in Exchange /\ y.staged = staged /\ y.held = x.held /\ y.seal = x.seal
          /\ y.next = next /\ y.at = at
      BY <2>3, <3>1, <3>2 DEF Exchange
    <3> QED BY <3>1, <3>3, <3>4
  <2> HIDE DEF y
  <2>7. x.held /\ x.seal # 0 /\ x.next >= 1 /\ x.next <= ChunkCount /\ ChunkCount \in Nat
    BY <2>3, ReceiveAssumption DEF WellStaged
  <2>8. WellStaged(y)
    <3>1. CASE x.next = ChunkCount
      BY <2>6, <2>7, <3>1 DEF WellStaged
    <3>2. CASE x.next < ChunkCount
      <4>1. y.at = "staging" /\ y.next = x.next + 1 /\ y.next - 1 = x.next
        BY <2>5, <2>6, <2>7, <3>2
      <4> QED BY <2>5, <2>6, <2>7, <3>2, <4>1 DEF WellStaged
    <3> QED BY <2>5, <2>7, <3>1, <3>2
  <2> QED
    BY <1>1, <2>4, <2>6, <2>8
<1>7. CASE PublishChunk(e)
  <2>1. rx'[e] = [rx[e] EXCEPT !.next = @ + 1,
                     !.staged = IF blobFiles[rx[e].next] = 0 THEN @ \ {rx[e].next} ELSE @,
                     !.at = IF rx[e].next = ChunkCount THEN "committing" ELSE @]
        /\ rx' = [rx EXCEPT ![e] = rx'[e]]
    BY <1>1, <1>7 DEF PublishChunk, Published
  <2>2. rx'[e] \in Exchange
    <3> DEFINE staged == IF blobFiles[rx[e].next] = 0 THEN rx[e].staged \ {rx[e].next} ELSE rx[e].staged
               at == IF rx[e].next = ChunkCount THEN "committing" ELSE rx[e].at
    <3>1. staged \in SUBSET BlobChunks /\ rx[e].next + 1 \in Nat
      BY <1>1 DEF Exchange
    <3>2. at \in {"publishing", "committing"}
      BY <1>7 DEF PublishChunk
    <3>3. rx'[e] = [rx[e] EXCEPT !.next = rx[e].next + 1, !.staged = staged, !.at = at]
      BY <2>1
    <3> HIDE DEF staged, at
    <3> QED
      BY <1>1, <3>1, <3>2, <3>3 DEF Exchange
  <2>3. /\ rx'[e].seal = rx[e].seal /\ rx'[e].held = rx[e].held /\ rx'[e].next = rx[e].next + 1
        /\ rx[e].staged \ {rx[e].next} \subseteq rx'[e].staged
        /\ rx'[e].at = IF rx[e].next = ChunkCount THEN "committing" ELSE "publishing"
    BY <1>1, <1>7, <2>1 DEF PublishChunk, Exchange
  <2>4. rx[e].next \in Nat /\ rx[e].next >= 1 /\ rx[e].next <= ChunkCount
        /\ rx[e].next .. ChunkCount \subseteq rx[e].staged /\ rx[e].held /\ rx[e].seal # 0
    BY <1>1, <1>7 DEF PublishChunk, WellStaged, Exchange
  <2>5. (rx[e].next + 1) .. ChunkCount \subseteq rx'[e].staged
    BY <2>3, <2>4, ReceiveAssumption
  <2>6. WellStaged(rx'[e])
    BY <2>3, <2>4, <2>5, ReceiveAssumption DEF WellStaged
  <2> QED
    BY <1>1, <2>1, <2>2, <2>6
<1>8. CASE Abandon(e)
  BY <1>1, <1>8, NothingUnderWay DEF Abandon
<1>9. CASE Commit(e)
  BY <1>1, <1>9, NothingUnderWay DEF Commit
<1> QED
  BY <1>2, <1>3, <1>4, <1>5, <1>6, <1>7, <1>8, <1>9 DEF ReceiveStep


\* Types, stages and rows after any step.
LEMMA TypesStep ==
  ASSUME ReceiveTypes, Stages, RowsAreOwn, ReceiveNext
  PROVE  ReceiveTypes' /\ Stages' /\ RowsAreOwn'
<1>1. CASE \E e \in Exchanges : ReceiveStep(e)
  <2>1. PICK e \in Exchanges : ReceiveStep(e)
    BY <1>1
  <2>2. rx' \in [Exchanges -> Exchange] /\ Stages'
    BY <2>1, OnlyOne, StageStep DEF Stages
  <2>3. blobFiles' \in [BlobChunks -> 0 .. Sealings]
    <3>1. CASE PublishChunk(e)
      <4>1. rx[e].seal \in 0 .. Sealings
        BY DEF ReceiveTypes, Exchange
      <4> QED
        BY <3>1, <4>1 DEF PublishChunk, ReceiveTypes
    <3>2. CASE ~PublishChunk(e)
      BY <2>1, <3>2 DEF ReceiveStep, ReceiveTypes, Enter, Measure, ReserveSpace, OpenStage, StageChunk,
         Abandon, Commit
    <3> QED
      BY <3>1, <3>2
  <2>4. /\ blobRows' \in [seal : 0 .. Sealings, nonce : BOOLEAN, local : SUBSET BlobChunks]
        /\ RowsAreOwn'
    <3>1. CASE Commit(e)
      <4>1. rx[e].seal \in 0 .. Sealings /\ rx[e].seal # 0 /\ rx[e].nonce \in BOOLEAN
        BY <3>1 DEF ReceiveTypes, Exchange, Stages, WellStaged, Commit
      <4>2. Merged(rx[e].nonce) \in BOOLEAN /\ (storageOnly => ~Merged(rx[e].nonce))
        BY DEF Merged
      <4>3. blobRows' \in {blobRows, Received(e)} /\ storageOnly' = storageOnly
        BY <3>1 DEF Commit
      <4>4. Received(e) \in [seal : 0 .. Sealings, nonce : BOOLEAN, local : SUBSET BlobChunks]
        BY <4>1, <4>2 DEF Received
      <4>5. Received(e).nonce = Merged(rx[e].nonce) /\ Received(e).seal = rx[e].seal
        BY DEF Received
      <4> QED
        BY <4>1, <4>2, <4>3, <4>4, <4>5 DEF ReceiveTypes, RowsAreOwn
    <3>2. CASE ~Commit(e)
      <4>1. blobRows' = blobRows /\ storageOnly' = storageOnly
        BY <2>1, <3>2 DEF ReceiveStep, Enter, Measure, ReserveSpace, OpenStage, StageChunk,
           PublishChunk, Abandon
      <4> QED
        BY <4>1 DEF ReceiveTypes, RowsAreOwn
    <3> QED
      BY <3>1, <3>2
  <2>5. orphans' \in Nat
    <3>1. orphans' \in {0, orphans}
      BY <2>1 DEF ReceiveStep, Enter, Measure, ReserveSpace, OpenStage, StageChunk,
         PublishChunk, Abandon, Commit, cleanup_stale_incoming
    <3> QED
      BY <3>1 DEF ReceiveTypes
  <2>6. allowed' = allowed /\ storageOnly' = storageOnly
    BY <2>1 DEF ReceiveStep, Enter, Measure, ReserveSpace, OpenStage, StageChunk,
         PublishChunk, Abandon, Commit
  <2> QED
    BY <2>2, <2>3, <2>4, <2>5, <2>6 DEF ReceiveTypes
<1>2. CASE Revoke
  BY <1>2 DEF Revoke, ReceiveTypes, Stages, RowsAreOwn
<1>3. CASE EvictBlob
  <2>1. 0 \in 0 .. Sealings
    BY ReceiveAssumption
  <2>2. blobFiles' \in [BlobChunks -> 0 .. Sealings]
    BY <1>3, <2>1 DEF EvictBlob
  <2> QED
    BY <1>3, <2>2 DEF EvictBlob, ReceiveTypes, Stages, RowsAreOwn
<1>4. CASE KillReceiver
  <2>1. orphans' \in Nat
    BY <1>4, Counted DEF KillReceiver, ReceiveTypes
  <2>2. \A e \in Exchanges : rx'[e] = NoExchange
    BY <1>4 DEF KillReceiver
  <2> QED
    BY <1>4, <2>1, <2>2, NothingUnderWay DEF KillReceiver, ReceiveTypes, Stages, RowsAreOwn
<1> QED
  BY <1>1, <1>2, <1>3, <1>4 DEF ReceiveNext, ReceiveStep

\* Files and rows agree after any step.
LEMMA ReadableStep ==
  ASSUME ReceiveTypes, Stages, RowsAreOwn, Readable, ReceiveNext
  PROVE  Readable'
<1> SUFFICES ASSUME "overlap" \notin oddities'
             PROVE  /\ \A c \in blobRows'.local : blobFiles'[c] = blobRows'.seal
                    /\ \A e \in Exchanges : \A c \in PublishedBy(rx'[e]) : blobFiles'[c] = rx'[e].seal
  BY DEF Readable
<1>1. CASE \E e \in Exchanges : ReceiveStep(e)
  <2>1. PICK e \in Exchanges : ReceiveStep(e)
    BY <1>1
  <2>2. "overlap" \notin oddities
    BY <2>1 DEF ReceiveStep, Enter, Measure, ReserveSpace, OpenStage, StageChunk,
         PublishChunk, Abandon, Commit
  <2>3. /\ \A c \in blobRows.local : blobFiles[c] = blobRows.seal
        /\ \A x \in Exchanges : \A c \in PublishedBy(rx[x]) : blobFiles[c] = rx[x].seal
    BY <2>2 DEF Readable
  <2>4. \A x \in Exchanges \ {e} : rx'[x] = rx[x]
    BY <2>1, OnlyOne
  <2>5. rx[e] \in Exchange /\ WellStaged(rx[e])
    BY DEF ReceiveTypes, Stages
  <2>6. \A x \in Exchanges : PublishedBy(rx[x]) \subseteq BlobChunks /\
                             (PublishedBy(rx[x]) # {} => rx[x].seal # 0)
    BY ReceiveAssumption DEF ReceiveTypes, Exchange, Stages, WellStaged, PublishedBy, BlobChunks
  <2>7. CASE PublishChunk(e)
    <3>1. /\ rx[e].at = "publishing" /\ rx[e].next \in BlobChunks /\ rx[e].seal # 0
      BY <2>5, <2>7 DEF PublishChunk, WellStaged, Exchange, BlobChunks
    <3>2. blobFiles[rx[e].next] \in {0, rx[e].seal}
          /\ blobFiles' = [blobFiles EXCEPT ![rx[e].next] = rx[e].seal] /\ blobRows' = blobRows
      BY <2>7 DEF PublishChunk
    <3>3. \A c \in BlobChunks : blobFiles[c] # 0 => blobFiles'[c] = blobFiles[c]
      BY <3>1, <3>2 DEF ReceiveTypes
    <3>4. \A c \in blobRows'.local : blobFiles'[c] = blobRows'.seal
      BY <2>3, <3>2, <3>3 DEF ReceiveTypes, RowsAreOwn
    <3>5. \A x \in Exchanges : \A c \in PublishedBy(rx[x]) : blobFiles'[c] = rx[x].seal
      BY <2>3, <2>6, <3>3
    <3>6. blobFiles'[rx[e].next] = rx[e].seal
      BY <3>1, <3>2 DEF ReceiveTypes
    <3>7. rx'[e].seal = rx[e].seal /\ rx'[e].next = rx[e].next + 1
          /\ rx'[e].at = IF rx[e].next = ChunkCount THEN "committing" ELSE "publishing"
      BY <2>7, <3>1 DEF PublishChunk, Published, ReceiveTypes, Exchange
    <3>8. PublishedBy(rx'[e]) \subseteq PublishedBy(rx[e]) \cup {rx[e].next}
      BY <3>1, <3>7, ReceiveAssumption DEF PublishedBy, BlobChunks
    <3> QED
      BY <2>4, <3>4, <3>5, <3>6, <3>7, <3>8
  <2>8. CASE Commit(e)
    <3>1. rx'[e] = NoExchange /\ blobFiles' = blobFiles /\ blobRows' \in {blobRows, Received(e)}
      BY <2>8 DEF Commit, ReceiveTypes
    <3>2. PublishedBy(rx[e]) = BlobChunks
      BY <2>8 DEF Commit, PublishedBy
    <3>3. Received(e).local = BlobChunks /\ Received(e).seal = rx[e].seal
      BY DEF Received
    <3>4. \A c \in blobRows'.local : blobFiles'[c] = blobRows'.seal
      BY <2>3, <3>1, <3>2, <3>3
    <3> QED
      BY <2>3, <2>4, <3>1, <3>4, NothingUnderWay
  <2>9. CASE ~PublishChunk(e) /\ ~Commit(e)
    <3>1. blobFiles' = blobFiles /\ blobRows' = blobRows
      BY <2>1, <2>9 DEF ReceiveStep, Enter, Measure, ReserveSpace, OpenStage, StageChunk, Abandon
    <3>2. PublishedBy(rx'[e]) = {}
      <4>1. CASE \E seal \in 1 .. Sealings, nonce \in BOOLEAN : Enter(e, seal, nonce)
        <5>1. rx'[e].at = "entered"
          BY <4>1 DEF Enter, ReceiveTypes, NoExchange
        <5> QED
          BY <5>1 DEF PublishedBy
      <4>2. CASE Measure(e) \/ OpenStage(e)
        <5>1. rx'[e].at \in {"measured", "staging"}
          BY <2>5, <4>2 DEF Measure, OpenStage, ReceiveTypes, Exchange
        <5> QED
          BY <5>1 DEF PublishedBy
      <4>3. CASE ReserveSpace(e)
        <5>1. rx'[e].at = "reserved" \/ rx'[e] = NoExchange
          BY <2>5, <4>3 DEF ReserveSpace, ReceiveTypes, Exchange
        <5> QED
          BY <5>1, NothingUnderWay DEF PublishedBy
      <4>4. CASE StageChunk(e)
        <5>1. rx'[e].at = "staging" \/ (rx'[e].at = "publishing" /\ rx'[e].next = 1)
          BY <2>5, <4>4 DEF StageChunk, ReceiveTypes, Exchange
        <5>2. 1 .. (1 - 1) = {}
          OBVIOUS
        <5> QED
          BY <5>1, <5>2 DEF PublishedBy
      <4>5. CASE Abandon(e)
        BY <4>5, NothingUnderWay DEF Abandon, ReceiveTypes
      <4> QED
        BY <2>1, <2>9, <4>1, <4>2, <4>3, <4>4, <4>5 DEF ReceiveStep
    <3> QED
      BY <2>3, <2>4, <3>1, <3>2
  <2> QED
    BY <2>7, <2>8, <2>9
<1>2. CASE Revoke
  BY <1>2 DEF Revoke, Readable
<1>3. CASE EvictBlob
  <2>1. \A e \in Exchanges : rx[e].at \notin {"publishing", "committing"}
    BY <1>3 DEF EvictBlob
  <2>2. blobRows'.local = {} /\ rx' = rx
    BY <1>3 DEF EvictBlob, ReceiveTypes
  <2> QED
    BY <2>1, <2>2 DEF PublishedBy
<1>4. CASE KillReceiver
  <2>1. \A e \in Exchanges : rx'[e] = NoExchange
    BY <1>4 DEF KillReceiver
  <2> QED
    BY <1>4, <2>1, NothingUnderWay DEF KillReceiver, Readable
<1> QED
  BY <1>1, <1>2, <1>3, <1>4 DEF ReceiveNext, ReceiveStep


\* The sets that are counted, after a step of exchange e that has these facts.
LEMMA SameSpace ==
  ASSUME ReceiveTypes, ReceiveTypes', NEW e \in Exchanges,
         \A x \in Exchanges \ {e} : rx'[x] = rx[x],
         blobFiles' = blobFiles, orphans' <= orphans
  PROVE  /\ Count(Claims(rx[e])) \in Nat /\ Count(Claims(rx'[e])) \in Nat
         /\ Spare \in Int /\ Spare' \in Int /\ Held \in Nat /\ Held' \in Nat
         /\ Spare' >= Spare + Count(Claims(rx[e])) - Count(Claims(rx'[e]))
<1>1. Claims(rx[e]) \in SUBSET BlobChunks /\ Claims(rx'[e]) \in SUBSET BlobChunks
  BY DEF ReceiveTypes, Exchange, Claims
<1>2. Count(Claims(rx[e])) \in Nat /\ Count(Claims(rx'[e])) \in Nat
  BY <1>1, Counted, FS_Subset, FS_CardinalityType DEF Count
<1>3. Final' = Final
  BY DEF Final
<1>4. Count(Claimed') = Count(Claimed) - Count(Claims(rx[e])) + Count(Claims(rx'[e]))
  BY ClaimsChange
<1>5. /\ Count(Claimed) \in Nat /\ Count(Final) \in Nat /\ Held \in Nat /\ Held' \in Nat
      /\ orphans \in Nat /\ orphans' \in Nat /\ Capacity \in Nat /\ Count(Claimed') \in Nat
  <2>1. Count(Claimed) \in Nat /\ Count(Final) \in Nat /\ Held \in Nat
    BY Counted
  <2>2. (ReceiveTypes => Held \in Nat /\ Count(Claimed) \in Nat)'
    BY Counted, PTL
  <2>3. Count(Claimed)' = Count(Claimed')
    BY DEF Count
  <2> QED
    BY <2>1, <2>2, <2>3, ReceiveAssumption DEF ReceiveTypes
<1>6. Spare = Capacity - orphans - Count(Final) - Count(Claimed)
      /\ Spare' = Capacity - orphans' - Count(Final) - Count(Claimed')
  BY <1>3 DEF Spare, Count
<1> QED
  BY <1>2, <1>4, <1>5, <1>6

\* An exchange keeps its claims.
LEMMA SameClaims ==
  ASSUME ReceiveTypes, ReceiveTypes', NEW e \in Exchanges,
         \A x \in Exchanges \ {e} : rx'[x] = rx[x],
         blobFiles' = blobFiles, orphans' <= orphans, Claims(rx'[e]) = Claims(rx[e])
  PROVE  Spare' >= Spare
<1>1. \A s, t, n \in Int : t >= s + n - n => t >= s
  BY SMT
<1>2. Spare' >= Spare + Count(Claims(rx[e])) - Count(Claims(rx[e]))
  BY SameSpace, Zenon
<1>3. Spare \in Int /\ Spare' \in Int /\ Count(Claims(rx[e])) \in Int
  BY SameSpace
<1> QED
  BY <1>1, <1>2, <1>3, Zenon

\* An exchange claims all of its blob.
LEMMA AllClaimed ==
  ASSUME ReceiveTypes, ReceiveTypes', NEW e \in Exchanges,
         \A x \in Exchanges \ {e} : rx'[x] = rx[x],
         blobFiles' = blobFiles, orphans' <= orphans,
         Claims(rx[e]) = {}, Claims(rx'[e]) = BlobChunks
  PROVE  Spare' >= Spare - ChunkCount
<1>1. \A s, t, c \in Int : t >= s + 0 - c => t >= s - c
  BY SMT
<1>2. Count({}) = 0 /\ Count(BlobChunks) = ChunkCount
  BY Counted, FS_EmptySet DEF Count
<1>3. Spare' >= Spare + 0 - ChunkCount
  BY <1>2, SameSpace, Zenon
<1>4. Spare \in Int /\ Spare' \in Int /\ ChunkCount \in Int
  BY SameSpace, ReceiveAssumption
<1> QED
  BY <1>1, <1>3, <1>4, Zenon

\* An exchange gives its claims and its reservation back.
LEMMA GivenBack ==
  ASSUME ReceiveTypes, ReceiveTypes', NEW e \in Exchanges,
         \A x \in Exchanges \ {e} : rx'[x] = rx[x], rx'[e] = NoExchange,
         blobFiles' = blobFiles, orphans' = orphans
  PROVE  /\ Spare' >= Spare
         /\ Claims(rx[e]) = BlobChunks => Spare' >= Spare + ChunkCount
         /\ Held' = IF rx[e].held THEN Held - ChunkCount ELSE Held
<1>1. Claims(rx'[e]) = {} /\ rx'[e].held = FALSE
  BY NothingUnderWay DEF NoExchange
<1>2. Count({}) = 0 /\ Count(BlobChunks) = ChunkCount
  BY Counted, FS_EmptySet DEF Count
<1>3. orphans' <= orphans
  BY DEF ReceiveTypes
<1>4. rx[e].held \in BOOLEAN
  BY DEF ReceiveTypes, Exchange
<1>5. Held' = IF rx[e].held THEN Held - ChunkCount ELSE Held
  <2>1. CASE rx[e].held
    <3>1. rx'[e].held = FALSE
      BY <1>1
    <3>2. Held' = Held - ChunkCount
      BY <2>1, <3>1, HoldingChanges
    <3> QED
      BY <2>1, <3>2
  <2>2. CASE ~rx[e].held
    <3>1. rx'[e].held = rx[e].held
      BY <1>1, <1>4, <2>2
    <3>2. Held' = Held
      BY <3>1, HoldingChanges
    <3> QED
      BY <2>2, <3>2
  <2> QED
    BY <2>1, <2>2
<1>6. Spare' >= Spare + Count(Claims(rx[e])) - 0
  BY <1>1, <1>2, <1>3, SameSpace, Zenon
<1>7. Spare \in Int /\ Spare' \in Int /\ Count(Claims(rx[e])) \in Nat
  BY <1>3, SameSpace
<1>8. \A s, t \in Int, n \in Nat : t >= s + n - 0 => t >= s /\ t >= s + n
  BY SMT
<1>9. Spare' >= Spare /\ Spare' >= Spare + Count(Claims(rx[e]))
  BY <1>6, <1>7, <1>8, Zenon
<1> QED
  BY <1>2, <1>5, <1>9

\* A staged file becomes a file under its name, or stays until the commit.
LEMMA PublishKeepsSpace ==
  ASSUME ReceiveTypes, ReceiveTypes', Stages, NEW e \in Exchanges, PublishChunk(e)
  PROVE  Spare' >= Spare /\ Held' = Held /\ rx'[e].at # "measured"
<1>1. /\ rx \in [Exchanges -> Exchange] /\ rx[e] \in Exchange /\ WellStaged(rx[e])
      /\ blobFiles \in [BlobChunks -> 0 .. Sealings]
  BY DEF ReceiveTypes, Stages
<1>2. rx[e].at = "publishing" /\ rx[e].next \in BlobChunks /\ rx[e].next \in rx[e].staged /\ rx[e].seal # 0
  BY <1>1 DEF PublishChunk, WellStaged, Exchange, BlobChunks
<1>3. /\ rx'[e].at \in {"publishing", "committing"} /\ rx'[e].held = rx[e].held
      /\ rx'[e].staged = IF blobFiles[rx[e].next] = 0 THEN rx[e].staged \ {rx[e].next} ELSE rx[e].staged
      /\ \A x \in Exchanges \ {e} : rx'[x] = rx[x]
  BY <1>1, <1>2 DEF PublishChunk, Published, Exchange
<1>4. blobFiles' = [blobFiles EXCEPT ![rx[e].next] = rx[e].seal] /\ orphans' = orphans
  BY DEF PublishChunk
<1>5. Held' = Held
  BY <1>3, HoldingChanges
<1>6. Claims(rx[e]) = rx[e].staged /\ Claims(rx'[e]) = rx'[e].staged
  BY <1>2, <1>3 DEF Claims
<1>7. Count(Claimed') = Count(Claimed) - Count(rx[e].staged) + Count(rx'[e].staged)
  BY <1>3, <1>6, ClaimsChange
<1>8. IsFiniteSet(rx[e].staged) /\ Count(rx[e].staged) \in Nat
  <2>1. rx[e].staged \in SUBSET BlobChunks
    BY <1>1 DEF Exchange
  <2> QED
    BY <2>1, Counted, FS_Subset, FS_CardinalityType DEF Count
<1>9. IsFiniteSet(Final) /\ Count(Final) \in Nat /\ Count(Claimed) \in Nat /\ orphans \in Nat /\ Capacity \in Nat
  BY Counted, ReceiveAssumption DEF ReceiveTypes
<1>10. Final' = Final \cup {rx[e].next}
  BY <1>1, <1>2, <1>4 DEF Final
<1>11. Spare' = Capacity - orphans - Count(Final') - Count(Claimed')
  BY <1>4 DEF Spare, Count
<1>12. CASE blobFiles[rx[e].next] = 0
  <2>1. rx[e].next \notin Final
    BY <1>12 DEF Final
  <2>2. Count(Final') = Count(Final) + 1
    BY <1>9, <1>10, <2>1, FS_AddElement DEF Count
  <2>3. Count(rx'[e].staged) = Count(rx[e].staged) - 1
    <3>1. rx'[e].staged = rx[e].staged \ {rx[e].next}
      BY <1>3, <1>12
    <3>2. Cardinality(rx[e].staged \ {rx[e].next}) = Cardinality(rx[e].staged) - 1
      BY <1>2, <1>8, FS_RemoveElement
    <3> QED
      BY <3>1, <3>2 DEF Count
  <2> QED
    BY <1>3, <1>5, <1>7, <1>8, <1>9, <1>11, <2>2, <2>3 DEF Spare
<1>13. CASE blobFiles[rx[e].next] # 0
  <2>1. Final' = Final
    BY <1>2, <1>10, <1>13 DEF Final
  <2>2. Count(Claimed') = Count(Claimed)
    BY <1>3, <1>7, <1>8, <1>9, <1>13
  <2> QED
    BY <1>3, <1>5, <1>9, <1>11, <2>1, <2>2 DEF Spare
<1> QED
  BY <1>12, <1>13

\* The sums that RoomStep comes down to: space s and reservations h become t
\* and k, f is a measurement, c the chunks of a blob, r the user's reserve.
LEMMA SumKept == \A s, t, h, k \in Int : t >= s /\ k = h => t + k >= s + h
  BY SMT

\* Space becomes a reservation.
LEMMA SumMoved == \A s, t, h, k, c \in Int : t >= s - c /\ k = h + c => t + k >= s + h
  BY SMT

\* A reservation becomes space.
LEMMA SumBack == \A s, t, h, k, c \in Int : t >= s + c /\ k = h - c => t + k >= s + h
  BY SMT

\* A measurement bounded by one sum is bounded by a greater one.
LEMMA SumBounds == \A f, s, t, h, k \in Int : f <= s + h /\ t + k >= s + h => f <= t + k
  BY SMT

\* The reserve is left if there is no less space.
LEMMA ReserveLeft == \A s, t, r \in Int : t >= s /\ s >= r => t >= r
  BY SMT

\* The comparison of reserve_receive_capacity leaves the reserve.
LEMMA ReserveCompared ==
  \A f, s, t, h, c, r \in Int : f >= c + r + h /\ f <= s + h /\ t >= s - c => t >= r
  BY SMT

\* The room that is left after any step.
LEMMA RoomStep ==
  ASSUME ReceiveTypes, Stages, ReceiveTypes', Room, ReceiveNext
  PROVE  Room'
<1> SUFFICES ASSUME "unmeasured" \notin oddities'
             PROVE  /\ Spare' >= FreeSpace
                    /\ \A x \in Exchanges : rx'[x].at = "measured" => rx'[x].free <= Spare' + Held'
  BY DEF Room
<1>1. Spare \in Int /\ Held \in Int /\ FreeSpace \in Int /\ ChunkCount \in Int
  BY Counted, ReceiveAssumption
<1>9. \A x \in Exchanges : rx[x].free \in Int /\ rx'[x].free \in Int
  BY DEF ReceiveTypes, Exchange
<1>2. Spare' \in Int /\ Held' \in Int
  <2>1. (ReceiveTypes => Spare \in Int /\ Held \in Nat)'
    BY Counted, PTL
  <2> QED
    BY <2>1
<1>3. "unmeasured" \notin oddities
  BY DEF ReceiveNext, Enter, Measure, ReserveSpace, OpenStage, StageChunk, PublishChunk, Abandon,
     Commit, Revoke, EvictBlob, KillReceiver
<1>4. Spare >= FreeSpace
  BY <1>3 DEF Room
<1>10. \A x \in Exchanges : rx[x].at = "measured" => rx[x].free <= Spare + Held
  BY <1>3 DEF Room
<1>5. ASSUME NEW e \in Exchanges, ReceiveStep(e)
      PROVE  /\ Spare' >= FreeSpace
             /\ \A x \in Exchanges : rx'[x].at = "measured" => rx'[x].free <= Spare' + Held'
  <2>1. \A x \in Exchanges \ {e} : rx'[x] = rx[x]
    BY <1>5, OnlyOne
  <2>2. rx[e] \in Exchange /\ WellStaged(rx[e]) /\ rx \in [Exchanges -> Exchange]
    BY DEF ReceiveTypes, Stages
  <2>3. ASSUME Spare' >= FreeSpace, Spare' + Held' >= Spare + Held, rx'[e].at # "measured"
        PROVE  \A x \in Exchanges : rx'[x].at = "measured" => rx'[x].free <= Spare' + Held'
    <3>1. ASSUME NEW x \in Exchanges, rx'[x].at = "measured"
          PROVE  rx'[x].free <= Spare + Held
      BY <1>10, <2>1, <2>3, <3>1
    <3> QED
      BY <1>1, <1>2, <1>9, <2>3, <3>1, SumBounds, Zenon
  <2>11. ASSUME Spare' >= Spare, Held' = Held, rx'[e].at # "measured"
         PROVE  /\ Spare' >= FreeSpace
                /\ \A x \in Exchanges : rx'[x].at = "measured" => rx'[x].free <= Spare' + Held'
    <3>1. Spare' >= FreeSpace
      BY <1>1, <1>2, <1>4, <2>11, ReserveLeft, Zenon
    <3>2. Spare' + Held' >= Spare + Held
      BY <1>1, <1>2, <2>11, SumKept, Zenon
    <3> QED
      BY <2>3, <2>11, <3>1, <3>2
  <2>4. CASE \E seal \in 1 .. Sealings, nonce \in BOOLEAN : Enter(e, seal, nonce)
    <3>1. /\ rx[e].staged = {} /\ rx[e].held = FALSE /\ rx[e].at = "idle"
      BY <2>2, <2>4 DEF Enter, WellStaged, Exchange
    <3>2. rx'[e].at = "entered" /\ rx'[e].held = FALSE /\ rx'[e].staged = {}
          /\ blobFiles' = blobFiles /\ orphans' = orphans
      BY <2>2, <2>4 DEF Enter, NoExchange
    <3>3. Claims(rx'[e]) = {} /\ Claims(rx[e]) = {}
      BY <3>1, <3>2 DEF Claims
    <3>4. Count({}) = 0 /\ orphans' <= orphans
      BY <3>2, FS_EmptySet DEF Count, ReceiveTypes
    <3>5. Spare' >= Spare
      BY <2>1, <3>2, <3>3, <3>4, SameClaims
    <3>6. Held' = Held /\ rx'[e].at # "measured"
      BY <2>1, <3>1, <3>2, HoldingChanges
    <3> QED
      BY <2>11, <3>5, <3>6
  <2>5. CASE Measure(e)
    <3>1. rx[e].at = "entered" /\ rx[e].staged = {} /\ rx'[e].staged = rx[e].staged
          /\ rx'[e].held = rx[e].held /\ rx'[e].at = "measured" /\ rx'[e].free = FreeUnits
          /\ blobFiles' = blobFiles /\ orphans' = orphans
      BY <2>2, <2>5 DEF Measure, WellStaged, Exchange
    <3>2. Claims(rx'[e]) = {} /\ Claims(rx[e]) = {}
      BY <3>1 DEF Claims
    <3>3. Count({}) = 0 /\ orphans' <= orphans
      BY <3>1, FS_EmptySet DEF Count, ReceiveTypes
    <3>4. Spare' >= Spare
      BY <2>1, <3>1, <3>2, <3>3, SameClaims
    <3>5. Held' = Held
      BY <2>1, <3>1, HoldingChanges
    <3>6. FreeUnits <= Spare + Held /\ FreeUnits \in Int
      BY Measured, Counted
    <3>7. Spare' >= FreeSpace
      BY <1>1, <1>2, <1>4, <3>4, ReserveLeft, Zenon
    <3>8. Spare' + Held' >= Spare + Held
      BY <1>1, <1>2, <3>4, <3>5, SumKept, Zenon
    <3>9. FreeUnits <= Spare' + Held'
      BY <1>1, <1>2, <3>6, <3>8, SumBounds, Zenon
    <3>10. ASSUME NEW x \in Exchanges, x # e, rx'[x].at = "measured"
           PROVE  rx'[x].free <= Spare' + Held'
      <4>1. rx'[x].free <= Spare + Held
        BY <1>10, <2>1, <3>10
      <4> QED
        BY <1>1, <1>2, <1>9, <3>8, <4>1, SumBounds, Zenon
    <3> QED
      BY <3>1, <3>7, <3>9, <3>10
  <2>6. CASE ReserveSpace(e)
    <3>1. /\ rx[e].at = "measured" /\ rx[e].staged = {} /\ rx[e].held = FALSE
          /\ blobFiles' = blobFiles /\ orphans' = orphans /\ orphans' <= orphans
          /\ rx[e].free \in Int
      BY <2>2, <2>6 DEF ReserveSpace, WellStaged, Exchange, ReceiveTypes
    <3>2. Claims(rx[e]) = {} /\ Count({}) = 0
      BY <3>1, FS_EmptySet DEF Claims, Count
    <3>3. CASE rx[e].free >= ChunkCount + FreeSpace + Held
      <4>1. rx'[e].at = "reserved" /\ rx'[e].held = TRUE
        BY <2>2, <2>6, <3>3 DEF ReserveSpace, Exchange
      <4>2. Claims(rx'[e]) = BlobChunks /\ Count(BlobChunks) = ChunkCount
        BY <4>1, Counted DEF Claims
      <4>3. Spare' >= Spare - ChunkCount
        BY <2>1, <3>1, <3>2, <4>2, AllClaimed
      <4>4. Held' = Held + ChunkCount
        BY <2>1, <3>1, <4>1, HoldingChanges
      <4>5. rx[e].free <= Spare + Held
        BY <1>10, <3>1
      <4>6. Spare' >= FreeSpace
        BY <1>1, <1>2, <3>1, <3>3, <4>3, <4>5, ReserveCompared, Zenon
      <4>7. Spare' + Held' >= Spare + Held
        BY <1>1, <1>2, <4>3, <4>4, SumMoved, Zenon
      <4>8. rx'[e].at # "measured"
        BY <4>1
      <4> QED
        BY <2>3, <4>6, <4>7, <4>8
    <3>4. CASE ~(rx[e].free >= ChunkCount + FreeSpace + Held)
      <4>1. rx'[e] = NoExchange
        BY <2>2, <2>6, <3>4 DEF ReserveSpace
      <4>2. Spare' >= Spare /\ Held' = Held
        BY <2>1, <3>1, <4>1, GivenBack
      <4>3. rx'[e].at # "measured"
        BY <4>1 DEF NoExchange
      <4> QED
        BY <2>11, <4>2, <4>3
    <3> QED
      BY <3>3, <3>4
  <2>7. CASE OpenStage(e) \/ StageChunk(e)
    <3>1. /\ rx[e].at \in {"reserved", "staging"} /\ blobFiles' = blobFiles
          /\ rx'[e].held = rx[e].held
          /\ rx'[e].at = "staging" \/ (rx'[e].at = "publishing" /\ rx'[e].staged = BlobChunks)
      <4>1. CASE OpenStage(e)
        <5>1. rx'[e] = [rx[e] EXCEPT !.at = "staging"]
          BY <2>2, <4>1 DEF OpenStage
        <5>2. rx'[e].at = "staging" /\ rx'[e].held = rx[e].held
          BY <2>2, <5>1 DEF Exchange
        <5> QED
          BY <4>1, <5>2 DEF OpenStage
      <4>2. CASE StageChunk(e)
        <5>1. rx[e].staged = 1 .. (rx[e].next - 1) /\ rx[e].next \in Nat
              /\ rx[e].next >= 1 /\ rx[e].next <= ChunkCount
          BY <2>2, <4>2 DEF StageChunk, WellStaged, Exchange
        <5>2. rx[e].staged \cup {rx[e].next} = 1 .. rx[e].next
          BY <5>1
        <5>3. /\ rx'[e].staged = rx[e].staged \cup {rx[e].next} /\ rx'[e].held = rx[e].held
              /\ rx'[e].at = IF rx[e].next = ChunkCount THEN "publishing" ELSE "staging"
          BY <2>2, <4>2 DEF StageChunk, Exchange
        <5>4. rx'[e].at = "staging" \/ (rx'[e].at = "publishing" /\ rx'[e].staged = BlobChunks)
          BY <5>2, <5>3 DEF BlobChunks
        <5>5. rx[e].at = "staging" /\ blobFiles' = blobFiles
          BY <4>2 DEF StageChunk
        <5> QED
          BY <5>3, <5>4, <5>5
      <4> QED
        BY <2>7, <4>1, <4>2
    <3>2. orphans' <= orphans
      BY <2>7 DEF OpenStage, StageChunk, cleanup_stale_incoming, ReceiveTypes
    <3>3. Claims(rx[e]) = BlobChunks /\ Claims(rx'[e]) = BlobChunks
      BY <3>1 DEF Claims
    <3>4. Spare' >= Spare
      BY <2>1, <3>1, <3>2, <3>3, SameClaims
    <3>5. Held' = Held
      BY <2>1, <3>1, HoldingChanges
    <3> QED
      BY <2>11, <3>1, <3>4, <3>5
  <2>8. CASE PublishChunk(e)
    <3>1. Spare' >= Spare /\ Held' = Held /\ rx'[e].at # "measured"
      BY <2>8, PublishKeepsSpace
    <3> QED
      BY <2>11, <3>1
  <2>9. CASE Abandon(e)
    <3>1. rx'[e] = NoExchange /\ blobFiles' = blobFiles /\ orphans' = orphans
      BY <2>2, <2>9 DEF Abandon
    <3>2. /\ Spare' >= Spare
          /\ Claims(rx[e]) = BlobChunks => Spare' >= Spare + ChunkCount
          /\ Held' = IF rx[e].held THEN Held - ChunkCount ELSE Held
      BY <2>1, <3>1, GivenBack
    <3>3. rx'[e].at # "measured"
      BY <3>1 DEF NoExchange
    <3>4. CASE rx[e].at = "entered"
      <4>1. rx[e].held = FALSE
        BY <2>2, <3>4 DEF WellStaged, Exchange
      <4> QED
        BY <2>11, <3>2, <3>3, <4>1
    <3>5. CASE rx[e].at \in {"reserved", "staging"}
      <4>1. Spare' >= Spare + ChunkCount /\ Held' = Held - ChunkCount
        BY <2>2, <3>2, <3>5 DEF Claims, WellStaged
      <4>2. Spare' + Held' >= Spare + Held
        BY <1>1, <1>2, <4>1, SumBack, Zenon
      <4>3. Spare' >= FreeSpace
        BY <1>1, <1>2, <1>4, <3>2, ReserveLeft, Zenon
      <4> QED
        BY <2>3, <3>3, <4>2, <4>3
    <3>6. CASE rx[e].at = "publishing"
      <4>1. Unlocked
        BY <2>9, <3>6 DEF Abandon
      <4>2. \A x \in Exchanges : rx'[x].at # "measured"
        BY <2>1, <3>3, <4>1 DEF Unlocked
      <4>3. Spare' >= FreeSpace
        BY <1>1, <1>2, <1>4, <3>2, ReserveLeft, Zenon
      <4> QED
        BY <4>2, <4>3
    <3> QED
      BY <2>9, <3>4, <3>5, <3>6 DEF Abandon
  <2>10. CASE Commit(e)
    <3>1. rx'[e] = NoExchange /\ blobFiles' = blobFiles /\ orphans' = orphans /\ Unlocked
      BY <2>2, <2>10 DEF Commit
    <3>2. Spare' >= Spare
      BY <2>1, <3>1, GivenBack
    <3>3. \A x \in Exchanges : rx'[x].at # "measured"
      BY <2>1, <3>1 DEF Unlocked, NoExchange
    <3>4. Spare' >= FreeSpace
      BY <1>1, <1>2, <1>4, <3>2, ReserveLeft, Zenon
    <3> QED
      BY <3>3, <3>4
  <2> QED
    BY <1>5, <2>4, <2>5, <2>6, <2>7, <2>8, <2>9, <2>10 DEF ReceiveStep
<1>6. CASE Revoke
  BY <1>4, <1>10, <1>6 DEF Revoke, Spare, Held, Final, Claimed, Holding
<1>7. CASE EvictBlob
  <2>1. rx' = rx /\ orphans' = orphans /\ \A c \in BlobChunks : blobFiles'[c] = 0
    BY <1>7 DEF EvictBlob
  <2>2. Final' = {} /\ Claimed' = Claimed /\ Holding' = Holding
    BY <2>1 DEF Final, Claimed, Holding
  <2>3. Count(Final') = 0 /\ Count(Final) \in Nat /\ Count(Claimed) \in Nat /\ Capacity \in Nat /\ orphans \in Nat
    BY <2>2, Counted, FS_EmptySet, ReceiveAssumption DEF Count, ReceiveTypes
  <2>4. Spare' = Capacity - orphans - Count(Final') - Count(Claimed) /\ Held' = Held
    BY <2>1, <2>2 DEF Spare, Held, Count
  <2>5. Spare' >= Spare
    BY <2>3, <2>4 DEF Spare
  <2>6. Spare' >= FreeSpace
    BY <1>1, <1>2, <1>4, <2>5, ReserveLeft, Zenon
  <2>7. Spare' + Held' >= Spare + Held
    BY <1>1, <1>2, <2>4, <2>5, SumKept, Zenon
  <2>8. ASSUME NEW x \in Exchanges, rx'[x].at = "measured"
        PROVE  rx'[x].free <= Spare' + Held'
    <3>1. rx'[x].free <= Spare + Held
      BY <1>10, <2>1, <2>8
    <3> QED
      BY <1>1, <1>2, <1>9, <2>7, <3>1, SumBounds, Zenon
  <2> QED
    BY <2>6, <2>8
<1>8. CASE KillReceiver
  <2>1. (\A e \in Exchanges : rx'[e] = NoExchange) /\ blobFiles' = blobFiles /\ orphans' = orphans + Count(Staged)
    BY <1>8 DEF KillReceiver
  <2>2. Claimed' = {} /\ Final' = Final
    BY <2>1, NothingUnderWay DEF Claimed, Final
  <2>3. Count(Claimed') = 0 /\ Count(Staged) \in Nat /\ Count(Claimed) \in Nat /\ Count(Final) \in Nat
    BY <2>2, Counted, FS_EmptySet DEF Count
  <2>4. Count(Staged) <= Count(Claimed)
    <3>1. Staged \in SUBSET Claimed
      BY DEF Staged, Claimed, Claims, ReceiveTypes, Exchange
    <3> QED
      BY <3>1, Counted, FS_Subset DEF Count
  <2>5. Spare' = Capacity - orphans' - Count(Final) - Count(Claimed')
    BY <2>2 DEF Spare, Count
  <2>6. Spare' >= Spare
    BY <2>1, <2>3, <2>4, <2>5, ReceiveAssumption DEF Spare, ReceiveTypes
  <2>7. \A x \in Exchanges : rx'[x].at # "measured"
    BY <2>1 DEF NoExchange
  <2>8. Spare' >= FreeSpace
    BY <1>1, <1>2, <1>4, <2>6, ReserveLeft, Zenon
  <2> QED
    BY <2>7, <2>8
<1> QED
  BY <1>5, <1>6, <1>7, <1>8 DEF ReceiveNext, ReceiveStep


-----------------------------------------------------------------------------
(* Theorems. *)

\* No exchange is under way when the daemon starts, and the disk has room.
LEMMA ReceiveStarts == ReceiveInit => ReceiveInv
<1> SUFFICES ASSUME ReceiveInit PROVE ReceiveInv
  OBVIOUS
<1>1. \A e \in Exchanges : rx[e] = NoExchange
  BY DEF ReceiveInit
<1>2. ReceiveTypes
  <2>1. NoBlobRows \in [seal : 0 .. Sealings, nonce : BOOLEAN, local : SUBSET BlobChunks]
        /\ NoBlobRows.nonce = FALSE /\ NoBlobRows.local = {}
    BY ReceiveAssumption DEF NoBlobRows
  <2>2. [seal : {1}, nonce : BOOLEAN, local : {{}}] \subseteq
          [seal : 0 .. Sealings, nonce : BOOLEAN, local : SUBSET BlobChunks]
    BY ReceiveAssumption
  <2>3. rx \in [Exchanges -> Exchange]
    BY NothingUnderWay DEF ReceiveInit
  <2>4. blobFiles \in [BlobChunks -> 0 .. Sealings]
    BY ReceiveAssumption DEF ReceiveInit
  <2> QED
    BY <2>1, <2>2, <2>3, <2>4 DEF ReceiveTypes, ReceiveInit
<1>3. Stages /\ blobRows.local = {}
  BY <1>1, NothingUnderWay DEF Stages, ReceiveInit, NoBlobRows
<1>4. RowsAreOwn /\ Readable
  BY <1>1, <1>3, NothingUnderWay DEF RowsAreOwn, Readable, ReceiveInit
<1>5. Room
  <2>1. Final = {} /\ Claimed = {}
    BY <1>1, NothingUnderWay DEF Final, Claimed, ReceiveInit
  <2>2. Count(Final) = 0 /\ Count(Claimed) = 0
    BY <2>1, FS_EmptySet DEF Count
  <2>3. orphans = 0 /\ \A e \in Exchanges : rx[e].at # "measured"
    BY <1>1 DEF ReceiveInit, NoExchange
  <2> QED
    BY <2>2, <2>3, ReceiveAssumption DEF Room, Spare
<1> QED
  BY <1>2, <1>3, <1>4, <1>5 DEF ReceiveInv

\* Every step of an exchange, of the rest of the program and of nothing keeps
\* the invariant.
LEMMA ReceiveKept == ReceiveInv /\ [ReceiveNext]_receiveVars => ReceiveInv'
<1> SUFFICES ASSUME ReceiveInv, [ReceiveNext]_receiveVars PROVE ReceiveInv'
  OBVIOUS
<1>1. CASE ReceiveNext
  <2>1. ReceiveTypes' /\ Stages' /\ RowsAreOwn'
    BY <1>1, TypesStep DEF ReceiveInv
  <2>2. Readable'
    BY <1>1, ReadableStep DEF ReceiveInv
  <2>3. Room'
    BY <1>1, <2>1, RoomStep DEF ReceiveInv
  <2> QED
    BY <2>1, <2>2, <2>3 DEF ReceiveInv
<1>2. CASE UNCHANGED receiveVars
  BY <1>2 DEF receiveVars, ReceiveInv, ReceiveTypes, Stages, RowsAreOwn, Readable, Room, Spare, Held,
     Final, Claimed, Holding
<1> QED
  BY <1>1, <1>2

\* The inductive invariant holds in every reachable state.
THEOREM ReceiveInvariance == ReceiveSpec => []ReceiveInv
<1> QED
  BY ReceiveStarts, ReceiveKept, PTL DEF ReceiveSpec

\* A blob that was received can be read, and receiving it left the space the
\* user reserved: receive_envelope, over every crossing of exchanges,
\* failures, kills, restarts, evictions and revocations.
THEOREM ReceivedStaysWithinLimits == ReceiveSpec => []ReceivedWithinLimits
<1>1. ReceiveInv => ReceivedWithinLimits
  <2> SUFFICES ASSUME ReceiveInv PROVE ReceivedIsReadable /\ ReserveKept
    BY DEF ReceivedWithinLimits
  <2>1. ReceivedIsReadable
    BY DEF ReceiveInv, Readable, ReceivedIsReadable
  <2>2. Count(Staged) <= Count(Claimed)
    <3>1. Staged \in SUBSET Claimed
      BY DEF ReceiveInv, Staged, Claimed, Claims, ReceiveTypes, Exchange
    <3> QED
      BY <3>1, Counted, FS_Subset DEF Count, ReceiveInv
  <2>3. FreeUnits >= Spare
    BY <2>2, Counted, ReceiveAssumption DEF FreeUnits, Spare, ReceiveInv, ReceiveTypes
  <2>4. FreeUnits \in Int /\ Spare \in Int
    BY Counted DEF ReceiveInv
  <2>5. ReserveKept
    BY <2>3, <2>4, ReceiveAssumption DEF ReceiveInv, Room, ReserveKept
  <2> QED
    BY <2>1, <2>5
<1> QED
  BY <1>1, ReceiveInvariance, PTL

\* The commit under the write lock writes rows only of a blob that is still
\* allowed and still of that sealing, and never loses a nonce.
THEOREM CommitsStayAllowed == ReceiveSpec => CommitsAreAllowed
<1>1. ReceiveInv /\ [ReceiveNext]_receiveVars => [RevocationWins /\ NoncesKept]_receiveVars
  <2> SUFFICES ASSUME ReceiveInv, ReceiveNext PROVE RevocationWins /\ NoncesKept
    OBVIOUS
  <2>1. CASE \E e \in Exchanges : Commit(e)
    <3>1. PICK e \in Exchanges : Commit(e)
      BY <2>1
    <3>2. CASE blobRows' = blobRows
      BY <3>2 DEF RevocationWins, NoncesKept
    <3>3. CASE blobRows' # blobRows
      <4>1. Acceptable(rx[e].seal) /\ blobRows' = Received(e)
        BY <3>1, <3>3 DEF Commit
      <4>2. blobRows'.seal = rx[e].seal /\ blobRows'.nonce = Merged(rx[e].nonce)
        BY <4>1 DEF Received
      <4>3. RevocationWins
        BY <4>1, <4>2 DEF Acceptable, SameIdentity, validate_local_blob_membership, RevocationWins
      <4>4. NoncesKept
        BY <4>2 DEF NoncesKept, Merged, ReceiveInv, RowsAreOwn
      <4> QED
        BY <4>3, <4>4
    <3> QED
      BY <3>2, <3>3
  <2>2. CASE EvictBlob
    BY <2>2 DEF EvictBlob, RevocationWins, NoncesKept, ReceiveInv, ReceiveTypes
  <2>3. CASE ~EvictBlob /\ ~(\E e \in Exchanges : Commit(e))
    <3>1. blobRows' = blobRows
      BY <2>3 DEF ReceiveNext, Enter, Measure, ReserveSpace, OpenStage, StageChunk, PublishChunk,
         Abandon, Revoke, KillReceiver
    <3> QED
      BY <3>1 DEF RevocationWins, NoncesKept
  <2> QED
    BY <2>1, <2>2, <2>3
<1> QED
  BY <1>1, ReceiveInvariance, PTL DEF ReceiveSpec, CommitsAreAllowed

-----------------------------------------------------------------------------
(* Theorems about SyncNetwork, for any daemons, callers and kinds of calls. *)
(*                                                                          *)
(* The argument.  Every list of operations that a handler or an error       *)
(* return leaves asks for the runtime before it binds, puts a runtime in    *)
(* place or takes it, and frees it only afterwards (Script).  An actor that *)
(* may go on does not wait, and the runtime is asked for exclusively; so    *)
(* whoever changes it is at the head of its queue, and nobody else is.      *)

Works == {"bind", "spawn", "take", "shutdown", "push", "pull", "reply", "record"}

Op == {o \in [op : {"ask", "free"} \cup Works, lock : {"state", "active", "none"},
              mode : {"read", "write", "none"}] :
          /\ o.op \in {"ask", "free"} => o.lock # "none"
          /\ o.op = "ask" => o.mode # "none"
          /\ o.op = "free" => o.mode = "none"
          /\ o.op = "ask" /\ o.lock = "active" => o.mode = "write"
          /\ o.op \in Works => o = Do(o.op)}

AskedBy == [who : Actors, mode : {"read", "write"}]

\* The runtime is asked for before operation k of s, or was before s (asked),
\* and is not freed in between.
Guarded(s, k, asked) ==
    \/ asked /\ \A j \in 1 .. k - 1 : s[j] # Free("active")
    \/ \E i \in 1 .. k - 1 : /\ s[i] = Ask("active", "write")
                             /\ \A j \in i + 1 .. k - 1 : s[j] # Free("active")

Guards == {"bind", "spawn", "take"}

Script(s, asked) == \A k \in DOMAIN s : s[k].op \in Guards => Guarded(s, k, asked)

Asked(a, x) == \E k \in DOMAIN lock[On[a]][x] : lock[On[a]][x][k].who = a

\* The inductive invariant.
NetInv ==
    /\ todo \in [Actors -> Seq(Op)] /\ started \subseteq Daemons
    /\ lock \in [Daemons -> [{"state", "active"} -> Seq(AskedBy)]]
    /\ \A d \in Daemons : \A k \in DOMAIN lock[d]["active"] : lock[d]["active"][k].mode = "write"
    /\ \A a \in Actors : Script(todo[a], Asked(a, "active"))

-----------------------------------------------------------------------------
(* Lists of operations. *)

\* The operations.
LEMMA Operations ==
  /\ Ask("state", "read") \in Op /\ Ask("state", "write") \in Op /\ Ask("active", "write") \in Op
  /\ Free("state") \in Op /\ Free("active") \in Op
  /\ \A w \in Works : Do(w) \in Op
  BY DEF Op, Ask, Free, Do, Works

\* Lists one after the other, each with what it needs.
LEMMA ScriptsFollow ==
  ASSUME NEW s \in Seq(Op), NEW t \in Seq(Op), Script(s, FALSE), Script(t, FALSE)
  PROVE  s \o t \in Seq(Op) /\ Script(s \o t, FALSE)
<1> DEFINE u == s \o t
<1>1. /\ u \in Seq(Op) /\ Len(s) \in Nat /\ Len(t) \in Nat /\ Len(u) = Len(s) + Len(t)
      /\ DOMAIN u = 1 .. Len(u) /\ DOMAIN s = 1 .. Len(s) /\ DOMAIN t = 1 .. Len(t)
      /\ \A k \in 1 .. Len(u) : u[k] = IF k <= Len(s) THEN s[k] ELSE t[k - Len(s)]
  OBVIOUS
<1> HIDE DEF u
<1>2. ASSUME NEW k \in 1 .. Len(u), u[k].op \in Guards PROVE Guarded(u, k, FALSE)
  <2>1. CASE k <= Len(s)
    <3>1. k \in DOMAIN s /\ s[k].op \in Guards
      BY <1>1, <1>2, <2>1
    <3>2. PICK i \in 1 .. k - 1 : /\ s[i] = Ask("active", "write")
                                  /\ \A j \in i + 1 .. k - 1 : s[j] # Free("active")
      BY <3>1 DEF Script, Guarded
    <3>3. u[i] = s[i] /\ \A j \in i + 1 .. k - 1 : u[j] = s[j]
      BY <1>1, <1>2, <2>1
    <3> QED BY <3>2, <3>3 DEF Guarded
  <2>2. CASE k > Len(s)
    <3> DEFINE n == k - Len(s)
    <3>1. n \in DOMAIN t /\ t[n].op \in Guards
      BY <1>1, <1>2, <2>2
    <3>2. PICK i \in 1 .. n - 1 : /\ t[i] = Ask("active", "write")
                                  /\ \A j \in i + 1 .. n - 1 : t[j] # Free("active")
      BY <3>1 DEF Script, Guarded
    <3>3. i + Len(s) \in 1 .. k - 1 /\ u[i + Len(s)] = t[i]
      <4>1. /\ i + Len(s) \in 1 .. k - 1 /\ i + Len(s) \in 1 .. Len(u)
            /\ ~(i + Len(s) <= Len(s)) /\ (i + Len(s)) - Len(s) = i
        BY <1>1, <1>2, <2>2
      <4>2. u[i + Len(s)] = t[(i + Len(s)) - Len(s)]
        BY <1>1, <4>1
      <4> QED BY <4>1, <4>2
    <3>4. ASSUME NEW j \in (i + Len(s)) + 1 .. k - 1 PROVE u[j] # Free("active")
      <4>1. j - Len(s) \in i + 1 .. n - 1 /\ u[j] = t[j - Len(s)]
        BY <1>1, <1>2, <2>2
      <4> QED BY <3>2, <4>1
    <3> QED BY <3>2, <3>3, <3>4 DEF Guarded
  <2>3. k <= Len(s) \/ k > Len(s)
    BY <1>1, <1>2
  <2> QED BY <2>1, <2>2, <2>3
<1> QED BY <1>1, <1>2 DEF Script, u

\* A list that changes no runtime needs nothing.
LEMMA Harmless ==
  ASSUME NEW s \in Seq(Op), \A k \in DOMAIN s : s[k].op \notin Guards, NEW asked \in BOOLEAN
  PROVE  Script(s, asked)
  BY DEF Script

\* Who has asked already is no worse off.
LEMMA ScriptAsked ==
  ASSUME NEW s \in Seq(Op), Script(s, FALSE), NEW asked \in BOOLEAN
  PROVE  Script(s, asked)
  BY DEF Script, Guarded

\* Once the first operation is done.
LEMMA ScriptGoesOn ==
  ASSUME NEW s \in Seq(Op), s # <<>>, NEW asked \in BOOLEAN, NEW after \in BOOLEAN, Script(s, asked),
         s[1] = Ask("active", "write") => after,
         s[1] # Free("active") /\ asked => after
  PROVE  Tail(s) \in Seq(Op) /\ Script(Tail(s), after)
<1> DEFINE t == Tail(s)
<1>1. /\ t \in Seq(Op) /\ Len(s) \in Nat \ {0} /\ DOMAIN s = 1 .. Len(s)
      /\ DOMAIN t = 1 .. Len(s) - 1 /\ \A k \in 1 .. Len(s) - 1 : t[k] = s[k + 1]
  OBVIOUS
<1> HIDE DEF t
<1>2. ASSUME NEW k \in 1 .. Len(s) - 1, t[k].op \in Guards PROVE Guarded(t, k, after)
  <2>1. k + 1 \in DOMAIN s /\ s[k + 1].op \in Guards
    BY <1>1, <1>2
  <2>2. Guarded(s, k + 1, asked)
    BY <2>1 DEF Script
  <2>3. \A j \in 1 .. k - 1 : t[j] = s[j + 1]
    BY <1>1
  <2>4. CASE asked /\ \A j \in 1 .. (k + 1) - 1 : s[j] # Free("active")
    <3>1. after /\ \A j \in 1 .. k - 1 : t[j] # Free("active")
      BY <2>3, <2>4
    <3> QED BY <3>1 DEF Guarded
  <2>5. ASSUME NEW i \in 1 .. (k + 1) - 1, s[i] = Ask("active", "write"),
               \A j \in i + 1 .. (k + 1) - 1 : s[j] # Free("active")
        PROVE  Guarded(t, k, after)
    <3>1. CASE i = 1
      <4>1. after /\ \A j \in 1 .. k - 1 : t[j] # Free("active")
        BY <2>3, <2>5, <3>1
      <4> QED BY <4>1 DEF Guarded
    <3>2. CASE i # 1
      <4>1. i - 1 \in 1 .. k - 1 /\ t[i - 1] = s[i]
        BY <2>3, <2>5, <3>2
      <4>2. \A j \in (i - 1) + 1 .. k - 1 : t[j] # Free("active")
        BY <2>3, <2>5, <3>2
      <4> QED BY <2>5, <4>1, <4>2 DEF Guarded
    <3> QED BY <3>1, <3>2
  <2> QED BY <2>2, <2>4, <2>5 DEF Guarded
<1> QED BY <1>1, <1>2 DEF Script, t

\* The runtime is there already: start leaves out what it does to put it there.
LEMMA ScriptSkips ==
  ASSUME NEW s \in Seq(Op), s # <<>>, s[1] = Do("bind"), NEW asked \in BOOLEAN, Script(s, asked)
  PROVE  SubSeq(s, 5, Len(s)) \in Seq(Op) /\ Script(SubSeq(s, 5, Len(s)), asked)
<1> DEFINE t == SubSeq(s, 5, Len(s))
<1>1. /\ t \in Seq(Op) /\ Len(s) \in Nat \ {0} /\ DOMAIN s = 1 .. Len(s)
      /\ DOMAIN t \subseteq Nat \ {0} /\ \A k \in DOMAIN t : k + 4 \in DOMAIN s
      /\ \A k \in DOMAIN t : \A j \in 1 .. k : t[j] = s[j + 4]
  <2>1. t \in Seq(Op) /\ Len(s) \in Nat \ {0} /\ DOMAIN s = 1 .. Len(s)
    OBVIOUS
  <2>2. CASE Len(s) < 5
    <3>1. t = <<>>
      BY <2>1, <2>2
    <3> QED BY <2>1, <3>1
  <2>3. CASE Len(s) >= 5
    <3>1. /\ Len(t) = Len(s) - 4 /\ \A k \in 1 .. Len(s) - 4 : t[k] = s[k + 4]
          /\ DOMAIN t = 1 .. Len(s) - 4
      BY <2>1, <2>3
    <3> QED BY <2>1, <3>1
  <2> QED BY <2>1, <2>2, <2>3
<1> HIDE DEF t
<1>2. asked
  <2>1. 1 \in DOMAIN s /\ s[1].op \in Guards
    BY <1>1 DEF Do, Guards
  <2> QED BY <2>1 DEF Script, Guarded
<1>3. ASSUME NEW k \in DOMAIN t, t[k].op \in Guards PROVE Guarded(t, k, asked)
  <2>1. k \in Nat \ {0} /\ k + 4 \in DOMAIN s /\ \A j \in 1 .. k : t[j] = s[j + 4]
    BY <1>1, <1>3
  <2>2. Guarded(s, k + 4, asked)
    BY <1>3, <2>1 DEF Script
  <2>3. ASSUME NEW i \in 1 .. (k + 4) - 1, s[i] = Ask("active", "write"),
               \A j \in i + 1 .. (k + 4) - 1 : s[j] # Free("active")
        PROVE  Guarded(t, k, asked)
    <3>1. CASE i <= 4
      <4>1. ASSUME NEW j \in 1 .. k - 1 PROVE t[j] # Free("active")
        <5>1. j \in 1 .. k /\ j + 4 \in i + 1 .. (k + 4) - 1
          BY <2>1, <3>1
        <5> QED BY <2>1, <2>3, <5>1
      <4> QED BY <1>2, <4>1 DEF Guarded
    <3>2. CASE i > 4
      <4>1. i - 4 \in 1 .. k - 1 /\ t[i - 4] = s[i]
        <5>1. i - 4 \in 1 .. k - 1 /\ i - 4 \in 1 .. k /\ (i - 4) + 4 = i
          BY <2>1, <3>2
        <5> QED BY <2>1, <5>1
      <4>2. \A j \in (i - 4) + 1 .. k - 1 : t[j] # Free("active")
        BY <2>1, <2>3, <3>2
      <4> QED BY <2>3, <4>1, <4>2 DEF Guarded
    <3> QED BY <3>1, <3>2
  <2>4. CASE asked /\ \A j \in 1 .. (k + 4) - 1 : s[j] # Free("active")
    <3>1. \A j \in 1 .. k - 1 : t[j] # Free("active")
      BY <2>1, <2>4
    <3> QED BY <1>2, <3>1 DEF Guarded
  <2> QED BY <2>2, <2>3, <2>4 DEF Guarded
<1> QED BY <1>1, <1>3 DEF Script, t

\* The lists of the calls and of the peer's answers.
LEMMA PartsAreScripts ==
  /\ Edit \in Seq(Op) /\ Script(Edit, FALSE)
  /\ ReadState \in Seq(Op) /\ Script(ReadState, FALSE)
  /\ RuntimeStatus \in Seq(Op) /\ Script(RuntimeStatus, FALSE)
  /\ NetworkStatus \in Seq(Op) /\ Script(NetworkStatus, FALSE)
  /\ StopRuntime \in Seq(Op) /\ Script(StopRuntime, FALSE)
  /\ StartRuntime \in Seq(Op) /\ Script(StartRuntime, FALSE)
  /\ SendBlob \in Seq(Op) /\ Script(SendBlob, FALSE)
  /\ Receive \in Seq(Op) /\ Script(Receive, FALSE)
  /\ RequestBlob \in Seq(Op) /\ Script(RequestBlob, FALSE)
  /\ RecordOutcome \in Seq(Op) /\ Script(RecordOutcome, FALSE)
<1> DEFINE AA == Ask("active", "write")
           AR == Ask("state", "read")
           AW == Ask("state", "write")
           FS == Free("state")
           FA == Free("active")
<1>1. /\ {AA, AR, AW, FS, FA} \subseteq Op /\ \A w \in Works : Do(w) \in Op
      /\ \A o \in {AA, AR, AW, FS, FA} : o.op \notin Guards
      /\ \A w \in Works \ Guards : Do(w).op \notin Guards
      /\ AA # FA /\ FS # FA /\ AR # FA /\ AW # FA /\ \A w \in Works : Do(w) # FA
  BY Operations DEF Ask, Free, Guards, Do, Works
<1> HIDE DEF AA, AR, AW, FS, FA
<1>2. ASSUME NEW s \in Seq(Op), \A k \in DOMAIN s : s[k].op \notin Guards
      PROVE  s \in Seq(Op) /\ Script(s, FALSE)
  BY <1>2, Harmless
<1>3. ASSUME NEW x \in Op, NEW y \in Op, x.op \notin Guards, y.op \notin Guards
      PROVE  <<x, y>> \in Seq(Op) /\ Script(<<x, y>>, FALSE)
  <2> DEFINE s == <<x, y>>
  <2>1. s \in Seq(Op) /\ DOMAIN s = 1 .. 2 /\ s[1] = x /\ s[2] = y
    OBVIOUS
  <2>2. \A k \in 1 .. 2 : k = 1 \/ k = 2
    OBVIOUS
  <2> HIDE DEF s
  <2>3. \A k \in DOMAIN s : s[k].op \notin Guards
    BY <1>3, <2>1, <2>2
  <2>4. Script(s, FALSE)
    BY <1>2, <2>1, <2>3
  <2> QED BY <2>1, <2>4 DEF s
<1>4. ASSUME NEW x \in Op, x.op \notin Guards
      PROVE  <<x>> \in Seq(Op) /\ Script(<<x>>, FALSE)
  <2> DEFINE s == <<x>>
  <2>1. s \in Seq(Op) /\ DOMAIN s = 1 .. 1 /\ s[1] = x
    OBVIOUS
  <2> HIDE DEF s
  <2>2. \A k \in DOMAIN s : s[k].op \notin Guards
    BY <1>4, <2>1
  <2>3. Script(s, FALSE)
    BY <1>2, <2>1, <2>2
  <2> QED BY <2>1, <2>3 DEF s
<1>5. Edit \in Seq(Op) /\ Script(Edit, FALSE)
  BY <1>1, <1>3 DEF Edit, AW, FS
<1>6. ReadState \in Seq(Op) /\ Script(ReadState, FALSE)
  BY <1>1, <1>3 DEF ReadState, AR, FS
<1>7. RuntimeStatus \in Seq(Op) /\ Script(RuntimeStatus, FALSE)
  BY <1>1, <1>3 DEF RuntimeStatus, AA, FA
<1>8. NetworkStatus \in Seq(Op) /\ Script(NetworkStatus, FALSE)
  <2>1. <<AR>> \in Seq(Op) /\ Script(<<AR>>, FALSE) /\ <<FS>> \in Seq(Op) /\ Script(<<FS>>, FALSE)
    BY <1>1, <1>4
  <2> QED BY <1>7, <2>1, ScriptsFollow DEF NetworkStatus, AR, FS
<1>9. StopRuntime \in Seq(Op) /\ Script(StopRuntime, FALSE)
  <2> DEFINE s == <<AA, Do("take"), FA, Do("shutdown")>>
  <2>1. s \in Seq(Op) /\ DOMAIN s = 1 .. 4 /\ s[1] = AA /\ s[3] = FA /\ s[4] = Do("shutdown")
    BY <1>1 DEF Works
  <2>2. \A k \in 1 .. 4 : k = 1 \/ k = 2 \/ k = 3 \/ k = 4
    OBVIOUS
  <2> HIDE DEF s
  <2>3. \A k \in DOMAIN s : s[k].op \in Guards => k = 2
    BY <1>1, <2>1, <2>2 DEF Works, Guards
  <2>4. Guarded(s, 2, FALSE)
    BY <2>1 DEF Guarded, AA
  <2> QED BY <2>1, <2>3, <2>4 DEF Script, StopRuntime, s, AA, FA
<1>10. StartRuntime \in Seq(Op) /\ Script(StartRuntime, FALSE)
  <2> DEFINE p == <<AA, Do("bind")>>
             q == <<AW, FS>>
             r == <<Do("spawn"), FA>>
             s == (p \o q) \o r
  <2>8. ASSUME NEW x \in Seq(Op), NEW y \in Seq(Op), Len(y) = 2
        PROVE  /\ x \o y \in Seq(Op) /\ Len(x \o y) = Len(x) + 2
               /\ (x \o y)[Len(x) + 1] = y[1] /\ (x \o y)[Len(x) + 2] = y[2]
               /\ \A k \in 1 .. Len(x) : (x \o y)[k] = x[k]
    <3>1. /\ x \o y \in Seq(Op) /\ Len(x) \in Nat /\ Len(x \o y) = Len(x) + Len(y)
          /\ \A k \in 1 .. Len(x) + Len(y) :
                (x \o y)[k] = IF k <= Len(x) THEN x[k] ELSE y[k - Len(x)]
      OBVIOUS
    <3>2. /\ Len(x) + 1 \in 1 .. Len(x) + Len(y) /\ Len(x) + 2 \in 1 .. Len(x) + Len(y)
          /\ (Len(x) + 1) - Len(x) = 1 /\ (Len(x) + 2) - Len(x) = 2
          /\ \A k \in 1 .. Len(x) : k \in 1 .. Len(x) + Len(y) /\ k <= Len(x)
          /\ ~(Len(x) + 1 <= Len(x)) /\ ~(Len(x) + 2 <= Len(x))
      BY <2>8, <3>1
    <3> QED BY <2>8, <3>1, <3>2
  <2>9. /\ p \in Seq(Op) /\ Len(p) = 2 /\ p[1] = AA /\ p[2] = Do("bind")
        /\ q \in Seq(Op) /\ Len(q) = 2 /\ q[1] = AW /\ q[2] = FS
        /\ r \in Seq(Op) /\ Len(r) = 2 /\ r[1] = Do("spawn") /\ r[2] = FA
    BY <1>1 DEF Works
  <2>10. StartRuntime = s
    BY DEF StartRuntime, Edit, AA, AW, FS, FA
  <2> HIDE DEF p, q, r
  <2>11. /\ p \o q \in Seq(Op) /\ Len(p \o q) = 4 /\ (p \o q)[1] = AA
         /\ (p \o q)[2] = Do("bind") /\ (p \o q)[3] = AW /\ (p \o q)[4] = FS
    BY <2>8, <2>9
  <2>1. /\ s \in Seq(Op) /\ DOMAIN s = 1 .. 6 /\ s[1] = AA /\ s[2] = Do("bind") /\ s[3] = AW
        /\ s[4] = FS /\ s[6] = FA
    <3> DEFINE x == p \o q
    <3> HIDE DEF x
    <3>1. s = x \o r /\ x \in Seq(Op) /\ Len(x) = 4
      BY <2>11 DEF x
    <3>2. /\ s \in Seq(Op) /\ Len(s) = 6 /\ s[6] = r[2]
          /\ s[1] = x[1] /\ s[2] = x[2] /\ s[3] = x[3] /\ s[4] = x[4]
      <4>1. /\ s \in Seq(Op) /\ Len(s) = Len(x) + 2 /\ s[Len(x) + 2] = r[2]
            /\ \A k \in 1 .. Len(x) : s[k] = x[k]
        <5> HIDE DEF s
        <5> QED BY <2>8, <2>9, <3>1, Zenon
      <4>2. 1 \in 1 .. 4 /\ 2 \in 1 .. 4 /\ 3 \in 1 .. 4 /\ 4 \in 1 .. 4
        OBVIOUS
      <4> HIDE DEF s
      <4> QED BY <3>1, <4>1, <4>2
    <3>3. DOMAIN s = 1 .. 6
      <4> HIDE DEF s
      <4> QED BY <3>2
    <3> QED BY <2>9, <2>11, <3>2, <3>3 DEF x
  <2>2. \A k \in 1 .. 6 : k = 1 \/ k = 2 \/ k = 3 \/ k = 4 \/ k = 5 \/ k = 6
    OBVIOUS
  <2> HIDE DEF s
  <2>4. \A k \in DOMAIN s : s[k].op \in Guards => k = 2 \/ k = 5
    BY <1>1, <2>1, <2>2
  <2>5. Guarded(s, 2, FALSE)
    BY <2>1 DEF Guarded, AA
  <2>6. \A j \in 2 .. 4 : s[j] # Free("active")
    <3>1. \A j \in 2 .. 4 : j = 2 \/ j = 3 \/ j = 4
      OBVIOUS
    <3> QED BY <1>1, <2>1, <3>1 DEF FA, Works
  <2>7. Guarded(s, 5, FALSE)
    BY <2>1, <2>6 DEF Guarded, AA
  <2> QED BY <2>1, <2>4, <2>5, <2>7, <2>10 DEF Script
<1>11. SendBlob \in Seq(Op) /\ Script(SendBlob, FALSE)
  <2> DEFINE s == <<AA, Do("push"), Do("reply"), FA>>
  <2>1. /\ s \in Seq(Op) /\ DOMAIN s = 1 .. 4 /\ s[1] = AA /\ s[2] = Do("push")
        /\ s[3] = Do("reply") /\ s[4] = FA
    BY <1>1 DEF Works
  <2>2. \A k \in 1 .. 4 : k = 1 \/ k = 2 \/ k = 3 \/ k = 4
    OBVIOUS
  <2>3. SendBlob = s
    BY DEF SendBlob, AA, FA
  <2> HIDE DEF s
  <2>4. \A k \in DOMAIN s : s[k].op \notin Guards
    BY <1>1, <2>1, <2>2 DEF Works, Guards
  <2> QED BY <1>2, <2>1, <2>3, <2>4
<1>12. Receive \in Seq(Op) /\ Script(Receive, FALSE)
  BY <1>5, <1>6, ScriptsFollow DEF Receive
<1>13. RequestBlob \in Seq(Op) /\ Script(RequestBlob, FALSE)
  <2> DEFINE s == <<AA, Do("pull"), Do("reply")>>
  <2>1. /\ s \in Seq(Op) /\ DOMAIN s = 1 .. 3 /\ s[1] = AA /\ s[2] = Do("pull") /\ s[3] = Do("reply")
    BY <1>1 DEF Works
  <2>2. \A k \in 1 .. 3 : k = 1 \/ k = 2 \/ k = 3
    OBVIOUS
  <2>3. RequestBlob = (s \o Receive) \o <<FA>>
    BY DEF RequestBlob, AA, FA
  <2> HIDE DEF s
  <2>4. \A k \in DOMAIN s : s[k].op \notin Guards
    BY <1>1, <2>1, <2>2 DEF Works, Guards
  <2>5. s \in Seq(Op) /\ Script(s, FALSE) /\ <<FA>> \in Seq(Op) /\ Script(<<FA>>, FALSE)
    BY <1>1, <1>2, <1>4, <2>1, <2>4
  <2>6. s \o Receive \in Seq(Op) /\ Script(s \o Receive, FALSE)
    BY <1>12, <2>5, ScriptsFollow
  <2> QED BY <2>3, <2>5, <2>6, ScriptsFollow
<1>14. RecordOutcome \in Seq(Op) /\ Script(RecordOutcome, FALSE)
  <2> DEFINE s == <<AW, Do("record"), FS>>
  <2>1. /\ s \in Seq(Op) /\ DOMAIN s = 1 .. 3 /\ s[1] = AW /\ s[2] = Do("record") /\ s[3] = FS
    BY <1>1 DEF Works
  <2>2. \A k \in 1 .. 3 : k = 1 \/ k = 2 \/ k = 3
    OBVIOUS
  <2>3. RecordOutcome = s \o Edit
    BY DEF RecordOutcome, AW, FS
  <2> HIDE DEF s
  <2>4. \A k \in DOMAIN s : s[k].op \notin Guards
    BY <1>1, <2>1, <2>2 DEF Works, Guards
  <2>5. s \in Seq(Op) /\ Script(s, FALSE)
    BY <1>2, <2>1, <2>4
  <2> QED BY <1>5, <2>3, <2>5, ScriptsFollow
<1> QED BY <1>5, <1>6, <1>7, <1>8, <1>9, <1>10, <1>11, <1>12, <1>13, <1>14

\* Every call is a list that asks before it changes the runtime.
LEMMA CallsAreScripts ==
  ASSUME NEW kind \in Kinds
  PROVE  Call(kind) \in Seq(Op) /\ Script(Call(kind), FALSE)
<1>1. /\ Workspace \in Seq(Op) /\ Script(Workspace, FALSE)
      /\ AuditAndStatus \in Seq(Op) /\ Script(AuditAndStatus, FALSE)
  BY PartsAreScripts, ScriptsFollow DEF Workspace, AuditAndStatus
<1>2. Edit \o StartRuntime \in Seq(Op) /\ Script(Edit \o StartRuntime, FALSE)
  BY PartsAreScripts, ScriptsFollow
<1>3. /\ (Edit \o StartRuntime) \o AuditAndStatus \in Seq(Op)
      /\ Script((Edit \o StartRuntime) \o AuditAndStatus, FALSE)
  BY <1>1, <1>2, ScriptsFollow
<1>4. StopRuntime \o AuditAndStatus \in Seq(Op) /\ Script(StopRuntime \o AuditAndStatus, FALSE)
  BY <1>1, PartsAreScripts, ScriptsFollow
<1>5. ASSUME NEW x \in Seq(Op), Script(x, FALSE)
      PROVE  RunSync(x) \in Seq(Op) /\ Script(RunSync(x), FALSE)
  <2>1. Edit \o Edit \in Seq(Op) /\ Script(Edit \o Edit, FALSE)
    BY PartsAreScripts, ScriptsFollow
  <2>2. (Edit \o Edit) \o StartRuntime \in Seq(Op) /\ Script((Edit \o Edit) \o StartRuntime, FALSE)
    BY <2>1, PartsAreScripts, ScriptsFollow
  <2>3. /\ ((Edit \o Edit) \o StartRuntime) \o x \in Seq(Op)
        /\ Script(((Edit \o Edit) \o StartRuntime) \o x, FALSE)
    BY <1>5, <2>2, ScriptsFollow
  <2> QED BY <2>3, PartsAreScripts, ScriptsFollow DEF RunSync
<1>6. /\ RunSync(SendBlob) \in Seq(Op) /\ Script(RunSync(SendBlob), FALSE)
      /\ RunSync(RequestBlob) \in Seq(Op) /\ Script(RunSync(RequestBlob), FALSE)
  BY <1>5, PartsAreScripts
<1>7. kind \in {"edit", "workspace", "status", "start", "stop", "endpoint", "push", "pull"}
  BY NetworkAssumption
<1> QED BY <1>1, <1>2, <1>3, <1>4, <1>6, <1>7, PartsAreScripts DEF Call

\* What serves a connection.
LEMMA AnswersAreScripts ==
  /\ AcceptPush \in Seq(Op) /\ Script(AcceptPush, FALSE)
  /\ AcceptPull \in Seq(Op) /\ Script(AcceptPull, FALSE)
  BY PartsAreScripts, ScriptsFollow DEF AcceptPush, AcceptPull

\* What an error return leaves to do.
LEMMA ErrorsAreScripts ==
  ASSUME NEW state \in BOOLEAN, NEW active \in BOOLEAN, NEW record \in BOOLEAN
  PROVE  LET s == (IF state THEN <<Free("state")>> ELSE <<>>)
                    \o (IF ~active THEN <<>>
                        ELSE <<Free("active")>> \o (IF record THEN RecordOutcome ELSE <<>>))
         IN  s \in Seq(Op) /\ Script(s, FALSE)
<1>1. <<>> \in Seq(Op) /\ Script(<<>>, FALSE)
  BY DEF Script
<1>2. \A x \in {"state", "active"} : <<Free(x)>> \in Seq(Op) /\ Script(<<Free(x)>>, FALSE)
  <2> TAKE x \in {"state", "active"}
  <2> DEFINE s == <<Free(x)>>
  <2>1. Free(x) \in Op /\ Free(x).op \notin Guards
    BY Operations DEF Free, Guards
  <2>2. s \in Seq(Op) /\ DOMAIN s = 1 .. 1 /\ s[1] = Free(x)
    BY <2>1
  <2> HIDE DEF s
  <2>3. \A k \in DOMAIN s : s[k].op \notin Guards
    BY <2>1, <2>2
  <2>4. Script(s, FALSE)
    BY <2>2, <2>3, Harmless
  <2> QED BY <2>2, <2>4 DEF s
<1> DEFINE one == IF state THEN <<Free("state")>> ELSE <<>>
           rest == IF record THEN RecordOutcome ELSE <<>>
           two == IF ~active THEN <<>> ELSE <<Free("active")>> \o rest
<1>3. one \in Seq(Op) /\ Script(one, FALSE)
  BY <1>1, <1>2
<1>4. rest \in Seq(Op) /\ Script(rest, FALSE)
  BY <1>1, PartsAreScripts
<1> HIDE DEF rest
<1>5. two \in Seq(Op) /\ Script(two, FALSE)
  <2>1. CASE ~active
    BY <1>1, <2>1
  <2>2. CASE active
    <3>1. two = <<Free("active")>> \o rest
      BY <2>2
    <3> QED BY <1>2, <1>4, <3>1, ScriptsFollow
  <2> QED BY <2>1, <2>2
<1> HIDE DEF one, two
<1>6. one \o two \in Seq(Op) /\ Script(one \o two, FALSE)
  BY <1>3, <1>5, ScriptsFollow
<1> QED BY <1>6 DEF one, two, rest

-----------------------------------------------------------------------------
(* The invariant is inductive. *)

\* An actor runs on a daemon.
LEMMA ActorsRun == \A a \in Actors : On[a] \in Daemons
<1>1. \A c \in Callers : Home[c] \in Daemons /\ Target[Home[c]] \in Daemons /\ Server(c)[2] = c
  BY NetworkAssumption DEF Server
<1> QED BY <1>1 DEF On, Actors

\* An actor goes on, and no lock changes hands.
LEMMA ActorGoesOn ==
  ASSUME NetInv, NEW a \in Actors, NEW s \in Seq(Op), todo' = [todo EXCEPT ![a] = s],
         UNCHANGED lock, started' \subseteq Daemons, Script(s, Asked(a, "active"))
  PROVE  NetInv'
<1>1. /\ todo' \in [Actors -> Seq(Op)] /\ todo'[a] = s
      /\ \A b \in Actors \ {a} : todo'[b] = todo[b]
  BY DEF NetInv
<1>2. \A b \in Actors : Script(todo'[b], Asked(b, "active"))
  BY <1>1 DEF NetInv
<1> QED BY <1>1, <1>2 DEF NetInv, Asked, On, Actors

\* The next operation asks for no lock and frees none.
LEMMA ActorWorks ==
  ASSUME NetInv, NEW a \in Actors, NEW op \in Works, Does(a, op), UNCHANGED lock,
         started' \subseteq Daemons
  PROVE  NetInv'
<1>1. todo[a] \in Seq(Op) /\ todo[a] # <<>> /\ todo[a][1].op = op
  BY DEF NetInv, Does, Before, Next1
<1>2. todo[a][1] # Ask("active", "write") /\ todo[a][1] # Free("active")
  BY <1>1 DEF Ask, Free, Works
<1>3. Asked(a, "active") \in BOOLEAN /\ Script(todo[a], Asked(a, "active"))
  BY DEF NetInv, Asked
<1>4. Tail(todo[a]) \in Seq(Op) /\ Script(Tail(todo[a]), Asked(a, "active"))
  BY <1>1, <1>2, <1>3, ScriptGoesOn
<1> QED BY <1>4, ActorGoesOn DEF Does

\* A lock is asked for.
LEMMA AskPreserves ==
  ASSUME NetInv, NEW a \in Actors, AskLock(a)
  PROVE  NetInv'
<1> DEFINE o == Next1(a)
           d == On[a]
           e == [who |-> a, mode |-> o.mode]
<1>1. /\ todo[a] \in Seq(Op) /\ todo[a] # <<>> /\ o = todo[a][1] /\ o.op = "ask" /\ o \in Op
      /\ todo' = [todo EXCEPT ![a] = Tail(todo[a])] /\ started' = started
      /\ lock' = [lock EXCEPT ![d][o.lock] = Append(@, e)]
  BY DEF NetInv, AskLock, Does, Before, Next1
<1>2. /\ o.lock \in {"state", "active"} /\ o.mode \in {"read", "write"}
      /\ o.lock = "active" => o.mode = "write"
  BY <1>1 DEF Op
<1>3. d \in Daemons
  BY ActorsRun
<1>4. e \in AskedBy /\ e.who = a /\ e.mode = o.mode
  BY <1>2 DEF AskedBy
<1>5. o = Ask("active", "write") \/ o.lock = "state"
  BY <1>1, <1>2 DEF Op, Ask
<1> HIDE DEF o, d, e
<1> DEFINE q == lock[d][o.lock]
<1>6. /\ q \in Seq(AskedBy) /\ Append(q, e) \in Seq(AskedBy)
      /\ DOMAIN q \subseteq DOMAIN Append(q, e) /\ \A k \in DOMAIN q : Append(q, e)[k] = q[k]
      /\ Len(q) + 1 \in DOMAIN Append(q, e) /\ Append(q, e)[Len(q) + 1] = e
      /\ \A k \in DOMAIN Append(q, e) : k \in DOMAIN q \/ k = Len(q) + 1
  BY <1>2, <1>3, <1>4 DEF NetInv
<1> DEFINE r == Append(q, e)
<1>7. /\ lock' \in [Daemons -> [{"state", "active"} -> Seq(AskedBy)]]
      /\ lock'[d][o.lock] = r
      /\ \A c \in Daemons, x \in {"state", "active"} :
            c # d \/ x # o.lock => lock'[c][x] = lock[c][x]
  <2>1. lock' = [lock EXCEPT ![d] = [lock[d] EXCEPT ![o.lock] = r]]
    BY <1>1
  <2> HIDE DEF r
  <2>2. r \in Seq(AskedBy)
    BY <1>6 DEF r
  <2> QED BY <1>2, <1>3, <2>1, <2>2 DEF NetInv
<1> HIDE DEF q, r
<1>8. \A c \in Daemons : \A k \in DOMAIN lock'[c]["active"] : lock'[c]["active"][k].mode = "write"
  <2> TAKE c \in Daemons
  <2>1. CASE c # d \/ o.lock # "active"
    BY <1>7, <2>1 DEF NetInv
  <2>2. CASE c = d /\ o.lock = "active"
    <3>1. lock'[c]["active"] = r /\ \A k \in DOMAIN q : q[k].mode = "write"
      BY <1>3, <1>7, <2>2 DEF NetInv, q
    <3>2. ASSUME NEW k \in DOMAIN r PROVE r[k].mode = "write"
      <4>1. (k \in DOMAIN q /\ r[k] = q[k]) \/ r[k] = e
        BY <1>6 DEF r
      <4> QED BY <1>2, <1>4, <2>2, <3>1, <4>1
    <3> QED BY <3>1, <3>2
  <2> QED BY <2>1, <2>2
<1>9. \A b \in Actors : Asked(b, "active") => Asked(b, "active")'
  <2> TAKE b \in Actors
  <2>1. On[b] \in Daemons /\ On' = On
    BY ActorsRun DEF On, Actors
  <2>2. CASE On[b] # d \/ o.lock # "active"
    BY <1>7, <2>1, <2>2 DEF Asked
  <2>3. ASSUME On[b] = d, o.lock = "active", Asked(b, "active") PROVE Asked(b, "active")'
    <3>1. PICK k \in DOMAIN q : q[k].who = b
      BY <2>3 DEF Asked, q
    <3>2. k \in DOMAIN r /\ r[k].who = b
      BY <1>6, <3>1 DEF r
    <3>3. lock'[On'[b]]["active"] = r
      BY <1>7, <2>1, <2>3
    <3> QED BY <3>2, <3>3 DEF Asked
  <2> QED BY <2>2, <2>3
<1>10. ASSUME o.lock = "active" PROVE Asked(a, "active")'
  <2>1. On' = On /\ On[a] = d
    BY DEF On, Actors, d
  <2>2. lock'[On'[a]]["active"] = r
    BY <1>7, <1>10, <2>1
  <2>3. Len(q) + 1 \in DOMAIN r /\ r[Len(q) + 1].who = a
    BY <1>4, <1>6 DEF r
  <2> QED BY <2>2, <2>3 DEF Asked
<1>11. ASSUME NEW b \in Actors PROVE Script(todo'[b], Asked(b, "active")')
  <2>1. Script(todo[b], Asked(b, "active")) /\ todo[b] \in Seq(Op)
        /\ Asked(b, "active") \in BOOLEAN /\ Asked(b, "active")' \in BOOLEAN
    BY DEF NetInv, Asked
  <2>2. CASE b = a
    <3>1. todo'[a] = Tail(todo[a])
      BY <1>1 DEF NetInv
    <3>2. /\ todo[a][1] = Ask("active", "write") => Asked(a, "active")'
          /\ Asked(a, "active") => Asked(a, "active")'
      BY <1>1, <1>9, <1>10 DEF Ask
    <3> QED BY <1>1, <2>1, <2>2, <3>1, <3>2, ScriptGoesOn
  <2>3. CASE b # a
    <3>1. todo'[b] = todo[b]
      BY <1>1, <2>3 DEF NetInv
    <3> QED BY <1>9, <2>1, <3>1 DEF Script, Guarded
  <2> QED BY <2>2, <2>3
<1>12. todo' \in [Actors -> Seq(Op)]
  BY <1>1 DEF NetInv
<1> QED BY <1>1, <1>7, <1>8, <1>11, <1>12 DEF NetInv

\* A guard is dropped; the others stay in the queue.
LEMMA FreePreserves ==
  ASSUME NetInv, NEW a \in Actors, FreeLock(a)
  PROVE  NetInv'
<1> DEFINE o == Next1(a)
           d == On[a]
<1>1. /\ todo[a] \in Seq(Op) /\ todo[a] # <<>> /\ o = todo[a][1] /\ o.op = "free" /\ o \in Op
      /\ todo' = [todo EXCEPT ![a] = Tail(todo[a])] /\ started' = started
  BY DEF NetInv, FreeLock, Does, Before, Next1
<1>2. o.lock \in {"state", "active"}
  BY <1>1 DEF Op
<1>3. d \in Daemons
  BY ActorsRun
<1>4. PICK n \in DOMAIN lock[d][o.lock] :
        /\ lock[d][o.lock][n].who = a
        /\ lock' = [lock EXCEPT ![d][o.lock] = RemoveAt(@, n)]
  BY DEF FreeLock
<1> HIDE DEF o, d
<1> DEFINE q == lock[d][o.lock]
           r == RemoveAt(q, n)
<1>5. /\ r \in Seq(AskedBy)
      /\ \A k \in DOMAIN r : \E j \in DOMAIN q : r[k] = q[j]
      /\ \A j \in DOMAIN q \ {n} : \E k \in DOMAIN r : r[k] = q[j]
  <2>1. /\ q \in Seq(AskedBy) /\ n \in 1 .. Len(q) /\ Len(q) \in Nat /\ DOMAIN q = 1 .. Len(q)
    BY <1>2, <1>3, <1>4 DEF NetInv
  <2> DEFINE x == SubSeq(q, 1, n - 1)
             y == SubSeq(q, n + 1, Len(q))
  <2>2. x \in Seq(AskedBy) /\ Len(x) = n - 1 /\ \A k \in 1 .. n - 1 : x[k] = q[k]
    BY <2>1
  <2>3. y \in Seq(AskedBy) /\ Len(y) = Len(q) - n /\ \A k \in 1 .. Len(q) - n : y[k] = q[k + n]
    <3>1. CASE n = Len(q)
      <4>1. y = <<>>
        BY <2>1, <3>1
      <4> QED BY <2>1, <3>1, <4>1
    <3>2. CASE n < Len(q)
      <4> HIDE DEF q
      <4>1. n + 1 \in 1 .. Len(q) /\ Len(q) \in 1 .. Len(q) /\ n + 1 <= Len(q)
        BY <2>1, <3>2
      <4>2. y \in Seq(AskedBy) /\ Len(y) = Len(q) - (n + 1) + 1
        BY <2>1, <4>1
      <4>3. \A k \in 1 .. Len(q) - (n + 1) + 1 : y[k] = q[(n + 1) + k - 1]
        BY <2>1, <4>1
      <4> HIDE DEF y
      <4>4. Len(q) - (n + 1) + 1 = Len(q) - n
        BY <2>1
      <4>5. ASSUME NEW k \in 1 .. Len(q) - n PROVE y[k] = q[k + n]
        <5>1. (n + 1) + k - 1 = k + n
          BY <2>1
        <5> QED BY <4>3, <4>4, <5>1
      <4> QED BY <4>2, <4>4, <4>5
    <3> QED BY <2>1, <3>1, <3>2
  <2>4. r = x \o y
    BY DEF RemoveAt
  <2> HIDE DEF q, r, x, y
  <2>9. /\ x \o y \in Seq(AskedBy) /\ Len(x \o y) = Len(x) + Len(y)
        /\ \A k \in 1 .. Len(x) + Len(y) :
              (x \o y)[k] = IF k <= Len(x) THEN x[k] ELSE y[k - Len(x)]
    <3>1. ASSUME NEW u \in Seq(AskedBy), NEW v \in Seq(AskedBy)
          PROVE  /\ u \o v \in Seq(AskedBy) /\ Len(u \o v) = Len(u) + Len(v)
                 /\ \A k \in 1 .. Len(u) + Len(v) :
                       (u \o v)[k] = IF k <= Len(u) THEN u[k] ELSE v[k - Len(u)]
      OBVIOUS
    <3> QED BY <2>2, <2>3, <3>1
  <2>10. Len(x) + Len(y) = Len(q) - 1
    BY <2>1, <2>2, <2>3
  <2>5. /\ r \in Seq(AskedBy) /\ Len(r) = Len(q) - 1 /\ DOMAIN r = 1 .. Len(q) - 1
        /\ \A k \in 1 .. Len(q) - 1 : r[k] = IF k <= n - 1 THEN x[k] ELSE y[k - (n - 1)]
    BY <2>2, <2>4, <2>9, <2>10
  <2>6. \A k \in 1 .. Len(q) - 1 : r[k] = IF k < n THEN q[k] ELSE q[k + 1]
    <3> TAKE k \in 1 .. Len(q) - 1
    <3>1. CASE k < n
      BY <2>1, <2>2, <2>5, <3>1
    <3>2. CASE k >= n
      <4>1. k - (n - 1) \in 1 .. Len(q) - n /\ (k - (n - 1)) + n = k + 1 /\ ~(k <= n - 1)
            /\ ~(k < n)
        BY <2>1, <3>2
      <4>2. r[k] = y[k - (n - 1)]
        BY <2>5, <4>1
      <4>3. y[k - (n - 1)] = q[(k - (n - 1)) + n]
        BY <2>3, <4>1
      <4> QED BY <4>1, <4>2, <4>3
    <3> QED BY <2>1, <3>1, <3>2
  <2>7. \A k \in DOMAIN r : \E j \in DOMAIN q : r[k] = q[j]
    <3> TAKE k \in DOMAIN r
    <3>1. k \in 1 .. Len(q) - 1 /\ k \in DOMAIN q /\ k + 1 \in DOMAIN q
      BY <2>1, <2>5
    <3> QED BY <2>6, <3>1
  <2>8. ASSUME NEW j \in DOMAIN q \ {n} PROVE \E k \in DOMAIN r : r[k] = q[j]
    <3>1. CASE j < n
      BY <2>1, <2>5, <2>6, <3>1
    <3>2. CASE j > n
      <4>1. j - 1 \in DOMAIN r /\ ~(j - 1 < n) /\ (j - 1) + 1 = j
        BY <2>1, <2>5, <3>2
      <4> QED BY <2>5, <2>6, <4>1
    <3> QED BY <2>1, <3>1, <3>2
  <2> QED BY <2>5, <2>7, <2>8
<1>6. /\ lock' \in [Daemons -> [{"state", "active"} -> Seq(AskedBy)]]
      /\ lock'[d][o.lock] = r
      /\ \A c \in Daemons, x \in {"state", "active"} :
            c # d \/ x # o.lock => lock'[c][x] = lock[c][x]
  <2>1. lock' = [lock EXCEPT ![d] = [lock[d] EXCEPT ![o.lock] = r]]
    BY <1>4
  <2> HIDE DEF r
  <2> QED BY <1>2, <1>3, <1>5, <2>1 DEF NetInv
<1> HIDE DEF r
<1>7. \A c \in Daemons : \A k \in DOMAIN lock'[c]["active"] : lock'[c]["active"][k].mode = "write"
  <2> TAKE c \in Daemons
  <2>1. CASE c # d \/ o.lock # "active"
    BY <1>6, <2>1 DEF NetInv
  <2>2. CASE c = d /\ o.lock = "active"
    BY <1>3, <1>5, <1>6, <2>2 DEF NetInv
  <2> QED BY <2>1, <2>2
<1>8. \A b \in Actors \ {a} : Asked(b, "active") => Asked(b, "active")'
  <2> TAKE b \in Actors \ {a}
  <2>1. On[b] \in Daemons /\ On' = On
    BY ActorsRun DEF On, Actors
  <2>2. CASE On[b] # d \/ o.lock # "active"
    BY <1>6, <2>1, <2>2 DEF Asked
  <2>3. ASSUME On[b] = d, o.lock = "active", Asked(b, "active") PROVE Asked(b, "active")'
    <3>1. PICK j \in DOMAIN q : q[j].who = b
      BY <2>3 DEF Asked
    <3>2. j # n
      BY <1>4, <3>1
    <3>3. PICK k \in DOMAIN r : r[k] = q[j]
      BY <1>5, <3>1, <3>2
    <3> QED BY <1>6, <2>1, <2>3, <3>1, <3>3 DEF Asked
  <2> QED BY <2>2, <2>3
<1>9. o.lock # "active" => (Asked(a, "active") => Asked(a, "active")')
  BY <1>3, <1>6 DEF Asked, d, On, Actors
<1>10. ASSUME NEW b \in Actors PROVE Script(todo'[b], Asked(b, "active")')
  <2>1. Script(todo[b], Asked(b, "active")) /\ todo[b] \in Seq(Op)
        /\ Asked(b, "active") \in BOOLEAN /\ Asked(b, "active")' \in BOOLEAN
    BY DEF NetInv, Asked
  <2>2. CASE b = a
    <3>1. todo'[a] = Tail(todo[a])
      BY <1>1 DEF NetInv
    <3>2. todo[a][1] # Ask("active", "write")
      BY <1>1 DEF Ask
    <3>3. o.lock = "active" => todo[a][1] = Free("active")
      BY <1>1 DEF Op, Free
    <3>4. todo[a][1] # Free("active") /\ Asked(a, "active") => Asked(a, "active")'
      BY <1>9, <3>3
    <3> QED BY <1>1, <2>1, <2>2, <3>1, <3>2, <3>4, ScriptGoesOn
  <2>3. CASE b # a
    <3>1. todo'[b] = todo[b]
      BY <1>1, <2>3 DEF NetInv
    <3> QED BY <1>8, <2>1, <2>3, <3>1 DEF Script, Guarded
  <2> QED BY <2>2, <2>3
<1>11. todo' \in [Actors -> Seq(Op)]
  BY <1>1 DEF NetInv
<1> QED BY <1>1, <1>6, <1>7, <1>10, <1>11 DEF NetInv

\* An error return drops the guards and records at most.
LEMMA GivesUpPreserves ==
  ASSUME NetInv, NEW a \in Actors, GivesUp(a), UNCHANGED <<lock, started>>
  PROVE  NetInv'
<1> DEFINE holdsState == Holds(a, On[a], "state")
           holdsActive == Holds(a, On[a], "active")
           records == Do("record") \in ToSet(todo[a])
           s == (IF holdsState THEN <<Free("state")>> ELSE <<>>)
                  \o (IF ~holdsActive THEN <<>>
                      ELSE <<Free("active")>> \o (IF records THEN RecordOutcome ELSE <<>>))
<1>1. holdsState \in BOOLEAN /\ holdsActive \in BOOLEAN /\ records \in BOOLEAN
  BY DEF Holds
<1>2. todo' = [todo EXCEPT ![a] = s]
  BY DEF GivesUp
<1> HIDE DEF holdsState, holdsActive, records
<1>3. s \in Seq(Op) /\ Script(s, FALSE)
  BY <1>1, ErrorsAreScripts
<1> HIDE DEF s
<1>4. Asked(a, "active") \in BOOLEAN
  BY DEF Asked
<1>5. Script(s, Asked(a, "active"))
  BY <1>3, <1>4, ScriptAsked
<1>6. started' \subseteq Daemons /\ UNCHANGED lock
  BY DEF NetInv
<1> QED BY <1>2, <1>3, <1>5, <1>6, ActorGoesOn

\* A transfer goes on when the peer's router has accepted its connection.
LEMMA ConnectPreserves ==
  ASSUME NetInv, NEW c \in Callers, NEW op \in Works, NEW accept \in Seq(Op),
         Script(accept, FALSE), Connect(c, op, accept)
  PROVE  NetInv'
<1> DEFINE b == Server(c)
<1>1. c \in Actors /\ b \in Actors
  BY DEF Actors
<1> HIDE DEF b
<1>2. todo[c] \in Seq(Op) /\ todo[c] # <<>> /\ todo[c][1].op = op /\ todo[b] = <<>>
  BY <1>1 DEF NetInv, Connect, Before, Next1, b
<1>3. b # c
  BY <1>2
<1>4. todo[c][1] # Ask("active", "write") /\ todo[c][1] # Free("active")
  BY <1>2 DEF Ask, Free, Works
<1>5. \A a \in Actors : Asked(a, "active") \in BOOLEAN /\ Script(todo[a], Asked(a, "active"))
  BY DEF NetInv, Asked
<1>6. Tail(todo[c]) \in Seq(Op) /\ Script(Tail(todo[c]), Asked(c, "active"))
  BY <1>1, <1>2, <1>4, <1>5, ScriptGoesOn
<1>7. Script(accept, Asked(b, "active"))
  BY <1>1, <1>5, ScriptAsked
<1>8. /\ todo' = [todo EXCEPT ![c] = Tail(todo[c]), ![b] = accept]
      /\ lock' = lock /\ started' = started
  BY DEF Connect, b
<1>9. /\ todo' \in [Actors -> Seq(Op)] /\ todo'[c] = Tail(todo[c]) /\ todo'[b] = accept
      /\ \A a \in Actors \ {b, c} : todo'[a] = todo[a]
  BY <1>1, <1>3, <1>6, <1>8 DEF NetInv
<1>10. \A a \in Actors : Script(todo'[a], Asked(a, "active"))
  BY <1>5, <1>6, <1>7, <1>9
<1>11. \A a \in Actors : Asked(a, "active")' = Asked(a, "active")
  BY <1>8 DEF Asked
<1>12. /\ started \subseteq Daemons /\ lock \in [Daemons -> [{"state", "active"} -> Seq(AskedBy)]]
       /\ \A d \in Daemons : \A k \in DOMAIN lock[d]["active"] : lock[d]["active"][k].mode = "write"
  BY DEF NetInv
<1>13. \A a \in Actors : Script(todo[a], Asked(a, "active"))'
  <2> SUFFICES ASSUME NEW a \in Actors PROVE Script(todo[a], Asked(a, "active"))'
    OBVIOUS
  <2>1. Script(todo'[a], Asked(a, "active")')
    BY <1>10, <1>11
  <2> QED BY <2>1
<1> QED BY <1>8, <1>9, <1>12, <1>13 DEF NetInv

\* Between calls nobody has asked for anything.
LEMMA NetInitially == NetInit => NetInv
<1> SUFFICES ASSUME NetInit PROVE NetInv
  OBVIOUS
<1>1. <<>> \in Seq(Op) /\ <<>> \in Seq(AskedBy) /\ DOMAIN <<>> = {}
  OBVIOUS
<1>2. \A a \in Actors : todo[a] = <<>> /\ Script(todo[a], Asked(a, "active"))
  BY <1>1 DEF NetInit, Script
<1>3. \A d \in Daemons : \A k \in DOMAIN lock[d]["active"] : lock[d]["active"][k].mode = "write"
  BY <1>1 DEF NetInit
<1>4. todo \in [Actors -> Seq(Op)] /\ lock \in [Daemons -> [{"state", "active"} -> Seq(AskedBy)]]
  BY <1>1 DEF NetInit
<1> QED BY <1>2, <1>3, <1>4 DEF NetInit, NetInv

\* Every step keeps it.
LEMMA NetPreserved == NetInv /\ [NetNext]_netVars => NetInv'
<1> SUFFICES ASSUME NetInv, [NetNext]_netVars PROVE NetInv'
  OBVIOUS
<1>1. \A c \in Callers : c \in Actors /\ Server(c) \in Actors
  BY DEF Actors
<1>2. started \subseteq Daemons
  BY DEF NetInv
<1>3. ASSUME NEW c \in Callers, NEW kind \in Kinds, Begin(c, kind) PROVE NetInv'
  <2>1. Call(kind) \in Seq(Op) /\ Script(Call(kind), FALSE) /\ Asked(c, "active") \in BOOLEAN
    BY CallsAreScripts DEF Asked
  <2>2. Script(Call(kind), Asked(c, "active"))
    BY <2>1, ScriptAsked
  <2> QED BY <1>1, <1>2, <1>3, <2>1, <2>2, ActorGoesOn DEF Begin
<1>4. ASSUME NEW a \in Actors, LockStep(a) PROVE NetInv'
  BY <1>4, AskPreserves, FreePreserves DEF LockStep
<1>5. ASSUME NEW c \in Callers, Act(c) PROVE NetInv'
  <2>1. CASE LockStep(c)
    BY <1>1, <1>4, <2>1
  <2>2. CASE Bind(c)
    BY <1>1, <1>2, <2>2, ActorWorks DEF Bind, Works
  <2>3. CASE StartedAlready(c)
    <3> DEFINE s == SubSeq(todo[c], 5, Len(todo[c]))
    <3>1. todo[c] \in Seq(Op) /\ todo[c] # <<>> /\ todo[c][1] \in Op /\ todo[c][1].op = "bind"
      BY <1>1, <2>3 DEF NetInv, StartedAlready, Before, Next1
    <3>2. todo[c][1] = Do("bind")
      BY <3>1 DEF Op, Works
    <3>3. Asked(c, "active") \in BOOLEAN /\ Script(todo[c], Asked(c, "active"))
      BY <1>1 DEF NetInv, Asked
    <3>4. s \in Seq(Op) /\ Script(s, Asked(c, "active"))
      BY <3>1, <3>2, <3>3, ScriptSkips
    <3>5. todo' = [todo EXCEPT ![c] = s] /\ UNCHANGED lock /\ started' \subseteq Daemons
      BY <1>2, <2>3 DEF StartedAlready
    <3> HIDE DEF s
    <3> QED BY <1>1, <3>4, <3>5, ActorGoesOn
  <2>4. CASE Spawn(c)
    <3>1. started' \subseteq Daemons
      BY <1>1, <1>2, <2>4, ActorsRun DEF Spawn
    <3> QED BY <1>1, <2>4, <3>1, ActorWorks DEF Spawn, Works
  <2>5. CASE Take(c)
    BY <1>1, <1>2, <2>5, ActorWorks DEF Take, Works
  <2>6. CASE Work(c)
    BY <1>1, <1>2, <2>6, ActorWorks DEF Work, Works
  <2>7. CASE Connect(c, "push", AcceptPush) \/ Connect(c, "pull", AcceptPull)
    <3>1. "push" \in Works /\ "pull" \in Works
      BY DEF Works
    <3> QED BY <2>7, <3>1, AnswersAreScripts, ConnectPreserves
  <2>8. CASE NoConnection(c)
    BY <1>1, <2>8, GivesUpPreserves DEF NoConnection
  <2>9. CASE Reply(c)
    BY <1>1, <1>2, <2>9, ActorWorks DEF Reply, Works
  <2> QED BY <1>5, <2>1, <2>2, <2>3, <2>4, <2>5, <2>6, <2>7, <2>8, <2>9 DEF Act
<1>6. ASSUME NEW c \in Callers, Fail(c) \/ ServerFails(c) PROVE NetInv'
  BY <1>1, <1>6, GivesUpPreserves DEF Fail, ServerFails
<1>7. CASE UNCHANGED netVars
  BY <1>7 DEF netVars, NetInv, Asked, On, Actors
<1> QED BY <1>1, <1>3, <1>4, <1>5, <1>6, <1>7 DEF NetNext

\* The invariant holds in every state.
THEOREM NetInvariance == NetSpec => []NetInv
<1> QED BY NetInitially, NetPreserved, PTL DEF NetSpec

\* Whoever changes the runtime has been granted its lock, and so has nobody else.
LEMMA ChangersAreGranted ==
  ASSUME NetInv, NEW a \in Actors, NEW op \in {"spawn", "take"}, Does(a, op)
  PROVE  \A c \in Actors : On[c] = On[a] /\ Holds(c, On[a], "active") => c = a
<1> DEFINE q == lock[On[a]]["active"]
<1>1. On[a] \in Daemons
  BY ActorsRun
<1>2. q \in Seq(AskedBy) /\ \A k \in DOMAIN q : q[k].mode = "write"
  BY <1>1 DEF NetInv
<1>3. /\ todo[a] \in Seq(Op) /\ todo[a] # <<>> /\ todo[a][1].op = op
      /\ Script(todo[a], Asked(a, "active"))
  BY DEF NetInv, Does, Before, Next1
<1>4. Asked(a, "active")
  <2>1. 1 \in DOMAIN todo[a] /\ todo[a][1].op \in Guards
    BY <1>3 DEF Guards
  <2>2. Guarded(todo[a], 1, Asked(a, "active"))
    BY <1>3, <2>1 DEF Script
  <2> QED BY <2>2 DEF Guarded
<1>5. PICK n \in DOMAIN q : q[n].who = a
  BY <1>4 DEF Asked
<1>6. Granted(q, n)
  BY <1>5 DEF Does, Runnable, Waits
<1>7. ASSUME NEW k \in DOMAIN q, Granted(q, k) PROVE k = 1
  <2>1. k \in 1 .. k /\ q[k].mode = "write"
    BY <1>2, <1>7
  <2> QED BY <1>7, <2>1 DEF Granted
<1>8. n = 1
  BY <1>6, <1>7
<1> SUFFICES ASSUME NEW c \in Actors, Holds(c, On[a], "active") PROVE c = a
  OBVIOUS
<1>9. PICK k \in DOMAIN q : q[k].who = c /\ Granted(q, k)
  BY DEF Holds
<1> QED BY <1>5, <1>7, <1>8, <1>9

\* While a transfer talks to its peer, and while start binds the endpoint, no
\* other call takes the runtime away or puts one in place: `active` is locked
\* from SyncRuntime::start, stop, send_blob and request_blob on.
THEOREM RuntimeStaysHeld == NetSpec => RuntimeIsHeld
<1> DEFINE Kept == \A d \in Daemons, c \in Callers :
                      On[c] = d /\ Holds(c, d, "active") /\ todo'[c] = todo[c]
                          => (d \in started) = (d \in started')
<1>1. ASSUME NetInv, NEW a \in Actors, NEW op \in {"spawn", "take"}, Does(a, op),
             NEW d \in Daemons, NEW c \in Callers,
             On[c] = d, Holds(c, d, "active"), todo'[c] = todo[c]
      PROVE  d # On[a]
  <2>1. todo[a] \in Seq(Op) /\ todo[a] # <<>> /\ todo'[a] = Tail(todo[a])
    BY <1>1 DEF NetInv, Does, Before
  <2>2. Tail(todo[a]) # todo[a]
    <3>1. ASSUME NEW s \in Seq(Op), s # <<>>
          PROVE  Len(Tail(s)) = Len(s) - 1 /\ Len(s) - 1 # Len(s)
      BY <3>1
    <3>2. Len(Tail(todo[a])) # Len(todo[a])
      BY <2>1, <3>1
    <3> QED BY <3>2
  <2>3. c # a /\ c \in Actors
    BY <1>1, <2>1, <2>2 DEF Actors
  <2> QED BY <1>1, <2>3, ChangersAreGranted
<1>2. ASSUME NetInv, NetNext PROVE Kept
  <2> SUFFICES ASSUME NEW d \in Daemons, NEW c \in Callers,
                      On[c] = d, Holds(c, d, "active"), todo'[c] = todo[c]
               PROVE  (d \in started) = (d \in started')
    OBVIOUS
  <2>1. CASE \E b \in Callers : Spawn(b)
    <3>1. PICK b \in Callers : Spawn(b)
      BY <2>1
    <3>2. b \in Actors /\ Does(b, "spawn") /\ started' = started \cup {On[b]}
      BY <3>1 DEF Spawn, Actors
    <3>3. d # On[b]
      BY <1>1, <1>2, <3>2
    <3> QED BY <3>2, <3>3
  <2>2. CASE \E b \in Callers : Take(b)
    <3>1. PICK b \in Callers : Take(b)
      BY <2>2
    <3>2. b \in Actors /\ Does(b, "take") /\ started' = started \ {On[b]}
      BY <3>1 DEF Take, Actors
    <3>3. d # On[b]
      BY <1>1, <1>2, <3>2
    <3> QED BY <3>2, <3>3
  <2>3. CASE started' = started
    BY <2>3
  <2>4. (\E b \in Callers : Spawn(b) \/ Take(b)) \/ started' = started
    BY <1>2 DEF NetNext, Begin, Act, LockStep, AskLock, FreeLock, Bind, StartedAlready, Work,
                Connect, NoConnection, Reply, Fail, ServerFails
  <2> QED BY <2>1, <2>2, <2>3, <2>4
<1>3. NetInv /\ [NetNext]_netVars => [Kept]_netVars
  BY <1>2
<1>4. NetSpec => [][Kept]_netVars
  BY <1>3, NetInvariance, PTL DEF NetSpec
<1> QED BY <1>4 DEF RuntimeIsHeld

-----------------------------------------------------------------------------
(* Theorems about SyncTransfers, for any peers, any number of calls of      *)
(* run_sync at once and any number of transfers: what evict counts is       *)
(* stored, and what moves is known to the database.                         *)
(*                                                                          *)
(* The argument.  A row becomes Completed in two places only: when a pull   *)
(* is committed, whose target is this device and so no peer, and when an    *)
(* answer "ok" is recorded, whose target stored the chunks before it        *)
(* answered (Calls).  Rows never change their ends and peers never give     *)
(* chunks up here, so a completed transfer to a peer stays true in memory   *)
(* and in any earlier save (Table).  A call has at most one answer waiting, *)
(* so an answer is recorded for the exchange it answers.                    *)

Devices == Peers \cup {Here}

Busy == {"starting", "sending", "answered"}

SyncCall == [at : {"idle", "planned", "starting", "sending", "answered", "finishing"},
         jobs : SUBSET Ids]

Answer == [run : Runs, ok : BOOLEAN]

\* Memory is ahead of the database, and every replica row names its transfer.
Named(l) == \A p \in Healthy(l) : l.replica[p] \in DOMAIN l.rows /\ l.rows[l.replica[p]].to = p

Table ==
    /\ mem \in Tables /\ db \in Tables /\ Named(mem) /\ Named(db)
    /\ DOMAIN db.rows \subseteq DOMAIN mem.rows
    /\ held \subseteq Devices
    /\ VerifiedMeansStored

\* The jobs of a call are saved rows with an end here.
JobsKnown(c) ==
    \A i \in c.jobs : /\ i \in DOMAIN mem.rows /\ i \in DOMAIN db.rows
                      /\ Here \in {mem.rows[i].from, mem.rows[i].to}

\* A good answer comes from a target that has the chunks.
Delivered(a) ==
    a.ok => \A i \in Ids : Current(a.run, i) => mem.rows[i].to \in held \cup {Here}

Calls ==
    /\ runs \in [Runs -> SyncCall] /\ answers \in Seq(Answer)
    /\ \A r \in Runs : (runs[r].jobs # {}) = (runs[r].at \in Busy) /\ JobsKnown(runs[r])
    /\ \A k \in DOMAIN answers : runs[answers[k].run].at = "answered" /\ Delivered(answers[k])
    /\ \A j, k \in DOMAIN answers : answers[j].run = answers[k].run => j = k

\* The inductive invariant.
TransfersInv == Table /\ Calls /\ EvictedIsElsewhere /\ disturbed \in BOOLEAN

-----------------------------------------------------------------------------
(* The table. *)

\* m comes after l: rows keep their ends, and only those in `done` become
\* completed or the transfer of a replica.
Follows(l, m, done) ==
    /\ m \in Tables /\ DOMAIN l.rows \subseteq DOMAIN m.rows
    /\ \A i \in DOMAIN l.rows : m.rows[i].from = l.rows[i].from /\ m.rows[i].to = l.rows[i].to
    /\ \A i \in DOMAIN m.rows : m.rows[i].status = "Completed" =>
          i \in done \/ (i \in DOMAIN l.rows /\ l.rows[i].status = "Completed")
    /\ \A p \in Peers : m.replica[p] # l.replica[p] =>
          /\ m.replica[p] \in done \cap DOMAIN m.rows
          /\ m.rows[m.replica[p]].to = p

\* SetStatus changes no row but the ones it names, and of them the status.
LEMMA SetStatusSets ==
  ASSUME NEW l \in Tables, NEW is, NEW status \in Statuses
  PROVE  /\ SetStatus(l, is, status) \in Tables
         /\ SetStatus(l, is, status).replica = l.replica
         /\ DOMAIN SetStatus(l, is, status).rows = DOMAIN l.rows
         /\ \A i \in DOMAIN l.rows :
               /\ SetStatus(l, is, status).rows[i].from = l.rows[i].from
               /\ SetStatus(l, is, status).rows[i].to = l.rows[i].to
               /\ SetStatus(l, is, status).rows[i].status =
                     IF i \in is THEN status ELSE l.rows[i].status
<1> DEFINE rows == [i \in DOMAIN l.rows |->
                      IF i \in is THEN [l.rows[i] EXCEPT !.status = status] ELSE l.rows[i]]
<1>1. /\ l.rows \in Seq(Transfer) /\ Len(l.rows) <= MaxTransfers
      /\ l.replica \in [Peers -> 0 .. MaxTransfers]
  BY DEF Tables
<1>2. DOMAIN l.rows = 1 .. Len(l.rows) /\ Len(l.rows) \in Nat
  BY <1>1
<1>3. \A i \in DOMAIN l.rows : l.rows[i] \in Transfer
  BY <1>1
<1>4. \A i \in DOMAIN l.rows : /\ rows[i] \in Transfer
                               /\ rows[i].from = l.rows[i].from /\ rows[i].to = l.rows[i].to
                               /\ rows[i].status = IF i \in is THEN status ELSE l.rows[i].status
  BY <1>3 DEF Transfer
<1>5. DOMAIN rows = DOMAIN l.rows
  OBVIOUS
<1> HIDE DEF rows
<1>6. rows \in Seq(Transfer) /\ Len(rows) = Len(l.rows)
  <2>1. rows \in [1 .. Len(l.rows) -> Transfer]
    <3>1. rows = [i \in 1 .. Len(l.rows) |-> rows[i]]
      BY <1>2 DEF rows
    <3> QED BY <1>2, <1>4, <3>1
  <2> QED BY <1>2, <2>1
<1>7. SetStatus(l, is, status) = [l EXCEPT !.rows = rows]
  BY DEF SetStatus, rows
<1>8. /\ SetStatus(l, is, status) \in Tables /\ SetStatus(l, is, status).rows = rows
      /\ SetStatus(l, is, status).replica = l.replica
  BY <1>1, <1>6, <1>7 DEF Tables
<1> QED BY <1>4, <1>5, <1>8

\* Rows that are set to any status but Completed.
LEMMA SetStatusFollows ==
  ASSUME NEW l \in Tables, NEW is, NEW status \in Statuses, NEW done,
         status = "Completed" => is \subseteq done
  PROVE  Follows(l, SetStatus(l, is, status), done)
  BY SetStatusSets DEF Follows

\* A row that is added is pending.
LEMMA AppendFollows ==
  ASSUME NEW l \in Tables, NEW t \in Transfer, t.status = "Pending", Len(l.rows) < MaxTransfers
  PROVE  Follows(l, [l EXCEPT !.rows = Append(l.rows, t)], {})
<1> DEFINE rows == Append(l.rows, t)
<1>1. l.rows \in Seq(Transfer) /\ l.replica \in [Peers -> 0 .. MaxTransfers]
  BY DEF Tables
<1>2. /\ rows \in Seq(Transfer) /\ Len(rows) = Len(l.rows) + 1 /\ Len(rows) <= MaxTransfers
      /\ DOMAIN rows = 1 .. Len(rows) /\ DOMAIN l.rows = 1 .. Len(l.rows)
      /\ \A i \in DOMAIN l.rows : rows[i] = l.rows[i]
      /\ rows[Len(rows)] = t /\ Len(l.rows) \in Nat
  BY <1>1, SyncAssumption
<1>3. DOMAIN l.rows \subseteq DOMAIN rows
  BY <1>2
<1>4. \A i \in DOMAIN rows : i \in DOMAIN l.rows \/ i = Len(rows)
  BY <1>2
<1> HIDE DEF rows
<1>5. /\ [l EXCEPT !.rows = rows] \in Tables /\ [l EXCEPT !.rows = rows].rows = rows
      /\ [l EXCEPT !.rows = rows].replica = l.replica
  BY <1>1, <1>2 DEF Tables
<1> QED BY <1>2, <1>3, <1>4, <1>5 DEF Follows, rows

\* The answer of an exchange completes its row and makes the replica healthy,
\* or fails its row.
LEMMA RecordedFollows ==
  ASSUME NEW l \in Tables, NEW i \in DOMAIN l.rows, NEW ok \in BOOLEAN
  PROVE  Follows(l, Recorded(l, i, ok), IF ok THEN {i} ELSE {})
<1>1. i \in 0 .. MaxTransfers
  BY SyncAssumption DEF Tables
<1>2. CASE ok
  <2> DEFINE m == SetStatus(l, {i}, "Completed")
             replica == [p \in Peers |-> IF p = l.rows[i].to THEN i ELSE m.replica[p]]
  <2>1. /\ m \in Tables /\ DOMAIN m.rows = DOMAIN l.rows /\ m.replica = l.replica
        /\ \A j \in DOMAIN l.rows : /\ m.rows[j].from = l.rows[j].from
                                    /\ m.rows[j].to = l.rows[j].to
                                    /\ m.rows[j].status = "Completed" =>
                                          j = i \/ l.rows[j].status = "Completed"
    BY SetStatusSets DEF Statuses
  <2>2. Recorded(l, i, ok) = [m EXCEPT !.replica = replica]
    BY <1>2 DEF Recorded
  <2>3. replica \in [Peers -> 0 .. MaxTransfers]
    BY <1>1, <2>1 DEF Tables
  <2>4. \A p \in Peers : replica[p] # l.replica[p] => replica[p] = i /\ l.rows[i].to = p
    BY <2>1
  <2> HIDE DEF m, replica
  <2>5. /\ [m EXCEPT !.replica = replica] \in Tables
        /\ [m EXCEPT !.replica = replica].rows = m.rows
        /\ [m EXCEPT !.replica = replica].replica = replica
    BY <2>1, <2>3 DEF Tables
  <2> DEFINE q == [m EXCEPT !.replica = replica]
  <2>6. Recorded(l, i, ok) = q /\ q \in Tables /\ q.rows = m.rows /\ q.replica = replica
    BY <2>2, <2>5
  <2> HIDE DEF q
  <2>7. \A p \in Peers : q.replica[p] # l.replica[p] =>
          /\ q.replica[p] \in {i} \cap DOMAIN q.rows
          /\ q.rows[q.replica[p]].to = p
    BY <2>1, <2>4, <2>6
  <2>8. Follows(l, q, {i})
    BY <2>1, <2>6, <2>7 DEF Follows
  <2> QED BY <1>2, <2>6, <2>8
<1>3. CASE ~ok
  BY <1>3, SetStatusFollows DEF Recorded, Statuses
<1> QED BY <1>2, <1>3

-----------------------------------------------------------------------------
(* The table is kept. *)

\* A table that follows a true one is true, when the targets of the transfers
\* that became completed have the chunks.
LEMMA FollowingIsTrue ==
  ASSUME NEW l \in Tables, Named(l), Verified(l) \subseteq held,
         NEW m, NEW done, Follows(l, m, done), held \subseteq held' \cup {Here},
         \A i \in done : i \in DOMAIN l.rows /\ l.rows[i].to \in held' \cup {Here}
  PROVE  m \in Tables /\ Named(m) /\ Verified(m) \subseteq held'
<1>1. m \in Tables
  BY DEF Follows
<1>2. Here \notin Peers
  BY SyncAssumption
<1>3. Named(m)
  BY DEF Follows, Named, Healthy
<1>4. ASSUME NEW p \in Verified(m) PROVE p \in held'
  <2>1. p \in Peers /\ m.replica[p] # 0 /\ m.rows[m.replica[p]].status = "Completed"
        /\ m.replica[p] \in DOMAIN m.rows /\ m.rows[m.replica[p]].to = p
    BY <1>3, <1>4 DEF Verified, Healthy, Named
  <2>2. CASE m.replica[p] \in done
    BY <1>2, <2>1, <2>2 DEF Follows
  <2>3. CASE m.replica[p] \notin done
    <3>1. m.replica[p] = l.replica[p] /\ l.rows[l.replica[p]].status = "Completed"
      BY <2>1, <2>3 DEF Follows
    <3>2. p \in Verified(l)
      BY <2>1, <3>1 DEF Verified, Healthy
    <3> QED BY <1>2, <2>1, <3>2
  <2> QED BY <2>2, <2>3
<1> QED BY <1>1, <1>3, <1>4

\* A step that follows the table, saves it or not, and keeps the peers' chunks.
LEMMA TableKept ==
  ASSUME Table, NEW done, Follows(mem, mem', done), db' = mem' \/ db' = db,
         held \subseteq held' \cup {Here}, held' \subseteq Devices,
         \A i \in done : i \in DOMAIN mem.rows /\ mem.rows[i].to \in held' \cup {Here}
  PROVE  Table' /\ DOMAIN db.rows \subseteq DOMAIN db'.rows
<1> USE DEF Table, VerifiedMeansStored
<1>1. mem' \in Tables /\ Named(mem') /\ Verified(mem') \subseteq held'
  BY FollowingIsTrue
<1>2. db \in Tables /\ Named(db) /\ Verified(db) \subseteq held'
  BY SyncAssumption DEF Verified, Healthy
<1>3. DOMAIN mem.rows \subseteq DOMAIN mem'.rows
  BY DEF Follows
<1>4. Named(mem)' = Named(mem') /\ Named(db)' = Named(db')
  BY DEF Named, Healthy
<1>5. Table'
  BY <1>1, <1>2, <1>3, <1>4 DEF Verified, Healthy
<1> QED BY <1>3, <1>5

\* This device may get or keep its chunks; peers that have them are as many as
\* before.
LEMMA ElsewhereKept ==
  ASSUME EvictedIsElsewhere, held \subseteq held', held' \subseteq Devices
  PROVE  EvictedIsElsewhere'
<1>1. IsFiniteSet(Devices)
  BY SyncAssumption, FS_AddElement DEF Devices
<1>2. IsFiniteSet(held')
  BY <1>1, FS_Subset
<1>3. IsFiniteSet(held) /\ Cardinality(held) <= Cardinality(held')
  BY <1>2, FS_Subset
<1>4. Cardinality(held) \in Nat /\ Cardinality(held') \in Nat
  BY <1>2, <1>3, FS_CardinalityType
<1> QED BY <1>3, <1>4, SyncAssumption DEF EvictedIsElsewhere

-----------------------------------------------------------------------------
(* The calls are kept. *)

\* What the calls know of the table and of the chunks stays so.
Undisturbed ==
    /\ DOMAIN mem.rows \subseteq DOMAIN mem'.rows /\ DOMAIN db.rows \subseteq DOMAIN db'.rows
    /\ \A i \in DOMAIN mem.rows : mem'.rows[i].from = mem.rows[i].from
                               /\ mem'.rows[i].to = mem.rows[i].to
    /\ held \subseteq held' \cup {Here}

\* Handlers that leave the calls alone.
LEMMA CallsUntouched ==
  ASSUME Calls, Undisturbed, UNCHANGED <<runs, answers>>
  PROVE  Calls'
<1>1. \A r \in Runs : JobsKnown(runs[r])'
  BY DEF Calls, Undisturbed, JobsKnown
<1>2. ASSUME NEW k \in DOMAIN answers PROVE Delivered(answers[k])'
  <2>1. answers[k] \in Answer /\ Delivered(answers[k])
    BY DEF Calls
  <2>2. \A i \in Ids : Current(answers[k].run, i) => i \in DOMAIN mem.rows
    BY <2>1 DEF Calls, JobsKnown, Current, Answer
  <2> QED BY <2>1, <2>2 DEF Delivered, Current, Undisturbed
<1> QED BY <1>1, <1>2 DEF Calls

\* A call that has no answer waiting goes on.
LEMMA CallGoesOn ==
  ASSUME Calls, Undisturbed, UNCHANGED answers, NEW r \in Runs, NEW c \in SyncCall,
         runs[r].at # "answered", runs' = [runs EXCEPT ![r] = c],
         (c.jobs # {}) = (c.at \in Busy), JobsKnown(c)'
  PROVE  Calls'
<1>1. /\ runs' \in [Runs -> SyncCall] /\ runs'[r] = c
      /\ \A q \in Runs \ {r} : runs'[q] = runs[q]
  BY DEF Calls
<1>2. \A q \in Runs : (runs'[q].jobs # {}) = (runs'[q].at \in Busy) /\ JobsKnown(runs[q])'
  BY <1>1 DEF Calls, Undisturbed, JobsKnown
<1>3. ASSUME NEW k \in DOMAIN answers
      PROVE  runs'[answers[k].run].at = "answered" /\ Delivered(answers[k])'
  <2>1. answers[k] \in Answer /\ Delivered(answers[k]) /\ runs[answers[k].run].at = "answered"
    BY DEF Calls
  <2>2. answers[k].run \in Runs \ {r}
    BY <2>1 DEF Answer
  <2>3. \A i \in Ids : Current(answers[k].run, i) => i \in DOMAIN mem.rows
    BY <2>1 DEF Calls, JobsKnown, Current, Answer
  <2> QED BY <1>1, <2>1, <2>2, <2>3 DEF Delivered, Current, Undisturbed
<1> QED BY <1>1, <1>2, <1>3 DEF Calls

\* A call gets its answer, good only if the current target has the chunks.
LEMMA CallIsAnswered ==
  ASSUME Calls, Undisturbed, NEW r \in Runs, NEW ok \in BOOLEAN,
         runs[r].at = "sending", Answered(r, ok),
         ok => \A i \in Ids : Current(r, i) => mem.rows[i].to \in held' \cup {Here}
  PROVE  Calls'
<1> DEFINE a == [run |-> r, ok |-> ok]
<1>1. /\ runs' = [runs EXCEPT ![r].at = "answered"] /\ answers' = Append(answers, a)
  BY DEF Answered
<1>2. /\ runs' \in [Runs -> SyncCall] /\ runs'[r].at = "answered" /\ runs'[r].jobs = runs[r].jobs
      /\ \A q \in Runs \ {r} : runs'[q] = runs[q]
  BY <1>1 DEF Calls, SyncCall
<1>3. \A q \in Runs : runs'[q].jobs = runs[q].jobs
  BY <1>2
<1>4. \A q \in Runs : (runs'[q].jobs # {}) = (runs'[q].at \in Busy) /\ JobsKnown(runs[q])'
  BY <1>2, <1>3 DEF Calls, Undisturbed, JobsKnown, Busy
<1>5. a \in Answer
  BY DEF Answer
<1>6. /\ answers' \in Seq(Answer) /\ Len(answers') = Len(answers) + 1
      /\ \A k \in DOMAIN answers : answers'[k] = answers[k]
      /\ answers'[Len(answers')] = a
      /\ \A k \in DOMAIN answers' : k \in DOMAIN answers \/ k = Len(answers')
      /\ Len(answers') \notin DOMAIN answers
  BY <1>1, <1>5 DEF Calls
<1>7. a.run = r /\ a.ok = ok
  OBVIOUS
<1> HIDE DEF a
<1>8. ASSUME NEW k \in DOMAIN answers
      PROVE  runs'[answers[k].run].at = "answered" /\ Delivered(answers[k])' /\ answers[k].run # r
  <2>1. answers[k] \in Answer /\ Delivered(answers[k]) /\ runs[answers[k].run].at = "answered"
    BY DEF Calls
  <2>2. answers[k].run \in Runs \ {r}
    BY <2>1 DEF Answer
  <2>3. \A i \in Ids : Current(answers[k].run, i) => i \in DOMAIN mem.rows
    BY <2>1 DEF Calls, JobsKnown, Current, Answer
  <2> QED BY <1>2, <1>6, <2>1, <2>2, <2>3 DEF Delivered, Current, Undisturbed
<1>9. Delivered(a)'
  <2>1. \A i \in Ids : Current(r, i)' <=> Current(r, i)
    BY <1>3 DEF Current
  <2>2. \A i \in Ids : Current(r, i) => i \in DOMAIN mem.rows
    BY DEF Calls, JobsKnown, Current
  <2> QED BY <1>7, <2>1, <2>2 DEF Delivered, Undisturbed
<1>10. \A k \in DOMAIN answers' : runs'[answers'[k].run].at = "answered" /\ Delivered(answers[k])'
  BY <1>2, <1>6, <1>7, <1>8, <1>9 DEF Delivered, Current
<1>11. \A j, k \in DOMAIN answers' : answers'[j].run = answers'[k].run => j = k
  BY <1>6, <1>7, <1>8 DEF Calls
<1> QED BY <1>2, <1>4, <1>6, <1>10, <1>11 DEF Calls

\* A failed or finished save leaves the table as it is or as it was saved.
LEMMA Untouched ==
  ASSUME NEW l \in Tables
  PROVE  Follows(l, l, {})
  BY DEF Follows

\* A step that follows the table disturbs no call.
LEMMA FollowingUndisturbed ==
  ASSUME Table, NEW done, Follows(mem, mem', done), db' = mem' \/ db' = db,
         held \subseteq held' \cup {Here}
  PROVE  Undisturbed
  BY DEF Follows, Undisturbed, Table

-----------------------------------------------------------------------------
(* The invariant is inductive. *)

\* It holds when nothing has been planned.
LEMMA TransfersInitially == Init => TransfersInv
<1> SUFFICES ASSUME Init PROVE TransfersInv
  OBVIOUS
<1>1. /\ mem = [rows |-> <<>>, replica |-> [p \in Peers |-> 0]] /\ db = mem /\ held = {Here}
      /\ runs = [r \in Runs |-> Idle] /\ answers = <<>> /\ disturbed \in BOOLEAN
  BY DEF Init
<1>2. /\ mem.rows = <<>> /\ mem.replica \in [Peers -> 0 .. MaxTransfers]
      /\ \A p \in Peers : mem.replica[p] = 0
  BY <1>1, SyncAssumption
<1>3. mem \in Tables
  BY <1>1, <1>2, SyncAssumption DEF Tables
<1>4. Table
  BY <1>1, <1>2, <1>3 DEF Table, Named, Healthy, Devices, VerifiedMeansStored, Verified
<1>5. Calls
  BY <1>1 DEF Calls, SyncCall, Idle, Busy, JobsKnown
<1> QED BY <1>1, <1>4, <1>5 DEF TransfersInv, EvictedIsElsewhere

\* Planning and pinning queue one transfer.
LEMMA QueueingPreserves ==
  ASSUME TransfersInv, UNCHANGED disturbed, Pin \/ \E r \in Runs : Plan(r)
  PROVE  TransfersInv'
<1> USE DEF TransfersInv
<1>1. mem \in Tables /\ mem = [rows |-> mem.rows, replica |-> mem.replica]
  BY DEF Table, Tables
<1>2. held' = held /\ held \subseteq Devices /\ (db' = mem' \/ db' = db)
  BY DEF Table, Plan, Pin, SaveIf, SaveOutcomes
<1>3. Follows(mem, mem', {})
  <2>1. ASSUME NEW from \in Devices, NEW to \in Devices, Len(mem.rows) < MaxTransfers,
               mem' = Queued(mem, from, to)
        PROVE  Follows(mem, mem', {})
    <3>1. [from |-> from, to |-> to, status |-> "Pending"] \in Transfer
      BY DEF Devices, Transfer, Statuses
    <3> QED BY <1>1, <2>1, <3>1, AppendFollows DEF Queued
  <2>2. CASE Pin
    BY <2>1, <2>2 DEF Pin, Healthy, Devices
  <2>3. ASSUME NEW r \in Runs, Plan(r) PROVE Follows(mem, mem', {})
    <3>1. CASE UNCHANGED mem
      BY <1>1, <3>1, Untouched
    <3>2. CASE Len(mem.rows) < MaxTransfers
               /\ \E s \in Sources(mem), p \in Candidates(mem) : mem' = Queued(mem, s, p)
      <4>1. Sources(mem) \subseteq Devices /\ Candidates(mem) \subseteq Devices
        BY DEF Sources, Local, Healthy, Candidates, Devices
      <4> QED BY <2>1, <3>2, <4>1
    <3> QED BY <2>3, <3>1, <3>2 DEF Plan
  <2> QED BY <2>2, <2>3
<1>4. Table' /\ Undisturbed
  BY <1>2, <1>3, TableKept, FollowingUndisturbed
<1>5. CASE Pin
  BY <1>2, <1>4, <1>5, CallsUntouched, ElsewhereKept DEF Pin
<1>6. ASSUME NEW r \in Runs, Plan(r) PROVE TransfersInv'
  <2>1. PICK at \in {"planned", "idle"} : runs' = [runs EXCEPT ![r].at = at]
    BY <1>6 DEF Plan
  <2>2. runs[r] = Idle /\ UNCHANGED answers
    BY <1>6 DEF Plan
  <2> DEFINE c == [at |-> at, jobs |-> {}]
  <2>3. c \in SyncCall /\ c.jobs = {} /\ (c.jobs # {}) = (c.at \in Busy) /\ JobsKnown(c)'
    BY DEF SyncCall, Busy, JobsKnown
  <2>4. runs' = [runs EXCEPT ![r] = c]
    <3>1. [runs[r] EXCEPT !.at = at] = c
      BY <2>2 DEF Idle
    <3> QED BY <2>1, <3>1
  <2>5. runs[r].at # "answered"
    BY <2>2 DEF Idle
  <2>6. Calls'
    BY <1>4, <2>2, <2>3, <2>4, <2>5, CallGoesOn
  <2> QED BY <1>2, <1>4, <2>6, ElsewhereKept
<1> QED BY <1>5, <1>6

\* The start of an exchange, its failure before a byte is sent, and the end of
\* a call.
LEMMA StartingPreserves ==
  ASSUME TransfersInv, UNCHANGED disturbed, NEW r \in Runs,
         Execute(r) \/ StartReturns(r) \/ StartFails(r) \/ Finish(r)
  PROVE  TransfersInv'
<1> USE DEF TransfersInv
<1>1. mem \in Tables /\ runs[r] \in SyncCall
  BY DEF Table, Calls
<1>2. /\ held' = held /\ held \subseteq Devices /\ (db' = mem' \/ db' = db)
      /\ UNCHANGED answers /\ runs[r].at # "answered"
  BY DEF Table, Execute, StartReturns, StartFails, Finish, SaveIf, SaveOutcomes
<1>3. Follows(mem, mem', {})
  <2>1. CASE mem' = mem
    BY <1>1, <2>1, Untouched
  <2>2. CASE Execute(r)
    <3>1. PICK ready \in SUBSET Eligible(mem) : mem' = Marked(mem, ready)
      BY <2>2 DEF Execute
    <3> DEFINE m == SetStatus(mem, Eligible(mem) \ ready, "Failed")
    <3>2. m \in Tables /\ Follows(mem, m, {})
      BY <1>1, SetStatusSets, SetStatusFollows DEF Statuses
    <3>3. mem' = SetStatus(m, ready, "Running")
      BY <3>1 DEF Marked
    <3> HIDE DEF m
    <3>4. Follows(m, mem', {})
      BY <3>2, <3>3, SetStatusFollows DEF Statuses
    <3> QED BY <3>2, <3>4 DEF Follows
  <2>3. CASE StartFails(r)
    BY <1>1, <2>3, SetStatusFollows DEF StartFails, Statuses
  <2> QED BY <2>1, <2>2, <2>3 DEF StartReturns, Finish
<1>4. Table' /\ Undisturbed
  BY <1>2, <1>3, TableKept, FollowingUndisturbed
<1>5. ASSUME NEW c \in SyncCall, runs' = [runs EXCEPT ![r] = c], (c.jobs # {}) = (c.at \in Busy),
             JobsKnown(c)'
      PROVE  TransfersInv'
  BY <1>2, <1>4, <1>5, CallGoesOn, ElsewhereKept
<1>6. \A at \in {"idle", "finishing"} :
        LET c == [at |-> at, jobs |-> {}]
        IN  c \in SyncCall /\ (c.jobs # {}) = (c.at \in Busy) /\ JobsKnown(c)'
  BY DEF SyncCall, Busy, JobsKnown
<1>7. CASE runs' = [runs EXCEPT ![r] = Idle]
  BY <1>5, <1>6, <1>7 DEF Idle
<1>8. CASE runs' = [runs EXCEPT ![r] = [at |-> "finishing", jobs |-> {}]]
  BY <1>5, <1>6, <1>8
<1>9. CASE StartReturns(r)
  <2>1. PICK c \in SyncCall : /\ c.jobs = runs[r].jobs /\ c.at = "sending"
                          /\ c = [runs[r] EXCEPT !.at = "sending"]
    <3>1. [runs[r] EXCEPT !.at = "sending"] \in SyncCall
      BY <1>1 DEF SyncCall
    <3> QED BY <1>1, <3>1 DEF SyncCall
  <2>2. runs' = [runs EXCEPT ![r] = c]
    BY <1>9, <2>1 DEF StartReturns
  <2>3. JobsKnown(c)'
    BY <1>9, <2>1 DEF StartReturns, Calls, JobsKnown
  <2>4. (c.jobs # {}) = (c.at \in Busy)
    BY <1>9, <2>1 DEF StartReturns, Calls, Busy
  <2> QED BY <1>5, <2>1, <2>2, <2>3, <2>4
<1>10. CASE Execute(r) /\ ~(runs' = [runs EXCEPT ![r] = Idle])
           /\ ~(runs' = [runs EXCEPT ![r] = [at |-> "finishing", jobs |-> {}]])
  <2>1. PICK ready \in SUBSET Eligible(mem) :
          /\ mem' = Marked(mem, ready) /\ db' = mem' /\ ready # {}
          /\ runs' = [runs EXCEPT ![r] = [at |-> "starting", jobs |-> ready]]
    BY <1>10 DEF Execute, ContinuesAfter, SaveIf
  <2> DEFINE c == [at |-> "starting", jobs |-> ready]
  <2>2. /\ ready \subseteq DOMAIN mem.rows /\ DOMAIN mem.rows \subseteq Ids
        /\ \A i \in ready : Here \in {mem.rows[i].from, mem.rows[i].to}
    BY <1>1, SyncAssumption DEF Eligible, Tables, Ids
  <2>3. c \in SyncCall /\ c.at \in Busy
    BY <2>2 DEF SyncCall, Busy
  <2>4. JobsKnown(c)'
    BY <1>4, <2>1, <2>2 DEF JobsKnown, Undisturbed
  <2> QED BY <1>5, <2>1, <2>3, <2>4
<1> QED BY <1>7, <1>8, <1>9, <1>10 DEF StartFails, Finish

\* The exchange: the bytes are stored and the answer is good, lost or bad.
LEMMA ExchangePreserves ==
  ASSUME TransfersInv, UNCHANGED disturbed, NEW r \in Runs,
         ExchangeFails(r) \/ PushStored(r) \/ PullStored(r)
  PROVE  TransfersInv'
<1> USE DEF TransfersInv
<1>1. mem \in Tables /\ held \subseteq Devices /\ runs[r].at = "sending"
  BY DEF Table, ExchangeFails, PushStored, PullStored
<1>2. \A i \in Ids : Current(r, i) => /\ i \in DOMAIN mem.rows
                                      /\ mem.rows[i] \in Transfer
                                      /\ Here \in {mem.rows[i].from, mem.rows[i].to}
  BY <1>1 DEF Calls, JobsKnown, Current, Tables
<1>3. CASE ExchangeFails(r)
  <2>1. UNCHANGED <<mem, db, held>> /\ Answered(r, FALSE)
    BY <1>3 DEF ExchangeFails
  <2>2. Table' /\ Undisturbed
    BY <1>1, <2>1, Untouched, TableKept, FollowingUndisturbed
  <2>3. Calls'
    BY <1>1, <2>1, <2>2, CallIsAnswered
  <2> QED BY <1>1, <2>1, <2>2, <2>3, ElsewhereKept
<1>4. CASE PushStored(r)
  <2>1. PICK i \in Ids : Current(r, i) /\ held' = held \cup {mem.rows[i].to}
    BY <1>4 DEF PushStored
  <2>2. PICK ok \in BOOLEAN : Answered(r, ok)
    BY <1>4 DEF PushStored
  <2>3. UNCHANGED <<mem, db>> /\ held \subseteq held' /\ held' \subseteq Devices
    BY <1>1, <1>2, <1>4, <2>1 DEF PushStored, Transfer, Devices
  <2>4. Table' /\ Undisturbed
    BY <1>1, <2>3, Untouched, TableKept, FollowingUndisturbed
  <2>5. \A j \in Ids : Current(r, j) => j = i
    BY <2>1 DEF Current, Ids
  <2>6. Calls'
    BY <1>1, <2>1, <2>2, <2>4, <2>5, CallIsAnswered
  <2> QED BY <2>3, <2>4, <2>6, ElsewhereKept
<1>5. CASE PullStored(r)
  <2>1. PICK i \in Ids : Current(r, i) /\ ~IsPush(mem, i)
                         /\ mem' = SetStatus(mem, {i}, "Completed")
    BY <1>5 DEF PullStored
  <2>2. db' = mem' /\ held' = held \cup {Here} /\ Answered(r, TRUE)
    BY <1>5 DEF PullStored
  <2>3. held \subseteq held' /\ held' \subseteq Devices
    BY <1>1, <2>2 DEF Devices
  <2>4. i \in DOMAIN mem.rows /\ mem.rows[i].to = Here
    BY <1>2, <2>1 DEF IsPush
  <2>5. Follows(mem, mem', {i})
    BY <1>1, <2>1, SetStatusFollows DEF Statuses
  <2>6. Table' /\ Undisturbed
    BY <2>2, <2>3, <2>4, <2>5, TableKept, FollowingUndisturbed
  <2>7. \A j \in Ids : Current(r, j) => j = i
    BY <2>1 DEF Current, Ids
  <2>8. Calls'
    BY <1>1, <2>2, <2>4, <2>6, <2>7, CallIsAnswered
  <2> QED BY <2>3, <2>6, <2>8, ElsewhereKept
<1> QED BY <1>3, <1>4, <1>5

\* The answer is recorded for the exchange it answers.
LEMMA RecordPreserves ==
  ASSUME TransfersInv, UNCHANGED disturbed, Record
  PROVE  TransfersInv'
<1> USE DEF TransfersInv
<1> DEFINE a == Head(answers)
           r == a.run
<1>1. /\ answers # <<>> /\ answers \in Seq(Answer) /\ answers' = Tail(answers) /\ held' = held
      /\ mem \in Tables /\ held \subseteq Devices
  BY DEF Record, Calls, Table
<1>2. /\ Len(answers) \in Nat \ {0} /\ a = answers[1] /\ 1 \in DOMAIN answers
      /\ a \in Answer /\ answers' \in Seq(Answer)
      /\ \A k \in DOMAIN answers' : k + 1 \in DOMAIN answers /\ answers'[k] = answers[k + 1]
                                    /\ k \in Nat \ {0}
  BY <1>1
<1>3. r \in Runs /\ a.ok \in BOOLEAN /\ runs[r].at = "answered" /\ Delivered(a)
  BY <1>2 DEF Answer, Calls
<1>4. PICK i \in Ids, ok \in BOOLEAN :
        /\ Current(r, i)
        /\ mem' = Recorded(mem, i, a.ok)
        /\ SaveIf(ok)
        /\ runs' = [runs EXCEPT ![r] =
              IF ~ok THEN Idle
              ELSE [at |-> IF runs[r].jobs = {i} THEN "finishing" ELSE "sending",
                    jobs |-> runs[r].jobs \ {i}]]
  BY DEF Record, SaveOutcomes
<1> HIDE DEF a, r
<1>5. i \in DOMAIN mem.rows /\ (a.ok => mem.rows[i].to \in held \cup {Here})
  BY <1>3, <1>4 DEF Calls, JobsKnown, Current, Delivered, r
<1>6. Follows(mem, mem', IF a.ok THEN {i} ELSE {})
  BY <1>1, <1>3, <1>4, <1>5, RecordedFollows
<1>7. Table' /\ Undisturbed
  BY <1>1, <1>4, <1>5, <1>6, TableKept, FollowingUndisturbed DEF SaveIf
<1>8. PICK c \in SyncCall : runs' = [runs EXCEPT ![r] = c] /\ (c.jobs # {}) = (c.at \in Busy)
                        /\ c.jobs \subseteq runs[r].jobs
  <2>1. runs[r] \in SyncCall /\ runs[r].jobs # {}
    BY <1>3 DEF Calls, Busy
  <2>2. CASE ~ok
    <3>1. Idle \in SyncCall /\ (Idle.jobs # {}) = (Idle.at \in Busy) /\ Idle.jobs = {}
      BY DEF Idle, SyncCall, Busy
    <3>2. runs' = [runs EXCEPT ![r] = Idle]
      BY <1>4, <2>2
    <3> QED BY <3>1, <3>2
  <2>3. CASE ok /\ runs[r].jobs = {i}
    <3> DEFINE c == [at |-> "finishing", jobs |-> {}]
    <3>1. c \in SyncCall /\ (c.jobs # {}) = (c.at \in Busy) /\ c.jobs = {}
      BY DEF SyncCall, Busy
    <3>2. runs' = [runs EXCEPT ![r] = c]
      BY <1>4, <2>3
    <3> QED BY <3>1, <3>2
  <2>4. CASE ok /\ runs[r].jobs # {i}
    <3> DEFINE c == [at |-> "sending", jobs |-> runs[r].jobs \ {i}]
    <3>1. c \in SyncCall /\ c.jobs # {} /\ c.at \in Busy /\ c.jobs \subseteq runs[r].jobs
      BY <1>4, <2>1, <2>4 DEF SyncCall, Busy, Current
    <3>2. runs' = [runs EXCEPT ![r] = c]
      BY <1>4, <2>4
    <3> QED BY <3>1, <3>2
  <2> QED BY <2>2, <2>3, <2>4
<1>9. /\ runs' \in [Runs -> SyncCall] /\ runs'[r] = c
      /\ \A q \in Runs \ {r} : runs'[q] = runs[q]
  BY <1>3, <1>8 DEF Calls
<1>10. \A q \in Runs : (runs'[q].jobs # {}) = (runs'[q].at \in Busy) /\ JobsKnown(runs[q])'
  BY <1>3, <1>7, <1>8, <1>9 DEF Calls, Undisturbed, JobsKnown
<1>11. ASSUME NEW k \in DOMAIN answers'
       PROVE  runs'[answers'[k].run].at = "answered" /\ Delivered(answers[k])'
  <2>1. /\ k + 1 \in DOMAIN answers /\ answers'[k] = answers[k + 1] /\ k + 1 # 1
    BY <1>2
  <2>2. /\ answers[k + 1] \in Answer /\ Delivered(answers[k + 1])
        /\ runs[answers[k + 1].run].at = "answered"
    BY <2>1 DEF Calls
  <2>3. answers[k + 1].run \in Runs \ {r}
    BY <1>2, <2>1, <2>2 DEF Calls, Answer, r
  <2>4. \A j \in Ids : Current(answers[k + 1].run, j) => j \in DOMAIN mem.rows
    BY <2>2 DEF Calls, JobsKnown, Current, Answer
  <2> QED BY <1>7, <1>9, <2>1, <2>2, <2>3, <2>4 DEF Delivered, Current, Undisturbed
<1>12. \A j, k \in DOMAIN answers' : answers'[j].run = answers'[k].run => j = k
  <2> TAKE j, k \in DOMAIN answers'
  <2>1. /\ j + 1 \in DOMAIN answers /\ answers'[j] = answers[j + 1] /\ j \in Nat
        /\ k + 1 \in DOMAIN answers /\ answers'[k] = answers[k + 1] /\ k \in Nat
    BY <1>2
  <2>2. answers[j + 1].run = answers[k + 1].run => j + 1 = k + 1
    BY <2>1 DEF Calls
  <2> QED BY <2>1, <2>2
<1>13. Calls'
  BY <1>2, <1>9, <1>10, <1>11, <1>12 DEF Calls
<1> QED BY <1>1, <1>7, <1>13, ElsewhereKept

\* The handlers that change one row, give the local chunks up, or start again.
LEMMA OthersPreserve ==
  ASSUME TransfersInv, UNCHANGED disturbed,
         Evict \/ Restart \/ \E i \in Ids : Retry(i) \/ Cancel(i)
  PROVE  TransfersInv'
<1> USE DEF TransfersInv
<1>1. mem \in Tables /\ db \in Tables /\ held \subseteq Devices
  BY DEF Table
<1>2. ASSUME NEW i \in Ids, Retry(i) \/ Cancel(i) PROVE TransfersInv'
  <2>1. /\ UNCHANGED <<held, runs, answers>> /\ (db' = mem' \/ db' = db)
        /\ \E status \in {"Pending", "Aborted"} : mem' = SetStatus(mem, {i}, status)
    BY <1>2 DEF Retry, Cancel, SaveIf, SaveOutcomes
  <2>2. Follows(mem, mem', {})
    BY <1>1, <2>1, SetStatusFollows DEF Statuses
  <2>3. Table' /\ Undisturbed
    BY <1>1, <2>1, <2>2, TableKept, FollowingUndisturbed
  <2>4. Calls'
    BY <2>1, <2>3, CallsUntouched
  <2> QED BY <1>1, <2>1, <2>3, <2>4, ElsewhereKept
<1>3. CASE Evict
  <2>1. /\ UNCHANGED <<mem, runs, answers>> /\ (db' = mem' \/ db' = db)
        /\ held' = held \ {Here} /\ Cardinality(Verified(mem)) >= MinReplicas
    BY <1>3 DEF Evict, SaveIf, SaveOutcomes, Protected
  <2>2. Table' /\ Undisturbed
    BY <1>1, <2>1, Untouched, TableKept, FollowingUndisturbed
  <2>3. Calls'
    BY <2>1, <2>2, CallsUntouched
  <2>4. Verified(mem) \subseteq held'
    BY <2>1, SyncAssumption DEF Table, VerifiedMeansStored, Verified, Healthy
  <2>5. IsFiniteSet(held')
    <3>1. IsFiniteSet(Devices)
      BY SyncAssumption, FS_AddElement DEF Devices
    <3> QED BY <1>1, <2>1, <3>1, FS_Subset
  <2>6. /\ Cardinality(Verified(mem)) <= Cardinality(held')
        /\ Cardinality(Verified(mem)) \in Nat /\ Cardinality(held') \in Nat
    BY <2>4, <2>5, FS_Subset, FS_CardinalityType
  <2>7. EvictedIsElsewhere'
    BY <2>1, <2>6, SyncAssumption DEF EvictedIsElsewhere
  <2> QED BY <2>2, <2>3, <2>7
<1>4. CASE Restart
  <2>1. /\ mem' = db /\ db' = db /\ held' = held /\ answers' = <<>>
        /\ runs' = [r \in Runs |-> Idle]
    BY <1>4 DEF Restart
  <2>2. Table'
    BY <2>1 DEF Table, VerifiedMeansStored, Named, Verified, Healthy
  <2>3. Calls'
    BY <2>1 DEF Calls, SyncCall, Idle, Busy, JobsKnown
  <2> QED BY <1>1, <2>1, <2>2, <2>3, ElsewhereKept
<1> QED BY <1>2, <1>3, <1>4

\* Every handler, every answer and every restart preserves the invariant.
LEMMA TransfersPreserved ==
  ASSUME TransfersInv, [Next]_<<vars, disturbed>>
  PROVE  TransfersInv'
<1>1. CASE UNCHANGED <<vars, disturbed>>
  BY <1>1 DEF vars, TransfersInv, Table, Calls, Named, Healthy, Verified, VerifiedMeansStored,
              JobsKnown, Delivered, Current, EvictedIsElsewhere
<1>2. CASE Next
  BY <1>2, QueueingPreserves, StartingPreserves, ExchangePreserves, RecordPreserves,
     OthersPreserve DEF Next, Step
<1> QED BY <1>1, <1>2

\* The inductive invariant holds in every state of the transfer table.
THEOREM TransfersInvariance == Spec => []TransfersInv
<1>1. Init => TransfersInv
  BY TransfersInitially
<1>2. TransfersInv /\ [Next]_<<vars, disturbed>> => TransfersInv'
  BY TransfersPreserved
<1> QED BY <1>1, <1>2, PTL DEF Spec

\* A replica that evict_local_asset counts is stored on its peer, and what
\* run_sync moves is a row that a restarted daemon finds, however calls
\* overlap, answers get lost and saves fail.
THEOREM RowsAreTrue == Spec => []RowsTellTheTruth
<1>1. TransfersInv => RowsTellTheTruth
  BY DEF TransfersInv, Table, Calls, JobsKnown, RowsTellTheTruth, InFlightIsRecorded
<1> QED BY <1>1, TransfersInvariance, PTL

\* After evict_local_asset has removed the local chunks, and as long as no pull
\* brings them back, the policy's number of other devices store the blob.
THEOREM EvictedStaysElsewhere == Spec => []EvictedIsElsewhere
<1>1. TransfersInv => EvictedIsElsewhere
  BY DEF TransfersInv
<1> QED BY <1>1, TransfersInvariance, PTL

-----------------------------------------------------------------------------
(* Completed transfers.  While one call is under way at a time, a row it     *)
(* has not answered for yet is completed only by the pull it waits for.      *)

\* Only the transfer whose good answer waits is completed already.
Unfinished ==
    Alone => \A r \in Runs : \A i \in runs[r].jobs :
        mem.rows[i].status = "Completed" =>
            \E k \in DOMAIN answers : answers[k].run = r /\ answers[k].ok /\ Current(r, i)

\* A call that waits for no answer has no completed transfer.
LEMMA NothingAnswered ==
  ASSUME TransfersInv, Unfinished, Alone, NEW r \in Runs, runs[r].at # "answered"
  PROVE  \A i \in runs[r].jobs : mem.rows[i].status # "Completed"
  BY DEF TransfersInv, Calls, Unfinished

\* A step that completes none of the call's transfers, and no answer is lost.
LEMMA UnfinishedKept ==
  ASSUME TransfersInv, Unfinished, UNCHANGED <<disturbed, answers>>, runs' \in [Runs -> SyncCall],
         NEW r \in Runs, runs[r].at # "answered",
         \A i \in runs'[r].jobs : mem'.rows[i].status = "Completed" =>
             i \in runs[r].jobs /\ mem.rows[i].status = "Completed"
  PROVE  Unfinished'
<1> SUFFICES ASSUME Alone PROVE \A q \in Runs : \A i \in runs'[q].jobs : mem'.rows[i].status # "Completed"
  BY DEF Unfinished, Alone
<1>1. \A q \in Runs : q = r
  BY DEF Alone
<1> QED BY <1>1, NothingAnswered

\* The rows of the calls are as they were, or are not completed.
LEMMA CallsUnfinished ==
  ASSUME TransfersInv, Unfinished, UNCHANGED <<disturbed, answers, runs>>,
         \A i \in DOMAIN mem.rows : mem'.rows[i].status = "Completed" =>
             mem.rows[i].status = "Completed"
  PROVE  Unfinished'
<1>1. \A r \in Runs : runs[r].jobs \subseteq DOMAIN mem.rows
  BY DEF TransfersInv, Calls, JobsKnown
<1> QED BY <1>1 DEF Unfinished, Alone, Current

\* A row is added to the table.
LEMMA QueueingFinishes ==
  ASSUME TransfersInv, TransfersInv', Unfinished, UNCHANGED disturbed, Pin \/ \E r \in Runs : Plan(r)
  PROVE  Unfinished' /\ CompletedStays
<1>1. mem' = mem \/ \E s, p \in Devices : mem' = Queued(mem, s, p)
  BY DEF Pin, Plan, Devices, Healthy, Sources, Local, Candidates
<1>2. mem.rows \in Seq(Transfer) /\ mem = [rows |-> mem.rows, replica |-> mem.replica]
  BY DEF TransfersInv, Table, Tables
<1>3. \A i \in DOMAIN mem.rows : mem'.rows[i] = mem.rows[i]
  <2>1. ASSUME NEW s \in Devices, NEW p \in Devices, mem' = Queued(mem, s, p)
        PROVE  \A i \in DOMAIN mem.rows : mem'.rows[i] = mem.rows[i]
    <3>1. mem'.rows = Append(mem.rows, [from |-> s, to |-> p, status |-> "Pending"])
      BY <1>2, <2>1 DEF Queued
    <3>2. [from |-> s, to |-> p, status |-> "Pending"] \in Transfer
      BY DEF Devices, Transfer, Statuses
    <3> QED BY <1>2, <3>1, <3>2
  <2> QED BY <1>1, <2>1
<1>4. CASE Pin
  BY <1>3, <1>4, CallsUnfinished DEF Pin, CompletedStays
<1>5. ASSUME NEW r \in Runs, Plan(r) PROVE Unfinished'
  <2>1. runs[r] = Idle /\ UNCHANGED answers /\ runs' \in [Runs -> SyncCall] /\ runs \in [Runs -> SyncCall]
    BY <1>5 DEF Plan, TransfersInv, Calls
  <2>2. runs'[r].jobs = {}
    BY <1>5, <2>1 DEF Plan, Idle
  <2>3. runs[r].at # "answered"
    BY <2>1 DEF Idle
  <2> QED BY <2>1, <2>2, <2>3, UnfinishedKept
<1> QED BY <1>3, <1>4, <1>5 DEF CompletedStays

\* A call starts transfers, or ends, or the answer of an exchange comes.
LEMMA StartingFinishes ==
  ASSUME TransfersInv, TransfersInv', Unfinished, UNCHANGED disturbed, NEW r \in Runs,
         Execute(r) \/ StartReturns(r) \/ StartFails(r) \/ Finish(r)
  PROVE  Unfinished' /\ (Alone => CompletedStays)
<1>1. /\ mem \in Tables /\ runs \in [Runs -> SyncCall] /\ runs' \in [Runs -> SyncCall]
      /\ runs[r].jobs \subseteq DOMAIN mem.rows
  BY DEF TransfersInv, Table, Calls, JobsKnown
<1>2. UNCHANGED answers /\ runs[r].at # "answered"
  BY DEF Execute, StartReturns, StartFails, Finish
<1>3. CASE StartReturns(r) \/ Finish(r)
  <2>1. mem' = mem
    BY <1>3 DEF StartReturns, Finish
  <2>2. CASE StartReturns(r)
    <3>1. runs'[r].jobs = runs[r].jobs
      BY <1>1, <2>2 DEF StartReturns, SyncCall
    <3> QED BY <1>1, <1>2, <2>1, <3>1, UnfinishedKept DEF CompletedStays
  <2>3. CASE Finish(r)
    <3>1. runs'[r].jobs = {}
      BY <1>1, <2>3 DEF Finish, Idle
    <3> QED BY <1>1, <1>2, <2>1, <3>1, UnfinishedKept DEF CompletedStays
  <2> QED BY <1>3, <2>2, <2>3
<1>4. CASE StartFails(r)
  <2>1. mem' = SetStatus(mem, runs[r].jobs, "Failed") /\ runs'[r].jobs = {}
    BY <1>1, <1>4 DEF StartFails, Idle
  <2>2. \A i \in DOMAIN mem.rows : mem'.rows[i].status =
          IF i \in runs[r].jobs THEN "Failed" ELSE mem.rows[i].status
    BY <1>1, <2>1, SetStatusSets DEF Statuses
  <2>3. Alone => CompletedStays
    BY <1>2, <2>2, NothingAnswered DEF CompletedStays
  <2> QED BY <1>1, <1>2, <2>1, <2>3, UnfinishedKept
<1>5. CASE Execute(r)
  <2>1. PICK ready \in SUBSET Eligible(mem) :
          /\ mem' = Marked(mem, ready)
          /\ runs'[r].jobs \subseteq ready
    BY <1>1, <1>5 DEF Execute, Idle
  <2> DEFINE m == SetStatus(mem, Eligible(mem) \ ready, "Failed")
  <2>2. /\ m \in Tables /\ DOMAIN m.rows = DOMAIN mem.rows
        /\ \A i \in DOMAIN mem.rows : m.rows[i].status =
              IF i \in Eligible(mem) \ ready THEN "Failed" ELSE mem.rows[i].status
    BY <1>1, SetStatusSets DEF Statuses
  <2>3. mem' = SetStatus(m, ready, "Running")
    BY <2>1 DEF Marked
  <2> HIDE DEF m
  <2>4. \A i \in DOMAIN mem.rows : mem'.rows[i].status =
          IF i \in ready THEN "Running" ELSE m.rows[i].status
    BY <2>2, <2>3, SetStatusSets DEF Statuses
  <2>5. \A i \in Eligible(mem) : i \in DOMAIN mem.rows /\ mem.rows[i].status = "Pending"
    BY DEF Eligible
  <2>6. CompletedStays
    BY <2>2, <2>4, <2>5 DEF CompletedStays
  <2>7. \A i \in runs'[r].jobs : mem'.rows[i].status # "Completed"
    BY <2>1, <2>4, <2>5
  <2> QED BY <1>1, <1>2, <2>6, <2>7, UnfinishedKept
<1> QED BY <1>3, <1>4, <1>5

\* The exchange ends; a pull has completed its row itself.
LEMMA ExchangeFinishes ==
  ASSUME TransfersInv, TransfersInv', Unfinished, UNCHANGED disturbed, NEW r \in Runs,
         ExchangeFails(r) \/ PushStored(r) \/ PullStored(r)
  PROVE  Unfinished' /\ CompletedStays
<1>1. /\ mem \in Tables /\ runs \in [Runs -> SyncCall] /\ runs' \in [Runs -> SyncCall]
      /\ runs[r].jobs \subseteq DOMAIN mem.rows /\ runs[r].at = "sending"
  BY DEF TransfersInv, Table, Calls, JobsKnown, ExchangeFails, PushStored, PullStored
<1>2. /\ runs'[r].jobs = runs[r].jobs
      /\ Alone => \A i \in runs[r].jobs : mem.rows[i].status # "Completed"
  BY <1>1, NothingAnswered DEF ExchangeFails, PushStored, PullStored, Answered, SyncCall
<1>3. CASE UNCHANGED mem
  <2>1. CompletedStays
    BY <1>3 DEF CompletedStays
  <2>2. Alone => \A q \in Runs : \A i \in runs'[q].jobs : mem'.rows[i].status # "Completed"
    BY <1>2, <1>3 DEF Alone
  <2>3. Alone' <=> Alone
    BY DEF Alone
  <2> QED BY <2>1, <2>2, <2>3 DEF Unfinished
<1>4. CASE PullStored(r)
  <2>1. PICK i \in Ids : Current(r, i) /\ mem' = SetStatus(mem, {i}, "Completed")
    BY <1>4 DEF PullStored
  <2>2. answers' = Append(answers, [run |-> r, ok |-> TRUE]) /\ answers \in Seq(Answer)
    BY <1>4 DEF PullStored, Answered, TransfersInv, Calls
  <2>3. \A j \in DOMAIN mem.rows : mem'.rows[j].status =
          IF j = i THEN "Completed" ELSE mem.rows[j].status
    BY <1>1, <2>1, SetStatusSets DEF Statuses
  <2>4. Current(r, i)'
    BY <1>2, <2>1 DEF Current
  <2>5. PICK k \in DOMAIN answers' : answers'[k] = [run |-> r, ok |-> TRUE]
    <3>1. [run |-> r, ok |-> TRUE] \in Answer
      BY DEF Answer
    <3> QED BY <2>2, <3>1
  <2>6. answers'[k].run = r /\ answers'[k].ok
    BY <2>5
  <2>7. Alone' => \A q \in Runs : \A j \in runs'[q].jobs : mem'.rows[j].status = "Completed" =>
          q = r /\ j = i
    BY <1>1, <1>2, <2>3 DEF Alone
  <2>8. Unfinished'
    BY <2>4, <2>6, <2>7 DEF Unfinished
  <2> QED BY <2>3, <2>8 DEF CompletedStays
<1> QED BY <1>3, <1>4 DEF ExchangeFails, PushStored

\* The answer is recorded: if it was bad, its row was not completed.
LEMMA RecordFinishes ==
  ASSUME TransfersInv, TransfersInv', Unfinished, UNCHANGED disturbed, Record
  PROVE  Unfinished' /\ (Alone => CompletedStays)
<1> DEFINE a == Head(answers)
           r == a.run
<1>1. /\ answers # <<>> /\ answers \in Seq(Answer)
      /\ mem \in Tables /\ runs \in [Runs -> SyncCall] /\ runs' \in [Runs -> SyncCall]
  BY DEF Record, TransfersInv, Calls, Table
<1>2. a = answers[1] /\ 1 \in DOMAIN answers /\ r \in Runs /\ a.ok \in BOOLEAN
  <2>1. Len(answers) \in Nat \ {0} /\ a = answers[1] /\ 1 \in DOMAIN answers
    BY <1>1
  <2>2. answers[1] \in Answer
    BY <1>1, <2>1
  <2> QED BY <2>1, <2>2 DEF Answer
<1>3. PICK i \in Ids, ok \in BOOLEAN :
        /\ Current(r, i)
        /\ mem' = Recorded(mem, i, a.ok)
        /\ runs' = [runs EXCEPT ![r] =
              IF ~ok THEN Idle
              ELSE [at |-> IF runs[r].jobs = {i} THEN "finishing" ELSE "sending",
                    jobs |-> runs[r].jobs \ {i}]]
  BY DEF Record, SaveOutcomes
<1>4. \A k \in DOMAIN answers : answers[k].run = r => k = 1
  BY <1>2 DEF TransfersInv, Calls
<1> HIDE DEF a, r
<1>5. runs[r].jobs \subseteq DOMAIN mem.rows /\ i \in runs[r].jobs /\ runs'[r].jobs \subseteq runs[r].jobs \ {i}
  BY <1>1, <1>2, <1>3 DEF TransfersInv, Calls, JobsKnown, Current, Idle
<1>6. \A j \in DOMAIN mem.rows : mem'.rows[j].status =
        IF j # i THEN mem.rows[j].status ELSE IF a.ok THEN "Completed" ELSE "Failed"
  <2>1. CASE a.ok
    <3>1. mem'.rows = SetStatus(mem, {i}, "Completed").rows
      <4>1. SetStatus(mem, {i}, "Completed") \in Tables
        BY <1>1, SetStatusSets DEF Statuses
      <4> QED BY <1>3, <2>1, <4>1 DEF Recorded, Tables
    <3> QED BY <1>1, <2>1, <3>1, SetStatusSets DEF Statuses
  <2>2. CASE ~a.ok
    BY <1>1, <1>3, <2>2, SetStatusSets DEF Recorded, Statuses
  <2> QED BY <2>1, <2>2
<1>7. ASSUME Alone, NEW j \in runs[r].jobs, mem.rows[j].status = "Completed"
      PROVE  j = i /\ a.ok
  <2>1. PICK k \in DOMAIN answers : answers[k].run = r /\ answers[k].ok /\ Current(r, j)
    BY <1>2, <1>7 DEF Unfinished
  <2>2. j = i
    <3>1. i <= j /\ j <= i /\ i \in Ids /\ j \in Ids
      BY <1>1, <1>2, <1>3, <2>1 DEF Current, SyncCall
    <3> QED BY <3>1 DEF Ids
  <2> QED BY <1>2, <1>4, <2>1, <2>2
<1>8. Alone => CompletedStays
  BY <1>5, <1>6, <1>7 DEF CompletedStays
<1>9. Alone => \A q \in Runs : \A j \in runs'[q].jobs : mem'.rows[j].status # "Completed"
  BY <1>2, <1>5, <1>6, <1>7 DEF Alone
<1>10. Alone' <=> Alone
  BY DEF Alone
<1> QED BY <1>8, <1>9, <1>10 DEF Unfinished

\* Retries, cancellations, evictions and restarts.
LEMMA OthersFinish ==
  ASSUME TransfersInv, TransfersInv', Unfinished, UNCHANGED disturbed,
         Evict \/ Restart \/ \E i \in Ids : Retry(i) \/ Cancel(i)
  PROVE  Unfinished' /\ (Alone => CompletedStays)
<1>1. mem \in Tables
  BY DEF TransfersInv, Table
<1>2. CASE Evict
  BY <1>2, CallsUnfinished DEF Evict, CompletedStays
<1>3. CASE Restart
  BY <1>3 DEF Restart, Alone, Unfinished
<1>4. ASSUME NEW i \in Ids, Retry(i) \/ Cancel(i) PROVE Unfinished' /\ CompletedStays
  <2>1. PICK status \in {"Pending", "Aborted"} : mem' = SetStatus(mem, {i}, status)
    BY <1>4 DEF Retry, Cancel
  <2>2. \A j \in DOMAIN mem.rows : mem'.rows[j].status = IF j = i THEN status ELSE mem.rows[j].status
    BY <1>1, <2>1, SetStatusSets DEF Statuses
  <2>3. mem.rows[i].status # "Completed" /\ UNCHANGED <<runs, answers>>
    BY <1>4 DEF Retry, Cancel, Retryable, Cancelable
  <2>4. CompletedStays
    BY <2>2, <2>3 DEF CompletedStays
  <2> QED BY <2>2, <2>3, <2>4, CallsUnfinished
<1> QED BY <1>2, <1>3, <1>4

\* While calls of run_sync do not overlap, nothing that is retried, canceled or
\* answered takes a transfer out of Completed.
THEOREM CompletedIsFinal == Spec => CompletedStaysAlone
<1>1. Init => Unfinished
  BY DEF Init, Unfinished, Idle
<1>2. TransfersInv /\ TransfersInv' /\ Unfinished /\ [Next]_<<vars, disturbed>> =>
        Unfinished' /\ [Alone => CompletedStays]_vars
  <2> SUFFICES ASSUME TransfersInv, TransfersInv', Unfinished, [Next]_<<vars, disturbed>>
               PROVE  Unfinished' /\ [Alone => CompletedStays]_vars
    OBVIOUS
  <2>1. CASE UNCHANGED <<vars, disturbed>>
    BY <2>1 DEF vars, Unfinished, Alone, Current
  <2>2. CASE Next
    BY <2>2, QueueingFinishes, StartingFinishes, ExchangeFinishes, RecordFinishes, OthersFinish
       DEF Next, Step
  <2> QED BY <2>1, <2>2
<1> QED BY <1>1, <1>2, TransfersInvariance, PTL DEF Spec, CompletedStaysAlone

-----------------------------------------------------------------------------
(* Theorems about PhoneStorage, for any number of phones, chunks and        *)
(* assignments: what the laptop believes of its phones is so.               *)
(*                                                                          *)
(* The argument.  A phone's replica becomes Healthy only by a report whose  *)
(* proof of possession was checked against the laptop's chunk files, and    *)
(* together with the status of its assignment (Honest).  A phone keeps its  *)
(* chunks, and no handler takes "Completed" from a row, so this stays so in *)
(* memory and in every earlier save; and eviction counts such phones only.  *)

\* A Healthy replica in the rows l.
Honest(l) ==
    \A p \in Phones : l.replica[p] # 0 =>
        /\ Accepts(l, p)
        /\ kept[p] = PhoneChunks
        /\ l.replica[p] \in DOMAIN l.rows
        /\ l.rows[l.replica[p]].to = p /\ l.rows[l.replica[p]].status = "Completed"

Full == {p \in Phones : kept[p] = PhoneChunks}

\* The inductive invariant.
PhonesInv ==
    /\ PhonesTypeOK
    /\ Honest(pool) /\ Honest(poolDb)
    /\ ~pool.located \/ ~poolDb.located => Cardinality(Full) >= WantedReplicas

\* Phones keep what they have.
ChunksStay == kept' \in [Phones -> SUBSET PhoneChunks] /\ \A p \in Phones : kept[p] \subseteq kept'[p]

-----------------------------------------------------------------------------
(* Rows. *)

\* The rows of q come after those of l: they keep their ends and their status
\* "Completed", and a failed or canceled row is at most pending again.
After(l, q) ==
    /\ q \in Pools /\ DOMAIN l.rows \subseteq DOMAIN q.rows
    /\ \A i \in DOMAIN l.rows :
          /\ q.rows[i].from = l.rows[i].from /\ q.rows[i].to = l.rows[i].to
          /\ l.rows[i].status = "Completed" => q.rows[i].status = "Completed"
          /\ l.rows[i].status \in {"Failed", "Aborted"} =>
                q.rows[i].status \in {"Failed", "Aborted", "Pending"}

SameButRows(l, q) ==
    q.profile = l.profile /\ q.active = l.active /\ q.replica = l.replica /\ q.located = l.located

\* Rows of the same number replace the rows of l.
LEMMA RowsReplaced ==
  ASSUME NEW l \in Pools, NEW rows, DOMAIN rows = DOMAIN l.rows,
         rows = [i \in DOMAIN l.rows |-> rows[i]],
         \A i \in DOMAIN l.rows : rows[i] \in Assignment
  PROVE  /\ [l EXCEPT !.rows = rows] \in Pools
         /\ SameButRows(l, [l EXCEPT !.rows = rows])
         /\ [l EXCEPT !.rows = rows].rows = rows
<1>1. l.rows \in Seq(Assignment) /\ Len(l.rows) <= MaxAssignments
  BY DEF Pools
<1>2. DOMAIN l.rows = 1 .. Len(l.rows) /\ Len(l.rows) \in Nat
  BY <1>1
<1>3. rows \in [1 .. Len(l.rows) -> Assignment]
  BY <1>2
<1>4. rows \in Seq(Assignment) /\ Len(rows) = Len(l.rows)
  BY <1>2, <1>3
<1> QED BY <1>1, <1>4 DEF Pools, SameButRows

Status == Waiting \cup {"Completed", "Failed", "Aborted"}

\* SetStatusOf changes the status of the rows it names and nothing else.
LEMMA StatusOfSets ==
  ASSUME NEW l \in Pools, NEW is, NEW status \in Status
  PROVE  LET q == SetStatusOf(l, is, status)
         IN  /\ q \in Pools /\ SameButRows(l, q) /\ DOMAIN q.rows = DOMAIN l.rows
             /\ \A i \in DOMAIN l.rows :
                   /\ q.rows[i].from = l.rows[i].from /\ q.rows[i].to = l.rows[i].to
                   /\ q.rows[i].status = IF i \in is THEN status ELSE l.rows[i].status
<1> DEFINE rows == [i \in DOMAIN l.rows |->
                      IF i \in is THEN [l.rows[i] EXCEPT !.status = status] ELSE l.rows[i]]
<1>1. \A i \in DOMAIN l.rows : l.rows[i] \in Assignment
  BY DEF Pools
<1>2. \A i \in DOMAIN l.rows :
        /\ rows[i] \in Assignment
        /\ rows[i].from = l.rows[i].from /\ rows[i].to = l.rows[i].to
        /\ rows[i].status = IF i \in is THEN status ELSE l.rows[i].status
  BY <1>1 DEF Assignment, Status
<1>3. DOMAIN rows = DOMAIN l.rows /\ rows = [i \in DOMAIN l.rows |-> rows[i]]
  OBVIOUS
<1>4. SetStatusOf(l, is, status) = [l EXCEPT !.rows = rows]
  BY DEF SetStatusOf
<1> HIDE DEF rows
<1>5. /\ [l EXCEPT !.rows = rows] \in Pools /\ SameButRows(l, [l EXCEPT !.rows = rows])
      /\ [l EXCEPT !.rows = rows].rows = rows
  BY <1>2, <1>3, RowsReplaced
<1> QED BY <1>2, <1>3, <1>4, <1>5

\* A new row is added at the end.
LEMMA RowAdded ==
  ASSUME NEW l \in Pools, NEW from \in {Laptop} \cup Phones, NEW to \in {Laptop} \cup Phones,
         Len(l.rows) < MaxAssignments
  PROVE  LET q == [l EXCEPT !.rows = Append(@, NewRow(from, to))]
         IN  After(l, q) /\ SameButRows(l, q)
<1> DEFINE rows == Append(l.rows, NewRow(from, to))
<1>1. l.rows \in Seq(Assignment)
  BY DEF Pools
<1>2. NewRow(from, to) \in Assignment
  BY DEF NewRow, Assignment, Waiting
<1>3. /\ rows \in Seq(Assignment) /\ Len(rows) <= MaxAssignments
      /\ DOMAIN l.rows \subseteq DOMAIN rows
      /\ \A i \in DOMAIN l.rows : rows[i] = l.rows[i]
  BY <1>1, <1>2, PhoneAssumption
<1> HIDE DEF rows
<1>4. /\ [l EXCEPT !.rows = rows] \in Pools /\ SameButRows(l, [l EXCEPT !.rows = rows])
      /\ [l EXCEPT !.rows = rows].rows = rows
  BY <1>3 DEF Pools, SameButRows
<1>5. After(l, [l EXCEPT !.rows = rows])
  BY <1>3, <1>4 DEF After
<1> QED BY <1>4, <1>5 DEF rows

-----------------------------------------------------------------------------
(* The invariant is inductive. *)

\* Rows that come after honest ones are honest while no replica is new and the
\* phones that have one are members that offer storage.
LEMMA AfterHonest ==
  ASSUME NEW l \in Pools, NEW q, After(l, q), Honest(l), ChunksStay,
         \A p \in Phones : q.replica[p] # 0 => q.replica[p] = l.replica[p] /\ Accepts(q, p)
  PROVE  \A p \in Phones : q.replica[p] # 0 =>
            /\ Accepts(q, p)
            /\ kept'[p] = PhoneChunks
            /\ q.replica[p] \in DOMAIN q.rows
            /\ q.rows[q.replica[p]].to = p /\ q.rows[q.replica[p]].status = "Completed"
<1> TAKE p \in Phones
<1> HAVE q.replica[p] # 0
<1>1. q.replica[p] = l.replica[p] /\ Accepts(q, p) /\ kept[p] = PhoneChunks
      /\ l.replica[p] \in DOMAIN l.rows
      /\ l.rows[l.replica[p]].to = p /\ l.rows[l.replica[p]].status = "Completed"
  BY DEF Honest
<1>2. kept'[p] = PhoneChunks
  BY <1>1 DEF ChunksStay
<1> QED BY <1>1, <1>2 DEF After

\* Phones that have the whole blob are not fewer later.
LEMMA FullStays ==
  ASSUME ChunksStay, Cardinality(Full) >= WantedReplicas
  PROVE  Cardinality(Full') >= WantedReplicas
<1>1. Full \subseteq Full' /\ Full' \subseteq Phones
  BY DEF Full, ChunksStay
<1>2. IsFiniteSet(Phones)
  BY PhoneAssumption, FS_Interval DEF Phones
<1>3. IsFiniteSet(Full') /\ Cardinality(Full) <= Cardinality(Full')
  BY <1>1, <1>2, FS_Subset
<1>4. Cardinality(Full) \in Nat /\ Cardinality(Full') \in Nat
  BY <1>1, <1>2, <1>3, FS_Subset, FS_CardinalityType
<1> QED BY <1>3, <1>4, PhoneAssumption

\* What every step but a lapse and a restart has to show.
Stepped ==
    /\ pool' \in Pools /\ Honest(pool)'
    /\ poolDb' = pool' \/ poolDb' = poolDb
    /\ ChunksStay /\ chunkFiles' \subseteq PhoneChunks
    /\ syncing' \in {"idle", "planned", "finishing"} /\ mishaps' \in 0 .. MaxMishaps
    /\ ~pool'.located => ~pool.located \/ Cardinality(Full) >= WantedReplicas

\* A save writes the rows or leaves the earlier ones, and phones lose nothing.
LEMMA SteppedPreserves ==
  ASSUME PhonesInv, Stepped
  PROVE  PhonesInv'
<1>1. Honest(poolDb)'
  <2>1. CASE poolDb' = pool'
    BY <2>1 DEF Stepped, Honest, Accepts
  <2>2. CASE poolDb' = poolDb
    <3>1. \A p \in Phones : kept[p] = PhoneChunks => kept'[p] = PhoneChunks
      BY DEF Stepped, ChunksStay
    <3> QED BY <2>2, <3>1 DEF PhonesInv, Honest, Accepts
  <2> QED BY <2>1, <2>2 DEF Stepped
<1>2. ~pool'.located \/ ~poolDb'.located => Cardinality(Full') >= WantedReplicas
  BY FullStays DEF PhonesInv, Stepped
<1> QED BY <1>1, <1>2 DEF PhonesInv, Stepped, PhonesTypeOK, ChunksStay

\* A handler that changes the rows as After says, and no replica.
LEMMA RowsStepped ==
  ASSUME PhonesInv, After(pool, pool'), SameButRows(pool, pool'), NEW ok \in BOOLEAN, Persists(ok),
         ChunksStay, chunkFiles' \subseteq PhoneChunks, syncing' \in {"idle", "planned", "finishing"}
  PROVE  Stepped
<1>1. pool \in Pools /\ Honest(pool) /\ mishaps \in 0 .. MaxMishaps
  BY DEF PhonesInv, PhonesTypeOK
<1>2. \A p \in Phones : pool'.replica[p] # 0 =>
          pool'.replica[p] = pool.replica[p] /\ Accepts(pool', p)
  BY <1>1 DEF SameButRows, Honest, Accepts
<1>3. \A p \in Phones : pool'.replica[p] # 0 =>
            /\ Accepts(pool', p)
            /\ kept'[p] = PhoneChunks
            /\ pool'.replica[p] \in DOMAIN pool'.rows
            /\ pool'.rows[pool'.replica[p]].to = p
            /\ pool'.rows[pool'.replica[p]].status = "Completed"
  BY <1>1, <1>2, AfterHonest
<1>4. Honest(pool)'
  BY <1>3 DEF Honest, Accepts
<1>5. mishaps' \in 0 .. MaxMishaps /\ (poolDb' = pool' \/ poolDb' = poolDb)
  BY <1>1, PhoneAssumption DEF Persists
<1> QED BY <1>4, <1>5 DEF Stepped, After, SameButRows

\* A table comes after itself.
LEMMA Unchanged ==
  ASSUME NEW l \in Pools
  PROVE  After(l, l) /\ SameButRows(l, l)
  BY DEF After, SameButRows

\* A status that no completed row gets, and that no failed or canceled row gets
\* unless it is "Pending".
LEMMA StatusAfter ==
  ASSUME NEW l \in Pools, NEW is, NEW status \in Status,
         \A i \in is : /\ l.rows[i].status = "Completed" => status = "Completed"
                       /\ l.rows[i].status \in {"Failed", "Aborted"} =>
                             status \in {"Failed", "Aborted", "Pending"}
  PROVE  After(l, SetStatusOf(l, is, status)) /\ SameButRows(l, SetStatusOf(l, is, status))
  BY StatusOfSets DEF After

\* update_mobile_storage_profile and revoke_device take replicas away.
LEMMA WithdrawingStepped ==
  ASSUME PhonesInv, NEW p \in Phones, NEW q,
         \/ \E profile \in {"off", "paused", "on"} : q = Profiled(pool, p, profile)
         \/ q = [pool EXCEPT !.active = @ \ {p}, !.replica[p] = 0],
         pool' = q, NEW ok \in BOOLEAN, Answers(ok)
  PROVE  Stepped /\ After(pool, pool')
<1>1. pool \in Pools /\ Honest(pool) /\ mishaps \in 0 .. MaxMishaps
  BY DEF PhonesInv, PhonesTypeOK
<1>2. /\ q \in Pools /\ q.rows = pool.rows /\ q.located = pool.located
      /\ \A r \in Phones : q.replica[r] # 0 => q.replica[r] = pool.replica[r] /\ Accepts(q, r)
  <2>1. CASE q = [pool EXCEPT !.active = @ \ {p}, !.replica[p] = 0]
    <3>1. /\ q \in Pools /\ q.rows = pool.rows /\ q.located = pool.located
          /\ q.replica = [pool.replica EXCEPT ![p] = 0]
          /\ q.active = pool.active \ {p} /\ q.profile = pool.profile
      <4> DEFINE active == pool.active \ {p}
                 replica == [pool.replica EXCEPT ![p] = 0]
      <4>1. active \in SUBSET Phones /\ replica \in [Phones -> 0 .. MaxAssignments]
        BY <1>1, PhoneAssumption DEF Pools
      <4>2. q = [pool EXCEPT !.active = active, !.replica = replica]
        BY <2>1
      <4> HIDE DEF active, replica
      <4>3. /\ q \in Pools /\ q.rows = pool.rows /\ q.located = pool.located
            /\ q.replica = replica /\ q.active = active /\ q.profile = pool.profile
        BY <1>1, <4>1, <4>2 DEF Pools
      <4> QED BY <4>3 DEF active, replica
    <3>2. \A r \in Phones : q.replica[r] = IF r = p THEN 0 ELSE pool.replica[r]
      BY <1>1, <3>1 DEF Pools
    <3> QED BY <1>1, <3>1, <3>2 DEF Honest, Accepts
  <2>2. ASSUME NEW profile \in {"off", "paused", "on"}, q = Profiled(pool, p, profile)
        PROVE  /\ q \in Pools /\ q.rows = pool.rows /\ q.located = pool.located
               /\ \A r \in Phones : q.replica[r] # 0 =>
                     q.replica[r] = pool.replica[r] /\ Accepts(q, r)
    <3> DEFINE n == IF profile = "off" THEN 0 ELSE pool.replica[p]
    <3>1. n \in 0 .. MaxAssignments
      BY <1>1, PhoneAssumption DEF Pools
    <3>2. q = [pool EXCEPT !.profile[p] = profile, !.replica[p] = n]
      BY <2>2 DEF Profiled
    <3>3. /\ q \in Pools /\ q.rows = pool.rows /\ q.located = pool.located
          /\ q.replica = [pool.replica EXCEPT ![p] = n]
          /\ q.profile = [pool.profile EXCEPT ![p] = profile] /\ q.active = pool.active
      BY <1>1, <3>1, <3>2 DEF Pools
    <3>4. \A r \in Phones : /\ q.replica[r] = IF r = p THEN n ELSE pool.replica[r]
                            /\ q.profile[r] = IF r = p THEN profile ELSE pool.profile[r]
      BY <1>1, <3>3 DEF Pools
    <3> QED BY <1>1, <3>3, <3>4 DEF Honest, Accepts
  <2> QED BY <2>1, <2>2
<1>3. After(pool, q) /\ ChunksStay
  BY <1>1, <1>2 DEF After, Answers, ChunksStay, PhonesInv, PhonesTypeOK
<1>4. \A r \in Phones : pool'.replica[r] # 0 =>
            /\ Accepts(pool', r)
            /\ kept'[r] = PhoneChunks
            /\ pool'.replica[r] \in DOMAIN pool'.rows
            /\ pool'.rows[pool'.replica[r]].to = r
            /\ pool'.rows[pool'.replica[r]].status = "Completed"
  BY <1>1, <1>2, <1>3, AfterHonest
<1>5. Honest(pool)'
  BY <1>4 DEF Honest, Accepts
<1>6. mishaps' \in 0 .. MaxMishaps /\ (poolDb' = pool' \/ poolDb' = poolDb)
  BY <1>1, PhoneAssumption DEF Answers, Persists
<1> QED BY <1>2, <1>3, <1>5, <1>6 DEF Stepped, Answers, PhonesInv, PhonesTypeOK

\* The requests of a phone that change rows or files, not replicas.
LEMMA RequestStepped ==
  ASSUME PhonesInv, NEW p \in Phones,
         \/ mobile_storage_plan(p)
         \/ \E c \in PhoneChunks : \/ mobile_replica_chunk_bytes(p, c)
                                   \/ restore_mobile_replica_chunk(p, c)
  PROVE  Stepped /\ After(pool, pool')
<1> USE DEF PhonesInv, PhonesTypeOK
<1>1. CASE mobile_storage_plan(p)
  <2>1. PICK ok \in BOOLEAN : Answers(ok)
    BY <1>1 DEF mobile_storage_plan
  <2>2. After(pool, pool') /\ SameButRows(pool, pool')
    BY <1>1, RowAdded, Unchanged DEF mobile_storage_plan
  <2> QED BY <2>1, <2>2, RowsStepped DEF Answers, ChunksStay
<1>2. ASSUME NEW c \in PhoneChunks, mobile_replica_chunk_bytes(p, c)
      PROVE  Stepped /\ After(pool, pool')
  <2>1. PICK i \in Open(pool, p) : pool' = SetStatusOf(pool, {i}, "Running")
    BY <1>2 DEF mobile_replica_chunk_bytes
  <2>2. After(pool, pool') /\ SameButRows(pool, pool')
    BY <2>1, StatusAfter DEF Open, Waiting, Status
  <2>3. PICK ok \in BOOLEAN, received \in BOOLEAN :
          /\ Persists(ok)
          /\ kept' = IF ok /\ received THEN [kept EXCEPT ![p] = @ \cup {c}] ELSE kept
    BY <1>2 DEF mobile_replica_chunk_bytes
  <2>4. ChunksStay
    BY <2>3 DEF ChunksStay
  <2> QED BY <1>2, <2>2, <2>3, <2>4, RowsStepped DEF mobile_replica_chunk_bytes
<1>3. ASSUME NEW c \in PhoneChunks, restore_mobile_replica_chunk(p, c)
      PROVE  Stepped /\ After(pool, pool')
  <2>1. PICK ok \in BOOLEAN : Persists(ok)
    BY <1>3 DEF restore_mobile_replica_chunk
  <2>2. UNCHANGED <<pool, kept, syncing>> /\ chunkFiles' \subseteq PhoneChunks
    BY <1>3 DEF restore_mobile_replica_chunk
  <2> QED BY <2>1, <2>2, Unchanged, RowsStepped DEF ChunksStay
<1> QED BY <1>1, <1>2, <1>3

\* The report: possession is proven for every chunk.
LEMMA ReportStepped ==
  ASSUME PhonesInv, NEW p \in Phones, NEW i \in Assignments, report_mobile_replica(p, i)
  PROVE  Stepped /\ After(pool, pool')
<1> DEFINE m == SetStatusOf(pool, {i}, "Completed")
           q == [m EXCEPT !.replica[p] = i]
<1>1. /\ pool \in Pools /\ Honest(pool) /\ mishaps \in 0 .. MaxMishaps
      /\ kept \in [Phones -> SUBSET PhoneChunks]
      /\ syncing \in {"idle", "planned", "finishing"} /\ chunkFiles \subseteq PhoneChunks
  BY DEF PhonesInv, PhonesTypeOK
<1>2. PICK ok \in BOOLEAN : Answers(ok)
  BY DEF report_mobile_replica
<1>3. /\ Accepts(pool, p) /\ kept[p] = PhoneChunks /\ Reportable(pool, p, i) /\ pool' = q
  BY DEF report_mobile_replica, PossessionProven
<1>4. /\ i \in DOMAIN pool.rows /\ pool.rows[i].to = p
      /\ pool.rows[i].status \notin {"Failed", "Aborted"}
  BY <1>3 DEF Reportable, Open, Waiting
<1>5. /\ m \in Pools /\ SameButRows(pool, m) /\ After(pool, m) /\ m.rows[i].status = "Completed"
      /\ DOMAIN m.rows = DOMAIN pool.rows /\ m.rows[i].to = p
  BY <1>1, <1>4, StatusAfter, StatusOfSets DEF Status
<1>6. i \in 0 .. MaxAssignments
  BY PhoneAssumption DEF Assignments
<1> HIDE DEF m
<1>7. /\ q \in Pools /\ q.rows = m.rows /\ q.replica = [m.replica EXCEPT ![p] = i]
      /\ q.located = m.located /\ q.active = m.active /\ q.profile = m.profile
  BY <1>5, <1>6 DEF Pools
<1>8. \A r \in Phones : q.replica[r] = IF r = p THEN i ELSE pool.replica[r]
  BY <1>1, <1>5, <1>7 DEF Pools, SameButRows
<1> HIDE DEF q
<1>9. After(pool, q)
  BY <1>5, <1>7 DEF After
<1>10. UNCHANGED <<chunkFiles, kept, syncing>> /\ mishaps' \in 0 .. MaxMishaps
       /\ (poolDb' = pool' \/ poolDb' = poolDb)
  BY <1>1, <1>2, PhoneAssumption DEF Answers, Persists
<1>11. ASSUME NEW r \in Phones, q.replica[r] # 0
       PROVE  /\ Accepts(q, r) /\ kept[r] = PhoneChunks /\ q.replica[r] \in DOMAIN q.rows
              /\ q.rows[q.replica[r]].to = r /\ q.rows[q.replica[r]].status = "Completed"
  <2>1. CASE r = p
    BY <1>3, <1>4, <1>5, <1>7, <1>8, <2>1 DEF Accepts, SameButRows
  <2>2. CASE r # p
    <3>1. pool.replica[r] # 0 /\ q.replica[r] = pool.replica[r]
      BY <1>8, <1>11, <2>2
    <3>2. Accepts(pool, r) /\ kept[r] = PhoneChunks /\ pool.replica[r] \in DOMAIN pool.rows
          /\ pool.rows[pool.replica[r]].to = r /\ pool.rows[pool.replica[r]].status = "Completed"
      BY <1>1, <3>1 DEF Honest
    <3> QED BY <1>5, <1>7, <1>9, <3>1, <3>2 DEF Accepts, SameButRows, After
  <2> QED BY <2>1, <2>2
<1>12. Honest(pool)'
  BY <1>3, <1>10, <1>11 DEF Honest, Accepts
<1> QED BY <1>1, <1>3, <1>5, <1>7, <1>9, <1>10, <1>12 DEF Stepped, ChunksStay, SameButRows

\* run_sync, retry, cancel, and a chunk file that gets lost.
LEMMA LaptopStepped ==
  ASSUME PhonesInv,
         \/ SyncPlans \/ SyncExecutes \/ SyncFinishes
         \/ \E i \in Assignments : retry_sync_transfer(i) \/ cancel_sync_transfer(i)
  PROVE  Stepped /\ After(pool, pool')
<1> USE DEF PhonesInv, PhonesTypeOK
<1>1. CASE SyncPlans
  <2>1. PICK ok \in BOOLEAN : Persists(ok) /\ syncing' = IF ok THEN "planned" ELSE "idle"
    BY <1>1 DEF SyncPlans
  <2>2. SyncSources(pool) \subseteq {Laptop} \cup Phones /\ Lacking(pool) \subseteq {Laptop} \cup Phones
    BY DEF SyncSources, Lacking, HealthyPhones, Pools
  <2>3. After(pool, pool') /\ SameButRows(pool, pool')
    <3>1. CASE pool' = pool
      BY <3>1, Unchanged
    <3>2. CASE pool' # pool
      <4>1. PICK d \in Lacking(pool), s \in SyncSources(pool) :
              pool' = [pool EXCEPT !.rows = Append(@, NewRow(s, d))]
        BY <1>1, <3>2 DEF SyncPlans
      <4>2. Len(pool.rows) < MaxAssignments
        BY <1>1, <3>2 DEF SyncPlans
      <4>3. s \in {Laptop} \cup Phones /\ d \in {Laptop} \cup Phones
        BY <2>2
      <4> QED BY <4>1, <4>2, <4>3, RowAdded
    <3> QED BY <3>1, <3>2
  <2> QED BY <1>1, <2>1, <2>3, RowsStepped DEF SyncPlans, ChunksStay
<1>2. CASE SyncExecutes
  <2>1. PICK ok \in BOOLEAN : Persists(ok) /\ syncing' = IF ok THEN "finishing" ELSE "idle"
    BY <1>2 DEF SyncExecutes
  <2>2. After(pool, pool') /\ SameButRows(pool, pool')
    BY <1>2, StatusAfter DEF SyncExecutes, Executable, Status
  <2> QED BY <1>2, <2>1, <2>2, RowsStepped DEF SyncExecutes, ChunksStay
<1>3. CASE SyncFinishes
  <2>1. PICK ok \in BOOLEAN : Persists(ok)
    BY <1>3 DEF SyncFinishes
  <2> QED BY <1>3, <2>1, Unchanged, RowsStepped DEF SyncFinishes, ChunksStay
<1>4. ASSUME NEW i \in Assignments, cancel_sync_transfer(i) PROVE Stepped /\ After(pool, pool')
  <2>1. PICK ok \in BOOLEAN : Answers(ok)
    BY <1>4 DEF cancel_sync_transfer
  <2>2. After(pool, pool') /\ SameButRows(pool, pool')
    BY <1>4, StatusAfter DEF cancel_sync_transfer, Status
  <2> QED BY <2>1, <2>2, RowsStepped DEF Answers, ChunksStay
<1>5. ASSUME NEW i \in Assignments, retry_sync_transfer(i) PROVE Stepped /\ After(pool, pool')
  <2>1. PICK ok \in BOOLEAN : Answers(ok)
    BY <1>5 DEF retry_sync_transfer
  <2>2. i \in DOMAIN pool.rows /\ pool.rows[i].status # "Completed"
        /\ pool' = [pool EXCEPT !.rows[i].status = "Pending", !.rows[i].late = FALSE]
    BY <1>5 DEF retry_sync_transfer
  <2>3. pool.rows[i] \in Assignment
    BY <2>2 DEF Pools
  <2> DEFINE row == [pool.rows[i] EXCEPT !.status = "Pending", !.late = FALSE]
             rows == [pool.rows EXCEPT ![i] = row]
  <2>4. pool' = [pool EXCEPT !.rows = rows]
    BY <2>2 DEF Pools
  <2>5. /\ row \in Assignment /\ row.from = pool.rows[i].from /\ row.to = pool.rows[i].to
        /\ row.status = "Pending"
    BY <2>3 DEF Assignment, Waiting
  <2> HIDE DEF row
  <2>6. /\ DOMAIN rows = DOMAIN pool.rows /\ rows = [j \in DOMAIN pool.rows |-> rows[j]]
        /\ \A j \in DOMAIN pool.rows : rows[j] = IF j = i THEN row ELSE pool.rows[j]
    BY <2>2 DEF Pools
  <2> HIDE DEF rows
  <2>7. \A j \in DOMAIN pool.rows : rows[j] \in Assignment
    <3>1. \A j \in DOMAIN pool.rows : pool.rows[j] \in Assignment
      BY DEF Pools
    <3> QED BY <2>5, <2>6, <3>1
  <2>8. pool' \in Pools /\ SameButRows(pool, pool') /\ pool'.rows = rows
    BY <2>4, <2>6, <2>7, RowsReplaced
  <2>9. After(pool, pool')
    BY <2>2, <2>5, <2>6, <2>8 DEF After
  <2> QED BY <2>1, <2>8, <2>9, RowsStepped DEF Answers, ChunksStay
<1> QED BY <1>1, <1>2, <1>3, <1>4, <1>5

\* evict_local_asset counts phones that have the whole blob.
LEMMA EvictStepped ==
  ASSUME PhonesInv, evict_local_asset
  PROVE  Stepped /\ After(pool, pool')
<1> USE DEF PhonesInv, PhonesTypeOK
<1>1. PICK ok \in BOOLEAN : Persists(ok)
  BY DEF evict_local_asset
<1>2. /\ pool' = [pool EXCEPT !.located = FALSE] /\ UNCHANGED <<kept, syncing>>
      /\ chunkFiles' \subseteq PhoneChunks /\ Cardinality(VerifiedPhones(pool)) >= WantedReplicas
  BY DEF evict_local_asset
<1>3. /\ pool' \in Pools /\ pool'.rows = pool.rows /\ pool'.replica = pool.replica
      /\ pool'.active = pool.active /\ pool'.profile = pool.profile
  BY <1>2 DEF Pools
<1>4. Honest(pool)' /\ After(pool, pool') /\ ChunksStay
  BY <1>2, <1>3 DEF Honest, Accepts, After, ChunksStay
<1>5. mishaps' \in 0 .. MaxMishaps /\ (poolDb' = pool' \/ poolDb' = poolDb)
  BY <1>1, PhoneAssumption DEF Persists
<1>6. Cardinality(Full) >= WantedReplicas
  <2>1. VerifiedPhones(pool) \subseteq Full /\ Full \subseteq Phones
    BY DEF VerifiedPhones, HealthyPhones, Honest, Full, Pools
  <2>2. IsFiniteSet(Phones)
    BY PhoneAssumption, FS_Interval DEF Phones
  <2>3. IsFiniteSet(Full) /\ Cardinality(VerifiedPhones(pool)) <= Cardinality(Full)
    BY <2>1, <2>2, FS_Subset
  <2>4. Cardinality(VerifiedPhones(pool)) \in Nat /\ Cardinality(Full) \in Nat
    BY <2>1, <2>2, <2>3, FS_Subset, FS_CardinalityType
  <2> QED BY <1>2, <2>3, <2>4, PhoneAssumption
<1> QED BY <1>2, <1>3, <1>4, <1>5, <1>6 DEF Stepped

\* A row that lapses lapses in the database too.
LEMMA LapsePreserves ==
  ASSUME PhonesInv, NEW i \in Assignments, Lapse(i)
  PROVE  PhonesInv' /\ After(pool, pool')
<1> USE DEF PhonesInv, PhonesTypeOK
<1>1. ASSUME NEW l \in Pools, i \in DOMAIN l.rows
      PROVE  LET q == [l EXCEPT !.rows[i].late = TRUE]
             IN  q \in Pools /\ SameButRows(l, q) /\ After(l, q)
  <2> DEFINE row == [l.rows[i] EXCEPT !.late = TRUE]
             rows == [l.rows EXCEPT ![i] = row]
  <2>1. \A j \in DOMAIN l.rows : l.rows[j] \in Assignment
    BY <1>1 DEF Pools
  <2>2. /\ row \in Assignment /\ row.from = l.rows[i].from /\ row.to = l.rows[i].to
        /\ row.status = l.rows[i].status
    BY <1>1, <2>1 DEF Assignment
  <2> HIDE DEF row
  <2>3. /\ DOMAIN rows = DOMAIN l.rows /\ rows = [j \in DOMAIN l.rows |-> rows[j]]
        /\ \A j \in DOMAIN l.rows : rows[j] = IF j = i THEN row ELSE l.rows[j]
    BY <1>1 DEF Pools
  <2> HIDE DEF rows
  <2>4. \A j \in DOMAIN l.rows : rows[j] \in Assignment
    BY <2>1, <2>2, <2>3
  <2> DEFINE q == [l EXCEPT !.rows = rows]
  <2>5. q \in Pools /\ SameButRows(l, q) /\ q.rows = rows
    BY <2>3, <2>4, RowsReplaced
  <2>6. After(l, q)
    BY <2>2, <2>3, <2>5 DEF After
  <2>7. q = [l EXCEPT !.rows[i].late = TRUE]
    BY DEF rows, row
  <2> QED BY <2>5, <2>6, <2>7
<1>2. /\ pool' \in Pools /\ SameButRows(pool, pool') /\ After(pool, pool')
      /\ poolDb' \in Pools /\ SameButRows(poolDb, poolDb') /\ After(poolDb, poolDb')
  BY <1>1, Unchanged DEF Lapse
<1>3. UNCHANGED <<chunkFiles, kept, syncing, mishaps>> /\ ChunksStay
  BY DEF Lapse, ChunksStay
<1>4. Honest(pool)'
  BY <1>2, <1>3 DEF Honest, SameButRows, After, Accepts
<1>5. Honest(poolDb)'
  BY <1>2, <1>3 DEF Honest, SameButRows, After, Accepts
<1> QED BY <1>2, <1>3, <1>4, <1>5 DEF SameButRows, Full

\* A restart reads the rows as they were saved, and a chunk file may get lost.
LEMMA RestartPreserves ==
  ASSUME PhonesInv, RestartLaptop \/ \E c \in PhoneChunks : LoseChunkFile(c)
  PROVE  PhonesInv' /\ (pool' = poolDb \/ After(pool, pool'))
<1> USE DEF PhonesInv, PhonesTypeOK
<1>1. CASE RestartLaptop
  <2>1. pool' = poolDb /\ syncing' = "idle" /\ UNCHANGED <<poolDb, chunkFiles, kept, mishaps>>
    BY <1>1 DEF RestartLaptop
  <2>2. Honest(pool)' /\ Honest(poolDb)'
    BY <2>1 DEF Honest, Accepts
  <2> QED BY <2>1, <2>2 DEF Full
<1>2. CASE \E c \in PhoneChunks : LoseChunkFile(c)
  <2>1. /\ UNCHANGED <<pool, poolDb, kept, syncing>> /\ chunkFiles' \subseteq PhoneChunks
        /\ mishaps' \in 0 .. MaxMishaps
    BY <1>2, PhoneAssumption DEF LoseChunkFile
  <2>2. Honest(pool)' /\ Honest(poolDb)'
    BY <2>1 DEF Honest, Accepts
  <2> QED BY <2>1, <2>2, Unchanged DEF Full
<1> QED BY <1>1, <1>2

\* It holds before any phone has offered storage.
LEMMA PhonesInitially == PhonesInit => PhonesInv
<1> SUFFICES ASSUME PhonesInit PROVE PhonesInv
  OBVIOUS
<1>1. /\ pool = [profile |-> [p \in Phones |-> "off"], active |-> Phones, rows |-> <<>>,
                 replica |-> [p \in Phones |-> 0], located |-> TRUE]
      /\ poolDb = pool /\ chunkFiles = PhoneChunks /\ kept = [p \in Phones |-> {}]
      /\ syncing = "idle" /\ mishaps = 0
  BY DEF PhonesInit
<1>2. pool \in Pools
  BY <1>1, PhoneAssumption DEF Pools
<1>3. \A p \in Phones : pool.replica[p] = 0
  BY <1>1
<1>4. Honest(pool) /\ Honest(poolDb)
  BY <1>1, <1>3 DEF Honest
<1>5. mishaps \in 0 .. MaxMishaps
  BY <1>1, PhoneAssumption
<1> QED BY <1>1, <1>2, <1>4, <1>5 DEF PhonesInv, PhonesTypeOK

\* Every request, every step of the laptop and every mishap preserves the
\* invariant and revives no transfer.
LEMMA PhonesPreserved ==
  ASSUME PhonesInv, PhonesNext
  PROVE  PhonesInv' /\ (pool' = poolDb \/ After(pool, pool'))
<1>1. ASSUME NEW p \in Phones, PhoneRequest(p) \/ revoke_device(p)
      PROVE  Stepped /\ After(pool, pool')
  <2>1. CASE revoke_device(p)
    BY <2>1, WithdrawingStepped DEF revoke_device
  <2>2. ASSUME NEW profile \in {"off", "paused", "on"}, update_mobile_storage_profile(p, profile)
        PROVE  Stepped /\ After(pool, pool')
    BY <2>2, WithdrawingStepped DEF update_mobile_storage_profile
  <2>3. ASSUME NEW i \in Assignments, report_mobile_replica(p, i)
        PROVE  Stepped /\ After(pool, pool')
    BY <2>3, ReportStepped
  <2> QED BY <1>1, <2>1, <2>2, <2>3, RequestStepped DEF PhoneRequest
<1> QED BY <1>1, SteppedPreserves, LaptopStepped, EvictStepped, LapsePreserves, RestartPreserves
        DEF PhonesNext

\* The inductive invariant holds in every state.
THEOREM PhonesInvariance == PhonesSpec => []PhonesInv
<1>1. PhonesInit => PhonesInv
  BY PhonesInitially
<1>2. PhonesInv /\ [PhonesNext]_phoneVars => PhonesInv'
  <2>1. ASSUME PhonesInv, UNCHANGED phoneVars PROVE PhonesInv'
    BY <2>1 DEF phoneVars, PhonesInv, PhonesTypeOK, Honest, Accepts, Full
  <2> QED BY <2>1, PhonesPreserved
<1> QED BY <1>1, <1>2, PTL DEF PhonesSpec

\* The rows, the chunk files and the phones are what the code stores there.
THEOREM PhonesTypes == PhonesSpec => []PhonesTypeOK
<1>1. PhonesInv => PhonesTypeOK
  BY DEF PhonesInv
<1> QED BY <1>1, PhonesInvariance, PTL

\* In every step: a replica that report_mobile_replica made Healthy is whole on
\* a phone that is a member and offers storage; what evict_local_asset gave up
\* is on the policy's number of phones; and a canceled or failed assignment is
\* revived by a retry only.
THEOREM PhonesTellTheTruth == PhonesSpec => PhonesAreTrue
<1>1. PhonesInv => ReportedIsKept /\ EvictedIsWithPhones
  <2>1. PhonesInv => ReportedIsKept
    BY DEF PhonesInv, Honest, ReportedIsKept
  <2>2. PhonesInv => EvictedIsWithPhones
    BY DEF PhonesInv, Full, EvictedIsWithPhones
  <2> QED BY <2>1, <2>2
<1>2. PhonesInv /\ PhonesNext => RevivedByRetryOnly
  <2>1. ASSUME After(pool, pool') PROVE RevivedByRetryOnly
    BY <2>1 DEF After, RevivedByRetryOnly
  <2>2. ASSUME pool' = poolDb PROVE RevivedByRetryOnly
    BY <2>2 DEF RevivedByRetryOnly
  <2> QED BY <2>1, <2>2, PhonesPreserved
<1>3. PhonesInv /\ PhonesInv' /\ [PhonesNext]_phoneVars =>
        [ReportedIsKept' /\ EvictedIsWithPhones' /\ RevivedByRetryOnly]_phoneVars
  <2>1. PhonesInv' => ReportedIsKept' /\ EvictedIsWithPhones'
    BY <1>1, PTL
  <2> QED BY <1>2, <2>1
<1> QED BY <1>3, PhonesInvariance, PTL DEF PhonesSpec, PhonesAreTrue
==============================================================================
