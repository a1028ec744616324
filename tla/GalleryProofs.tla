---------------------------- MODULE GalleryProofs ----------------------------
(***************************************************************************)
(* Theorems about what the user sees of the library: the shelf of albums,   *)
(* tags and flags (Collections), the tree of files (FileTree), and the      *)
(* places, events and people that are derived (LibraryViews).               *)
(***************************************************************************)
EXTENDS Collections, FileTree, LibraryViews, SortingProofs, SequenceTheorems

-----------------------------------------------------------------------------
(***************************************************************************)
(* Theorems about Collections, for any assets, albums, tags and bounds: an  *)
(* album and its cover agree, and the feedback records the service made     *)
(* tell the whole story of flags, tags and albums, in memory and in the     *)
(* database, whatever records clients have posted among them.               *)
(*                                                                          *)
(* The argument.  To play a story with one record more is to play it and    *)
(* then that record (a recursive function has its values one by one,        *)
(* TurnByTurn), so every change has only to be what its record tells, and a *)
(* posted record, which has an id of its own, nothing (PostedKeeps); and    *)
(* what a save writes is loaded as the shelf it was written from, up to the *)
(* order of nothing but the albums' rows.  The database holds the rows of   *)
(* some sound shelf, not of the one in memory: saves fail and restarts go   *)
(* back (ShelfInv).                                                         *)
(***************************************************************************)

Covered(album) ==
    IF album.items = <<>> THEN album.cover = NoCover ELSE album.cover \in Range(album.items)

AlbumType == [cover : Items \cup {NoCover}, items : Seq(Items)]
AlbumsType == UNION {[D -> AlbumType] : D \in SUBSET AlbumIds}
RecordType ==
    [kind : {"flags"}, assets : SUBSET Items, set : SUBSET Flags, clear : SUBSET Flags]
    \cup [kind : {"tags"}, assets : SUBSET Items, tags : SUBSET TagNames]
    \cup [kind : {"create", "add", "remove"}, album : AlbumIds, assets : SUBSET (Items \cup {Stranger})]
    \cup [kind : {"delete", "rename"}, album : AlbumIds]

\* Records of the service, and what clients post.
EntryType == [id : {Drawn}, event : RecordType] \cup Posted
ShelfType ==
    [flags : [Items -> SUBSET Flags], tags : [Items -> SUBSET TagNames], albums : AlbumsType,
     searches : Nat, feedback : Seq(EntryType)]

\* An album has each of its assets once, and a cover of its own.
AlbumSound(album) == IsInjective(album.items) /\ Covered(album)

ShelfSound(s) ==
    /\ s \in ShelfType /\ \A id \in DOMAIN s.albums : AlbumSound(s.albums[id])
    /\ Told(s) = Played(s.feedback)

ShelfInv == ShelfSound(shelf) /\ \E s : ShelfSound(s) /\ shelfRows = SavedShelf(s)

\* What is told of a story after so many of its records.
IsTold(told, story, n) ==
    told = [k \in 0..n |-> IF k = 0 THEN Untouched ELSE Heard(told[k - 1], story[k])]

\* The story can be told from its beginning.
LEMMA CanBeTold ==
  ASSUME NEW story, NEW N \in Nat
  PROVE  \E told : IsTold(told, story, N)
<1> DEFINE T == {n \in Nat : \E told : IsTold(told, story, n)}
<1>1. 0 \in T
  <2>1. IsTold([k \in 0..0 |-> Untouched], story, 0)
    BY DEF IsTold
  <2> QED BY <2>1
<1>2. ASSUME NEW n \in Nat, n \in T PROVE n + 1 \in T
  <2>1. PICK told : IsTold(told, story, n)
    BY <1>2
  <2> DEFINE more == [k \in 0..n + 1 |-> IF k = n + 1 THEN Heard(told[n], story[k]) ELSE told[k]]
  <2>2. \A k \in 0..n : told[k] = IF k = 0 THEN Untouched ELSE Heard(told[k - 1], story[k])
    BY <2>1 DEF IsTold
  <2>3. ASSUME NEW k \in 0..n + 1
        PROVE  more[k] = IF k = 0 THEN Untouched ELSE Heard(more[k - 1], story[k])
    <3>1. CASE k = n + 1
      BY <3>1
    <3>2. CASE k # n + 1
      <4>1. k \in 0..n /\ (k # 0 => k - 1 \in 0..n)
        BY <3>2
      <4> QED BY <2>2, <4>1
    <3> QED BY <3>1, <3>2
  <2>4. more = [k \in 0..n + 1 |-> more[k]]
    OBVIOUS
  <2> HIDE DEF more
  <2>5. IsTold(more, story, n + 1)
    <3> DEFINE loop == [k \in 0..n + 1 |-> IF k = 0 THEN Untouched ELSE Heard(more[k - 1], story[k])]
    <3>1. more = loop
      BY <2>3, <2>4
    <3> QED BY <3>1 DEF IsTold
  <2>6. \E f : IsTold(f, story, n + 1)
    BY <2>5
  <2> QED BY <2>6
<1> HIDE DEF T
<1>3. N \in T
  BY <1>1, <1>2, TurnByTurn
<1> QED BY <1>3 DEF T

\* What is played is told record by record.
LEMMA PlayedIsTold ==
  ASSUME NEW story, Len(story) \in Nat
  PROVE  \E told : /\ told[0] = Untouched /\ Played(story) = told[Len(story)]
                   /\ \A k \in 1..Len(story) : told[k] = Heard(told[k - 1], story[k])
<1> DEFINE N == Len(story)
           told == CHOOSE told : told = [k \in 0..N |-> IF k = 0 THEN Untouched ELSE Heard(told[k - 1], story[k])]
<1>1. told = [k \in 0..N |-> IF k = 0 THEN Untouched ELSE Heard(told[k - 1], story[k])]
  <2> HIDE DEF N
  <2>1. N \in Nat
    BY DEF N
  <2> QED BY <2>1, CanBeTold DEF IsTold
<1>2. Played(story) = told[N]
  BY DEF Played
<1> HIDE DEF told, N
<1>3. N \in Nat
  BY DEF N
<1>4. told[0] = Untouched /\ \A k \in 1..N : told[k] = Heard(told[k - 1], story[k])
  <2>1. \A k \in 0..N : told[k] = IF k = 0 THEN Untouched ELSE Heard(told[k - 1], story[k])
    BY <1>1
  <2> QED BY <1>3, <2>1
<1> QED BY <1>2, <1>4 DEF N

\* One more record is one more step of what is told.
LEMMA PlayedOneMore ==
  ASSUME NEW S, NEW story \in Seq(S), NEW e \in S
  PROVE  Played(Append(story, e)) = Heard(Played(story), e)
<1> DEFINE longer == Append(story, e)
           N == Len(story)
<1>1. N \in Nat /\ Len(longer) = N + 1 /\ longer[N + 1] = e /\ \A k \in 1..N : longer[k] = story[k]
  BY AppendProperties, LenProperties
<1>2. PICK told : /\ told[0] = Untouched /\ Played(story) = told[N]
                  /\ \A k \in 1..N : told[k] = Heard(told[k - 1], story[k])
  <2>1. Len(story) \in Nat
    BY <1>1
  <2> QED BY <2>1, PlayedIsTold
<1> HIDE DEF longer
<1>3. PICK more : /\ more[0] = Untouched /\ Played(longer) = more[N + 1]
                  /\ \A k \in 1..N + 1 : more[k] = Heard(more[k - 1], longer[k])
  <2>1. Len(longer) \in Nat
    BY <1>1
  <2>2. \E more : /\ more[0] = Untouched /\ Played(longer) = more[Len(longer)]
                  /\ \A k \in 1..Len(longer) : more[k] = Heard(more[k - 1], longer[k])
    BY <2>1, PlayedIsTold
  <2>3. Len(longer) = N + 1
    BY <1>1
  <2> HIDE DEF N
  <2> QED BY <2>2, <2>3, Zenon
<1> HIDE DEF N
<1> DEFINE T == {n \in Nat : n <= N => more[n] = told[n]}
<1>4. 0 \in T
  BY <1>2, <1>3
<1>5. ASSUME NEW n \in Nat, n \in T PROVE n + 1 \in T
  <2> SUFFICES ASSUME n + 1 <= N PROVE more[n + 1] = told[n + 1]
    OBVIOUS
  <2>1. n + 1 \in 1..N /\ n + 1 \in 1..N + 1 /\ (n + 1) - 1 = n /\ n <= N
    BY <1>1
  <2>2. more[n] = told[n]
    BY <1>5, <2>1
  <2>3. more[n + 1] = Heard(more[n], longer[n + 1]) /\ told[n + 1] = Heard(told[n], story[n + 1])
    BY <1>2, <1>3, <2>1
  <2> QED BY <1>1, <2>1, <2>2, <2>3
<1> HIDE DEF T
<1>6. N \in T
  BY <1>1, <1>4, <1>5, TurnByTurn
<1>7. more[N] = told[N]
  BY <1>1, <1>6 DEF T
<1>8. more[N + 1] = Heard(more[N], e)
  <2>1. N + 1 \in 1..N + 1 /\ (N + 1) - 1 = N
    BY <1>1
  <2> QED BY <1>1, <1>3, <2>1
<1> QED BY <1>2, <1>3, <1>7, <1>8 DEF longer
-----------------------------------------------------------------------------
\* A sorted request has every asset of it once.
LEMMA SortedItems ==
  ASSUME NEW chosen \in SUBSET Items
  PROVE  /\ Sorted(chosen) \in Seq(Items) /\ IsInjective(Sorted(chosen))
         /\ Range(Sorted(chosen)) = chosen
<1> DEFINE list == Sorted(chosen)
           n == Cardinality(chosen)
           number == [a \in chosen |-> a]
<1>1. IsFiniteSet(chosen) /\ n \in Nat /\ \A a \in chosen : number[a] \in Nat
  BY CollectionsAssumption, FS_Subset, FS_CardinalityType
<1>2. list = SortedBy(chosen, number)
  BY DEF Sorted, Ascending
<1> HIDE DEF list, number
<1>3. /\ list \in [1..n -> chosen] /\ \A i, j \in 1..n : list[i] = list[j] => i = j
      /\ \A a \in chosen : \E i \in 1..n : list[i] = a
  BY <1>1, <1>2, SortedIsComplete
<1> HIDE DEF n
<1>4. list \in Seq(Items)
  <2>1. list \in [1..n -> Items]
    BY <1>3
  <2> QED BY <1>1, <2>1, IsASeq
<1>5. IsInjective(list)
  BY <1>3 DEF IsInjective
<1>6. Range(list) = chosen
  <2>1. \A a : a \in Range(list) <=> a \in chosen
    BY <1>3 DEF Range
  <2> QED BY <2>1
<1> QED BY <1>4, <1>5, <1>6 DEF list

\* What an album keeps is what it had and was not named, once each.
LEMMA KeptItems ==
  ASSUME NEW items \in Seq(Items), IsInjective(items), NEW chosen
  PROVE  /\ Without(items, chosen) \in Seq(Items) /\ IsInjective(Without(items, chosen))
         /\ Range(Without(items, chosen)) = Range(items) \ chosen
<1> DEFINE places == {p \in DOMAIN items : items[p] \notin chosen}
           kept == Ascending(places)
           n == Cardinality(places)
           number == [p \in places |-> p]
           list == Without(items, chosen)
<1>1. DOMAIN items = 1..Len(items) /\ Len(items) \in Nat /\ \A p \in DOMAIN items : items[p] \in Items
  BY LenProperties, ElementOfSeq
<1>2. IsFiniteSet(places) /\ n \in Nat /\ \A p \in places : number[p] \in Nat
  <2>1. IsFiniteSet(1..Len(items)) /\ places \in SUBSET (1..Len(items))
    BY <1>1, NumbersAreFinite
  <2>2. \A p \in places : p \in Nat
    BY <1>1
  <2> QED BY <2>1, <2>2, FS_Subset, FS_CardinalityType
<1>3. kept = SortedBy(places, number)
  BY DEF Ascending
<1>4. list = [i \in DOMAIN kept |-> items[kept[i]]]
  BY DEF Without
<1> HIDE DEF kept, number, list, n
<1>5. /\ kept \in [1..n -> places] /\ \A i, j \in 1..n : kept[i] = kept[j] => i = j
      /\ \A p \in places : \E i \in 1..n : kept[i] = p
  <2> HIDE DEF places
  <2> QED BY <1>2, <1>3, SortedIsComplete DEF n
<1>6. \A i \in 1..n : kept[i] \in DOMAIN items /\ items[kept[i]] \notin chosen
  BY <1>5
<1>7. \A p \in DOMAIN items : items[p] \notin chosen => \E i \in 1..n : kept[i] = p
  BY <1>5
<1> HIDE DEF places
<1>8. DOMAIN list = 1..n /\ \A i \in 1..n : list[i] = items[kept[i]]
  BY <1>4, <1>5
<1>9. list \in Seq(Items)
  <2>1. list \in [1..n -> Items]
    BY <1>1, <1>4, <1>5, <1>6, <1>8
  <2> QED BY <1>2, <2>1, IsASeq
<1>10. IsInjective(list)
  BY <1>5, <1>6, <1>8 DEF IsInjective
<1>11. Range(list) = Range(items) \ chosen
  <2>1. \A a : a \in Range(list) => a \in Range(items) /\ a \notin chosen
    BY <1>6, <1>8 DEF Range
  <2>2. \A a : a \in Range(items) /\ a \notin chosen => a \in Range(list)
    BY <1>7, <1>8 DEF Range
  <2> QED BY <2>1, <2>2
<1> QED BY <1>9, <1>10, <1>11 DEF list

\* Assets that come after others an album has.
LEMMA JoinedItems ==
  ASSUME NEW items \in Seq(Items), IsInjective(items), NEW more \in Seq(Items), IsInjective(more),
         Range(items) \cap Range(more) = {}
  PROVE  /\ items \o more \in Seq(Items) /\ IsInjective(items \o more)
         /\ Range(items \o more) = Range(items) \cup Range(more)
<1> DEFINE all == items \o more
           m == Len(items)
           n == Len(more)
<1>1. m \in Nat /\ n \in Nat /\ DOMAIN items = 1..m /\ DOMAIN more = 1..n
  BY LenProperties
<1>2. /\ all \in Seq(Items) /\ Len(all) = m + n
      /\ \A i \in 1..m + n : all[i] = IF i <= m THEN items[i] ELSE more[i - m]
  BY ConcatProperties
<1> HIDE DEF all
<1>3. DOMAIN all = 1..m + n
  BY <1>2, LenProperties
<1> HIDE DEF m, n
<1>4. \A i \in 1..m : i \in DOMAIN all /\ all[i] = items[i]
  BY <1>1, <1>2, <1>3
<1>5. ASSUME NEW i \in 1..n PROVE i + m \in DOMAIN all /\ all[i + m] = more[i]
  <2>1. i + m \in 1..m + n /\ ~(i + m <= m) /\ (i + m) - m = i
    BY <1>1
  <2> QED BY <1>2, <1>3, <2>1
<1>6. \A i \in DOMAIN all : i \in 1..m \/ i - m \in 1..n
  BY <1>1, <1>3
<1>7. \A a : a \in Range(all) <=> a \in Range(items) \/ a \in Range(more)
  <2>1. ASSUME NEW i \in DOMAIN all PROVE all[i] \in Range(items) \/ all[i] \in Range(more)
    <3>1. CASE i \in 1..m
      BY <1>1, <1>4, <3>1 DEF Range
    <3>2. CASE i - m \in 1..n
      <4>1. all[i] = more[i - m]
        <5>1. (i - m) + m = i
          BY <1>1, <1>3, <2>1
        <5> QED BY <1>5, <3>2, <5>1
      <4> QED BY <1>1, <3>2, <4>1 DEF Range
    <3> QED BY <1>6, <3>1, <3>2
  <2>2. \A a : a \in Range(items) => a \in Range(all)
    BY <1>1, <1>4 DEF Range
  <2>3. \A a : a \in Range(more) => a \in Range(all)
    BY <1>1, <1>5 DEF Range
  <2> QED BY <2>1, <2>2, <2>3 DEF Range
<1>8. ASSUME NEW i \in DOMAIN all, NEW j \in DOMAIN all, all[i] = all[j] PROVE i = j
  <2>1. i \in Nat /\ j \in Nat
    BY <1>1, <1>3
  <2>2. (i - m \in 1..n => all[i] = more[i - m]) /\ (j - m \in 1..n => all[j] = more[j - m])
    <3>1. (i - m) + m = i /\ (j - m) + m = j
      BY <1>1, <2>1
    <3> QED BY <1>5, <3>1
  <2>3. CASE i \in 1..m /\ j \in 1..m
    BY <1>1, <1>4, <1>8, <2>3 DEF IsInjective
  <2>4. CASE i - m \in 1..n /\ j - m \in 1..n
    <3>1. i - m = j - m
      BY <1>1, <1>8, <2>2, <2>4 DEF IsInjective
    <3> QED BY <1>1, <2>1, <3>1
  <2>5. CASE i \in 1..m /\ j - m \in 1..n
    BY <1>1, <1>4, <1>8, <2>2, <2>5 DEF Range
  <2>6. CASE i - m \in 1..n /\ j \in 1..m
    BY <1>1, <1>4, <1>8, <2>2, <2>6 DEF Range
  <2> QED BY <1>6, <2>3, <2>4, <2>5, <2>6
<1> QED BY <1>2, <1>7, <1>8 DEF IsInjective, all

\* The first asset is one of them.
LEMMA FirstIsThere ==
  ASSUME NEW items \in Seq(Items)
  PROVE  /\ FirstOf(items) \in Items \cup {NoCover}
         /\ items = <<>> => FirstOf(items) = NoCover
         /\ items # <<>> => FirstOf(items) \in Range(items)
         /\ NoCover \notin Range(items) /\ Range(items) \subseteq Items
         /\ items = <<>> <=> Range(items) = {}
<1>1. DOMAIN items = 1..Len(items) /\ Len(items) \in Nat /\ \A p \in DOMAIN items : items[p] \in Items
  BY LenProperties, ElementOfSeq
<1>2. items # <<>> => 1 \in DOMAIN items
  BY <1>1, EmptySeq
<1>3. items # <<>> => items[1] \in Range(items)
  BY <1>2 DEF Range
<1>4. Range(items) \subseteq Items
  BY <1>1 DEF Range
<1>5. NoCover \notin Items
  BY CollectionsAssumption DEF NoCover
<1>6. items = <<>> => Range(items) = {}
  BY DEF Range
<1> QED BY <1>3, <1>4, <1>5, <1>6 DEF FirstOf
-----------------------------------------------------------------------------
\* The types of the parts of a sound shelf.
LEMMA ShelfParts ==
  ASSUME NEW s \in ShelfType
  PROVE  /\ DOMAIN s.albums \in SUBSET AlbumIds /\ s.albums = [id \in DOMAIN s.albums |-> s.albums[id]]
         /\ \A id \in DOMAIN s.albums :
               /\ s.albums[id] \in AlbumType /\ s.albums[id].items \in Seq(Items)
               /\ s.albums[id].cover \in Items \cup {NoCover}
<1>1. PICK D \in SUBSET AlbumIds : s.albums \in [D -> AlbumType]
  BY DEF ShelfType, AlbumsType
<1>2. \A id \in D : s.albums[id] \in AlbumType
  BY <1>1
<1> QED BY <1>1, <1>2 DEF AlbumType

\* An album comes back from the database as it was saved.
LEMMA AlbumsComeBack ==
  ASSUME NEW s, ShelfSound(s), NEW id \in DOMAIN s.albums
  PROVE  load_positioned_memberships(SavedShelf(s), id) = s.albums[id].items
<1> DEFINE items == s.albums[id].items
           rows == SavedShelf(s).album_assets
           members == {m \in rows : m.album = id}
           Row(p) == [album |-> id, asset |-> items[p], position |-> p]
           n == Len(items)
<1>1. /\ items \in Seq(Items) /\ n \in Nat /\ DOMAIN items = 1..n
  BY ShelfParts, LenProperties DEF ShelfSound
<1>2. rows = UNION {{[album |-> k, asset |-> s.albums[k].items[p], position |-> p] :
                        p \in DOMAIN s.albums[k].items} : k \in DOMAIN s.albums}
  BY DEF SavedShelf
<1>3. members = {Row(p) : p \in DOMAIN items}
  <2>1. \A m : m \in rows <=> \E k \in DOMAIN s.albums : \E p \in DOMAIN s.albums[k].items :
                   m = [album |-> k, asset |-> s.albums[k].items[p], position |-> p]
    BY <1>2
  <2>2. \A m \in members : \E p \in DOMAIN items : m = Row(p)
    BY <2>1
  <2>3. \A p \in DOMAIN items : Row(p) \in members
    BY <2>1
  <2> HIDE DEF members, Row
  <2> QED BY <2>2, <2>3
<1> HIDE DEF items, members, n
<1>4. Cardinality(members) = n
  <2> DEFINE f == [p \in 1..n |-> Row(p)]
  <2>1. f \in Bijection(1..n, members)
    <3>1. f \in [1..n -> members]
      BY <1>1, <1>3
    <3>2. \A m \in members : \E p \in 1..n : f[p] = m
      BY <1>1, <1>3
    <3>3. \A p, q \in 1..n : f[p] = f[q] => p = q
      <4>1. \A p \in 1..n : f[p].position = p
        OBVIOUS
      <4> HIDE DEF f
      <4> QED BY <4>1
    <3> HIDE DEF f
    <3> QED BY <3>1, <3>2, <3>3 DEF Bijection, Injection, Surjection, IsInjective
  <2> HIDE DEF f
  <2>2. ExistsBijection(1..n, members)
    BY <2>1 DEF ExistsBijection
  <2>3. Cardinality(members) = n
    BY <1>1, <2>2, FS_CountingElements
  <2> QED BY <2>3
<1>5. ASSUME NEW p \in 1..n PROVE (CHOOSE m \in members : m.position = p).asset = items[p]
  <2> DEFINE m == CHOOSE m \in members : m.position = p
  <2>1. Row(p) \in members /\ Row(p).position = p
    BY <1>1, <1>3
  <2>2. m \in members /\ m.position = p
    BY <2>1
  <2> HIDE DEF m
  <2>3. PICK q \in DOMAIN items : m = Row(q)
    BY <1>3, <2>2
  <2>4. q = p
    BY <2>2, <2>3
  <2>5. m.asset = items[p]
    BY <2>3, <2>4
  <2> QED BY <2>5 DEF m
<1>6. load_positioned_memberships(SavedShelf(s), id) =
         [p \in 1..n |-> (CHOOSE m \in members : m.position = p).asset]
  BY <1>4 DEF load_positioned_memberships, members, rows
<1>7. items = [p \in 1..n |-> items[p]]
  BY <1>1
<1> QED BY <1>5, <1>6, <1>7 DEF items

\* What is loaded is what was saved.
LEMMA LoadedIsSaved ==
  ASSUME NEW s, ShelfSound(s)
  PROVE  load_shelf(SavedShelf(s)) = s /\ load_albums(SavedShelf(s)) = s.albums
<1> DEFINE rows == SavedShelf(s)
<1>1. /\ s \in ShelfType /\ s.albums = [id \in DOMAIN s.albums |-> s.albums[id]]
      /\ \A id \in DOMAIN s.albums : s.albums[id] \in AlbumType
  BY ShelfParts DEF ShelfSound
<1>2. /\ rows.flags = s.flags /\ rows.searches = s.searches /\ rows.feedback = s.feedback
      /\ rows.tags = {at \in Items \X TagNames : at[2] \in s.tags[at[1]]}
      /\ rows.albums = {[id |-> id, cover |-> s.albums[id].cover] : id \in DOMAIN s.albums}
  BY DEF SavedShelf
<1> HIDE DEF rows
<1>3. load_asset_manual_tags(rows) = s.tags
  <2>1. s.tags \in [Items -> SUBSET TagNames]
    BY <1>1 DEF ShelfType
  <2>2. \A a \in Items : {t \in TagNames : <<a, t>> \in rows.tags} = s.tags[a]
    BY <1>2, <2>1
  <2> QED BY <2>1, <2>2 DEF load_asset_manual_tags
<1>4. load_albums(rows) = s.albums
  <2> DEFINE row(id) == [id |-> id, cover |-> s.albums[id].cover]
  <2>3. /\ \A id \in DOMAIN s.albums : row(id) \in rows.albums
        /\ \A a \in rows.albums : \E id \in DOMAIN s.albums : a = row(id)
    BY <1>2
  <2>4. \A id : row(id).id = id /\ row(id).cover = s.albums[id].cover
    OBVIOUS
  <2> HIDE DEF row
  <2>1. {a.id : a \in rows.albums} = DOMAIN s.albums
    BY <2>3, <2>4
  <2>2. ASSUME NEW id \in DOMAIN s.albums
        PROVE  [cover |-> (CHOOSE a \in rows.albums : a.id = id).cover,
                items |-> load_positioned_memberships(rows, id)] = s.albums[id]
    <3> DEFINE a == CHOOSE a \in rows.albums : a.id = id
    <3>1. a \in rows.albums /\ a.id = id
      BY <2>3, <2>4
    <3> HIDE DEF a
    <3>2. a.cover = s.albums[id].cover
      BY <2>3, <2>4, <3>1
    <3>3. load_positioned_memberships(rows, id) = s.albums[id].items
      BY AlbumsComeBack DEF rows
    <3> QED BY <1>1, <3>2, <3>3 DEF AlbumType, a
  <2> QED BY <1>1, <2>1, <2>2 DEF load_albums
<1>5. s = [flags |-> s.flags, tags |-> s.tags, albums |-> s.albums, searches |-> s.searches,
           feedback |-> s.feedback]
  BY <1>1 DEF ShelfType
<1>6. load_shelf(rows) = s
  BY <1>2, <1>3, <1>4, <1>5 DEF load_shelf
<1> QED BY <1>4, <1>6 DEF rows

\* What a shelf is worth does not depend on the state.
LEMMA SoundShelfLater ==
  ASSUME ShelfSound(shelf'), \E t : ShelfSound(t) /\ shelfRows' = SavedShelf(t)
  PROVE  ShelfInv'
BY DEF ShelfInv, ShelfSound, ShelfType, AlbumsType, AlbumType, AlbumSound, Covered, EntryType,
       RecordType, Told, Played, Untouched, Heard, Retold, Drawn, SavedShelf

\* What is saved, or is not, is sound.
LEMMA SaveShelfKeeps ==
  ASSUME ShelfInv, NEW s, ShelfSound(s), SaveShelf(s)
  PROVE  ShelfInv'
<1>1. shelf' = s /\ (shelfRows' = SavedShelf(s) \/ shelfRows' = shelfRows)
  BY DEF SaveShelf
<1>2. ShelfSound(shelf') /\ \E t : ShelfSound(t) /\ shelfRows' = SavedShelf(t)
  BY <1>1 DEF ShelfInv
<1> QED BY <1>2, SoundShelfLater

\* A change is sound when it does to the library what is heard of its record.
LEMMA EntryKeeps ==
  ASSUME ShelfInv, NEW s \in ShelfType, \A id \in DOMAIN s.albums : AlbumSound(s.albums[id]),
         s.feedback = shelf.feedback, NEW f \in EntryType, Told(s) = Heard(Told(shelf), f),
         Recorded(s, f)
  PROVE  ShelfInv'
<1> DEFINE t == [s EXCEPT !.feedback = Append(@, f)]
<1>1. shelf.feedback \in Seq(EntryType) /\ Told(shelf) = Played(shelf.feedback)
  BY DEF ShelfInv, ShelfSound, ShelfType
<1>2. /\ t.flags = s.flags /\ t.tags = s.tags /\ t.albums = s.albums
      /\ t.feedback = Append(shelf.feedback, f) /\ t \in ShelfType
  BY <1>1, AppendProperties DEF ShelfType
<1>3. SaveShelf(t)
  BY DEF Recorded
<1> HIDE DEF t
<1>4. Told(t) = Told(s)
  BY <1>2 DEF Told
<1>5. Told(t) = Played(t.feedback)
  BY <1>1, <1>2, <1>4, PlayedOneMore
<1>6. ShelfSound(t)
  BY <1>2, <1>5 DEF ShelfSound
<1> QED BY <1>3, <1>6, SaveShelfKeeps

\* A change of the service does what its record tells.
LEMMA ChangedKeeps ==
  ASSUME ShelfInv, NEW s \in ShelfType, \A id \in DOMAIN s.albums : AlbumSound(s.albums[id]),
         s.feedback = shelf.feedback, NEW record \in RecordType, Told(s) = Retold(Told(shelf), record),
         Changed(s, record)
  PROVE  ShelfInv'
<1> DEFINE f == [id |-> Drawn, event |-> record]
<1>1. f \in EntryType /\ f.id = Drawn /\ f.event = record
  BY DEF EntryType
<1>2. Recorded(s, f)
  BY DEF Changed
<1> HIDE DEF f
<1>3. Heard(Told(shelf), f) = Retold(Told(shelf), record)
  BY <1>1 DEF Heard
<1> QED BY <1>1, <1>2, <1>3, EntryKeeps

\* A record that a client posts tells nothing and changes nothing, whatever it claims.
LEMMA PostedKeeps ==
  ASSUME ShelfInv, NEW f \in Posted, record_feedback(f)
  PROVE  ShelfInv'
<1>1. f \in EntryType /\ f.id # Drawn
  BY CollectionsAssumption DEF EntryType
<1>2. Heard(Told(shelf), f) = Told(shelf)
  BY <1>1 DEF Heard
<1>3. shelf \in ShelfType /\ \A id \in DOMAIN shelf.albums : AlbumSound(shelf.albums[id])
  BY DEF ShelfInv, ShelfSound
<1>4. Recorded(shelf, f)
  BY DEF record_feedback
<1> QED BY <1>1, <1>2, <1>3, <1>4, EntryKeeps
-----------------------------------------------------------------------------
Members(albums) == UNION {{id} \X Range(albums[id].items) : id \in DOMAIN albums}

\* The members of albums are pairs of an album and one of its assets.
LEMMA MembersAre ==
  ASSUME NEW albums, NEW x
  PROVE  x \in Members(albums) <=> \E id \in DOMAIN albums : \E a \in Range(albums[id].items) : x = <<id, a>>
<1>1. x \in Members(albums) <=> \E id \in DOMAIN albums : x \in {id} \X Range(albums[id].items)
  BY DEF Members
<1>2. \A id : x \in {id} \X Range(albums[id].items) <=> \E a \in Range(albums[id].items) : x = <<id, a>>
  OBVIOUS
<1> QED BY <1>1, <1>2

\* A change of the albums alone.
LEMMA AlbumsKeep ==
  ASSUME ShelfInv, NEW albums \in AlbumsType, \A id \in DOMAIN albums : AlbumSound(albums[id]),
         NEW record \in RecordType, Changed([shelf EXCEPT !.albums = albums], record),
         Retold(Told(shelf), record) =
            [flags |-> shelf.flags, tags |-> shelf.tags, albums |-> DOMAIN albums, members |-> Members(albums)]
  PROVE  ShelfInv'
<1> DEFINE s == [shelf EXCEPT !.albums = albums]
<1>1. shelf \in ShelfType
  BY DEF ShelfInv, ShelfSound
<1>2. /\ s \in ShelfType /\ s.albums = albums /\ s.flags = shelf.flags /\ s.tags = shelf.tags
      /\ s.feedback = shelf.feedback
  BY <1>1 DEF ShelfType
<1>3. Changed(s, record)
  OBVIOUS
<1> HIDE DEF s
<1>4. Told(s) = [flags |-> s.flags, tags |-> s.tags, albums |-> DOMAIN s.albums, members |-> Members(s.albums)]
  BY DEF Told, Members
<1>5. Told(s) = Retold(Told(shelf), record)
  BY <1>2, <1>4
<1> QED BY <1>2, <1>3, <1>5, ChangedKeeps

\* What is told of the shelf, and what it has.
LEMMA ToldParts ==
  ASSUME ShelfInv
  PROVE  /\ Told(shelf) = [flags |-> shelf.flags, tags |-> shelf.tags, albums |-> DOMAIN shelf.albums,
                           members |-> Members(shelf.albums)]
         /\ shelf.albums \in AlbumsType /\ DOMAIN shelf.albums \in SUBSET AlbumIds
         /\ \A id \in DOMAIN shelf.albums :
               /\ shelf.albums[id] \in AlbumType /\ AlbumSound(shelf.albums[id])
               /\ shelf.albums[id].items \in Seq(Items) /\ shelf.albums[id].cover \in Items \cup {NoCover}
         /\ shelf.flags \in [Items -> SUBSET Flags] /\ shelf.tags \in [Items -> SUBSET TagNames]
         /\ shelf \in ShelfType
<1>1. ShelfSound(shelf)
  BY DEF ShelfInv
<1>2. Told(shelf) = [flags |-> shelf.flags, tags |-> shelf.tags, albums |-> DOMAIN shelf.albums,
                     members |-> Members(shelf.albums)]
  BY DEF Told, Members
<1> QED BY <1>1, <1>2, ShelfParts DEF ShelfSound, ShelfType

\* What the records of albums do to what is told.
LEMMA RetoldAlbums ==
  ASSUME NEW e
  PROVE  /\ e.kind = "create" => Retold(Told(shelf), e) =
             [flags |-> shelf.flags, tags |-> shelf.tags, albums |-> DOMAIN shelf.albums \cup {e.album},
              members |-> Members(shelf.albums) \cup ({e.album} \X e.assets)]
         /\ e.kind = "add" => Retold(Told(shelf), e) =
             [flags |-> shelf.flags, tags |-> shelf.tags, albums |-> DOMAIN shelf.albums,
              members |-> Members(shelf.albums) \cup ({e.album} \X e.assets)]
         /\ e.kind = "remove" => Retold(Told(shelf), e) =
             [flags |-> shelf.flags, tags |-> shelf.tags, albums |-> DOMAIN shelf.albums,
              members |-> Members(shelf.albums) \ ({e.album} \X e.assets)]
         /\ e.kind = "delete" => Retold(Told(shelf), e) =
             [flags |-> shelf.flags, tags |-> shelf.tags, albums |-> DOMAIN shelf.albums \ {e.album},
              members |-> Members(shelf.albums) \ ({e.album} \X Items)]
<1> DEFINE flags == shelf.flags
           tags == shelf.tags
           ids == DOMAIN shelf.albums
           members == Members(shelf.albums)
           s == [flags |-> flags, tags |-> tags, albums |-> ids, members |-> members]
<1>1. Told(shelf) = s
  BY DEF Told, Members
<1> HIDE DEF flags, tags, ids, members
<1>2. ASSUME e.kind = "create"
      PROVE  Retold(s, e) = [flags |-> flags, tags |-> tags, albums |-> ids \cup {e.album}, members |-> members \cup ({e.album} \X e.assets)]
  BY <1>2 DEF Retold
<1>3. ASSUME e.kind = "add"
      PROVE  Retold(s, e) = [flags |-> flags, tags |-> tags, albums |-> ids, members |-> members \cup ({e.album} \X e.assets)]
  BY <1>3 DEF Retold
<1>4. ASSUME e.kind = "remove"
      PROVE  Retold(s, e) = [flags |-> flags, tags |-> tags, albums |-> ids, members |-> members \ ({e.album} \X e.assets)]
  BY <1>4 DEF Retold
<1>5. ASSUME e.kind = "delete"
      PROVE  Retold(s, e) = [flags |-> flags, tags |-> tags, albums |-> ids \ {e.album}, members |-> members \ ({e.album} \X Items)]
  BY <1>5 DEF Retold
<1> HIDE DEF s
<1> QED BY <1>1, <1>2, <1>3, <1>4, <1>5 DEF flags, tags, ids, members

\* A request that is refused changes nothing.
LEMMA RefusedChangeKeeps ==
  ASSUME ShelfInv, UNCHANGED <<shelf, shelfRows>>
  PROVE  ShelfInv'
<1>1. shelf' = shelf /\ shelfRows' = shelfRows
  OBVIOUS
<1>2. ShelfSound(shelf') /\ \E t : ShelfSound(t) /\ shelfRows' = SavedShelf(t)
  BY <1>1 DEF ShelfInv
<1> QED BY <1>2, SoundShelfLater

\* Flags are set and cleared as the record tells.
LEMMA update_assets_flags_keeps ==
  ASSUME ShelfInv, NEW chosen, NEW set \in SUBSET Flags, NEW clear \in SUBSET Flags, set \cap clear = {},
         update_assets_flags(chosen, set, clear)
  PROVE  ShelfInv'
<1> DEFINE flags == [a \in Items |-> IF a \in chosen THEN (shelf.flags[a] \cup set) \ clear ELSE shelf.flags[a]]
           s == [shelf EXCEPT !.flags = flags]
           record == [kind |-> "flags", assets |-> chosen, set |-> set, clear |-> clear]
<1>1. CASE ~validate_asset_ids(chosen)
  BY <1>1, RefusedChangeKeeps DEF update_assets_flags, RefusedChange
<1>2. CASE validate_asset_ids(chosen)
  <2>1. Changed(s, record)
    BY <1>2 DEF update_assets_flags
  <2>2. chosen \subseteq Items
    BY <1>2 DEF validate_asset_ids
  <2>3. /\ shelf \in ShelfType /\ shelf.flags \in [Items -> SUBSET Flags]
        /\ \A id \in DOMAIN shelf.albums : AlbumSound(shelf.albums[id])
        /\ Told(shelf) = [flags |-> shelf.flags, tags |-> shelf.tags, albums |-> DOMAIN shelf.albums,
                          members |-> Members(shelf.albums)]
    BY ToldParts
  <2>4. record \in RecordType
    BY <2>2 DEF RecordType
  <2>5. flags \in [Items -> SUBSET Flags]
    BY <2>3
  <2>6. Retold(Told(shelf), record) =
           [flags |-> [a \in Items |-> IF a \in chosen THEN (shelf.flags[a] \ clear) \cup set ELSE shelf.flags[a]],
            tags |-> shelf.tags, albums |-> DOMAIN shelf.albums, members |-> Members(shelf.albums)]
    <3>1. record.kind = "flags" /\ record.assets = chosen /\ record.set = set /\ record.clear = clear
      OBVIOUS
    <3> HIDE DEF record
    <3> DEFINE played == [a \in Items |-> IF a \in chosen THEN (shelf.flags[a] \ clear) \cup set ELSE shelf.flags[a]]
    <3>2. Told(shelf).flags = shelf.flags
      BY <2>3
    <3>3. Retold(Told(shelf), record) = [Told(shelf) EXCEPT !.flags = played]
      BY <3>1, <3>2, Zenon DEF Retold
    <3> HIDE DEF played
    <3>4. [Told(shelf) EXCEPT !.flags = played] =
             [flags |-> played, tags |-> shelf.tags, albums |-> DOMAIN shelf.albums, members |-> Members(shelf.albums)]
      BY <2>3
    <3> QED BY <3>3, <3>4 DEF played
  <2>7. [a \in Items |-> IF a \in chosen THEN (shelf.flags[a] \ clear) \cup set ELSE shelf.flags[a]] = flags
    <3>1. \A a \in Items : (shelf.flags[a] \ clear) \cup set = (shelf.flags[a] \cup set) \ clear
      OBVIOUS
    <3> QED BY <3>1
  <2> HIDE DEF flags, record
  <2>8. /\ s \in ShelfType /\ s.flags = flags /\ s.tags = shelf.tags /\ s.albums = shelf.albums
        /\ s.feedback = shelf.feedback
    BY <2>3, <2>5 DEF ShelfType
  <2> HIDE DEF s
  <2>9. Told(s) = Retold(Told(shelf), record)
    <3>1. Told(s) = [flags |-> s.flags, tags |-> s.tags, albums |-> DOMAIN s.albums,
                     members |-> Members(s.albums)]
      BY Zenon DEF Told, Members
    <3>2. Told(s) = [flags |-> flags, tags |-> shelf.tags, albums |-> DOMAIN shelf.albums,
                     members |-> Members(shelf.albums)]
      BY <2>8, <3>1
    <3>3. Retold(Told(shelf), record) =
             [flags |-> flags, tags |-> shelf.tags, albums |-> DOMAIN shelf.albums,
              members |-> Members(shelf.albums)]
      BY <2>6, <2>7
    <3> QED BY <3>2, <3>3
  <2> QED BY <2>1, <2>3, <2>4, <2>8, <2>9, ChangedKeeps
<1> QED BY <1>1, <1>2

\* The tags of an asset are those that the record tells.
LEMMA update_asset_tags_keeps ==
  ASSUME ShelfInv, NEW a \in Items, NEW tags \in SUBSET TagNames, update_asset_tags(a, tags)
  PROVE  ShelfInv'
<1> DEFINE all == [shelf.tags EXCEPT ![a] = tags]
           s == [shelf EXCEPT !.tags = all]
           record == [kind |-> "tags", assets |-> {a}, tags |-> tags]
<1>1. /\ shelf \in ShelfType /\ shelf.tags \in [Items -> SUBSET TagNames]
      /\ \A id \in DOMAIN shelf.albums : AlbumSound(shelf.albums[id])
      /\ Told(shelf) = [flags |-> shelf.flags, tags |-> shelf.tags, albums |-> DOMAIN shelf.albums,
                        members |-> Members(shelf.albums)]
  BY ToldParts
<1>2. [shelf EXCEPT !.tags[a] = tags] = s
  BY <1>1, Zenon DEF ShelfType
<1>3. Changed(s, record)
  BY <1>2 DEF update_asset_tags
<1>4. record \in RecordType
  BY DEF RecordType
<1>5. all \in [Items -> SUBSET TagNames] /\ all = [b \in Items |-> IF b \in {a} THEN tags ELSE shelf.tags[b]]
  BY <1>1
<1>6. Retold(Told(shelf), record) =
         [flags |-> shelf.flags, tags |-> [b \in Items |-> IF b \in {a} THEN tags ELSE shelf.tags[b]],
          albums |-> DOMAIN shelf.albums, members |-> Members(shelf.albums)]
  BY <1>1 DEF Retold
<1> HIDE DEF all, record
<1>7. /\ s \in ShelfType /\ s.flags = shelf.flags /\ s.tags = all /\ s.albums = shelf.albums
      /\ s.feedback = shelf.feedback
  BY <1>1, <1>5 DEF ShelfType
<1> HIDE DEF s
<1>8. Told(s) = Retold(Told(shelf), record)
  BY <1>5, <1>6, <1>7 DEF Told, Members
<1> QED BY <1>1, <1>3, <1>4, <1>7, <1>8, ChangedKeeps

\* An album with its assets in their order and the first as cover.
LEMMA create_album_keeps ==
  ASSUME ShelfInv, NEW id \in AlbumIds, NEW chosen, create_album(id, chosen)
  PROVE  ShelfInv'
<1> DEFINE album == [items |-> Sorted(chosen), cover |-> FirstOf(Sorted(chosen))]
           old == shelf.albums
           albums == [k \in DOMAIN old \cup {id} |-> IF k = id THEN album ELSE old[k]]
           record == [kind |-> "create", album |-> id, assets |-> chosen]
<1>1. CASE ~validate_asset_ids(chosen)
  BY <1>1, RefusedChangeKeeps DEF create_album, RefusedChange
<1>2. CASE validate_asset_ids(chosen)
  <2>1. Changed([shelf EXCEPT !.albums = albums], record) /\ id \notin DOMAIN old
    BY <1>2 DEF create_album
  <2>2. chosen \in SUBSET Items
    BY <1>2 DEF validate_asset_ids
  <2>3. /\ Told(shelf) = [flags |-> shelf.flags, tags |-> shelf.tags, albums |-> DOMAIN old,
                          members |-> Members(old)]
        /\ DOMAIN old \in SUBSET AlbumIds
        /\ \A k \in DOMAIN old : old[k] \in AlbumType /\ AlbumSound(old[k])
    BY ToldParts
  <2>4. /\ album.items = Sorted(chosen) /\ album \in AlbumType /\ AlbumSound(album)
        /\ Range(album.items) = chosen
    <3> DEFINE items == Sorted(chosen)
    <3>1. items \in Seq(Items) /\ IsInjective(items) /\ Range(items) = chosen
      BY <2>2, SortedItems
    <3> HIDE DEF items
    <3>2. /\ FirstOf(items) \in Items \cup {NoCover} /\ (items = <<>> => FirstOf(items) = NoCover)
          /\ (items # <<>> => FirstOf(items) \in Range(items))
      BY <3>1, FirstIsThere
    <3> QED BY <3>1, <3>2 DEF AlbumType, AlbumSound, Covered, items
  <2> HIDE DEF old, album
  <2>5. /\ DOMAIN albums = DOMAIN old \cup {id} /\ albums[id] = album
        /\ \A k \in DOMAIN old : albums[k] = old[k]
        /\ albums \in [DOMAIN old \cup {id} -> AlbumType]
    BY <2>1, <2>3, <2>4
  <2> HIDE DEF albums
  <2>6. albums \in AlbumsType /\ \A k \in DOMAIN albums : AlbumSound(albums[k])
    BY <2>3, <2>4, <2>5 DEF AlbumsType
  <2>7. Members(albums) = Members(old) \cup {id} \X chosen
    <3>1. ASSUME NEW x PROVE x \in Members(albums) <=> x \in Members(old) \/ x \in {id} \X chosen
      <4>1. x \in {id} \X chosen <=> \E a \in Range(album.items) : x = <<id, a>>
        BY <2>4
      <4> QED BY <2>5, <4>1, MembersAre
    <3> QED BY <3>1
  <2>8. Retold(Told(shelf), record) =
           [flags |-> shelf.flags, tags |-> shelf.tags, albums |-> DOMAIN albums, members |-> Members(albums)]
    <3>1. record.kind = "create" /\ record.album = id /\ record.assets = chosen
      OBVIOUS
    <3> HIDE DEF record
    <3>2. Retold(Told(shelf), record) =
           [flags |-> shelf.flags, tags |-> shelf.tags, albums |-> DOMAIN shelf.albums \cup {record.album}, members |-> Members(shelf.albums) \cup ({record.album} \X record.assets)]
      BY <3>1, RetoldAlbums
    <3> QED BY <2>3, <2>5, <2>7, <3>1, <3>2 DEF old
  <2>9. record \in RecordType
    BY <2>2 DEF RecordType
  <2> QED BY <2>1, <2>6, <2>8, <2>9, AlbumsKeep
<1> QED BY <1>1, <1>2

\* An album that is replaced: its assets are those the record tells.
LEMMA ReplacedAlbum ==
  ASSUME ShelfInv, NEW id \in DOMAIN shelf.albums, NEW album \in AlbumType, AlbumSound(album)
  PROVE  LET albums == [shelf.albums EXCEPT ![id] = album]
         IN /\ [shelf EXCEPT !.albums[id] = album] = [shelf EXCEPT !.albums = albums]
            /\ albums \in AlbumsType /\ DOMAIN albums = DOMAIN shelf.albums
            /\ \A k \in DOMAIN albums : AlbumSound(albums[k])
            /\ Members(albums) = (Members(shelf.albums) \ ({id} \X Range(shelf.albums[id].items)))
                                    \cup ({id} \X Range(album.items))
<1> DEFINE old == shelf.albums
           albums == [old EXCEPT ![id] = album]
<1>1. /\ DOMAIN old \in SUBSET AlbumIds /\ shelf \in ShelfType
      /\ \A k \in DOMAIN old : old[k] \in AlbumType /\ AlbumSound(old[k])
      /\ old = [k \in DOMAIN old |-> old[k]]
  BY ToldParts, ShelfParts
<1>2. [shelf EXCEPT !.albums[id] = album] = [shelf EXCEPT !.albums = albums]
  BY <1>1, Zenon DEF ShelfType
<1> HIDE DEF old
<1>3. /\ DOMAIN albums = DOMAIN old /\ id \in DOMAIN old /\ albums[id] = album
      /\ \A k \in DOMAIN old : k # id => albums[k] = old[k]
      /\ albums \in [DOMAIN old -> AlbumType]
  BY <1>1 DEF old
<1> HIDE DEF albums
<1>4. albums \in AlbumsType
  BY <1>1, <1>3 DEF AlbumsType
<1>5. \A k \in DOMAIN albums : AlbumSound(albums[k])
  BY <1>1, <1>3
<1>6. Members(albums) = (Members(old) \ ({id} \X Range(old[id].items))) \cup ({id} \X Range(album.items))
  <2>1. ASSUME NEW x
        PROVE  x \in Members(albums) <=>
                  \/ x \in Members(old) /\ x \notin {id} \X Range(old[id].items)
                  \/ x \in {id} \X Range(album.items)
    <3>1. x \in {id} \X Range(album.items) <=> \E a \in Range(album.items) : x = <<id, a>>
      OBVIOUS
    <3>2. x \in {id} \X Range(old[id].items) <=> \E a \in Range(old[id].items) : x = <<id, a>>
      OBVIOUS
    <3>3. \A k, a, b : <<k, a>> = <<id, b>> => k = id
      OBVIOUS
    <3>4. x \in Members(albums) <=> \E k \in DOMAIN albums : \E a \in Range(albums[k].items) : x = <<k, a>>
      BY MembersAre
    <3>5. x \in Members(old) <=> \E k \in DOMAIN old : \E a \in Range(old[k].items) : x = <<k, a>>
      BY MembersAre
    <3> QED BY <1>3, <3>1, <3>2, <3>3, <3>4, <3>5
  <2> QED BY <2>1
<1> QED BY <1>2, <1>3, <1>4, <1>5, <1>6 DEF old, albums

\* What is added comes after what the album has.
LEMMA add_album_assets_keeps ==
  ASSUME ShelfInv, NEW id \in DOMAIN shelf.albums, NEW chosen, add_album_assets(id, chosen)
  PROVE  ShelfInv'
<1> DEFINE old == shelf.albums[id]
           more == Sorted(chosen \ Range(old.items))
           items == old.items \o more
           cover == IF old.cover = NoCover THEN FirstOf(items) ELSE old.cover
           album == [items |-> items, cover |-> cover]
           albums == [shelf.albums EXCEPT ![id] = album]
           record == [kind |-> "add", album |-> id, assets |-> chosen]
<1>1. CASE ~validate_asset_ids(chosen)
  BY <1>1, RefusedChangeKeeps DEF add_album_assets, RefusedChange
<1>2. CASE validate_asset_ids(chosen)
  <2>1. Changed([shelf EXCEPT !.albums[id] = album], record)
    BY <1>2 DEF add_album_assets
  <2>2. chosen \in SUBSET Items
    BY <1>2 DEF validate_asset_ids
  <2>3. /\ Told(shelf) = [flags |-> shelf.flags, tags |-> shelf.tags, albums |-> DOMAIN shelf.albums,
                          members |-> Members(shelf.albums)]
        /\ DOMAIN shelf.albums \in SUBSET AlbumIds
        /\ old.items \in Seq(Items) /\ old.cover \in Items \cup {NoCover} /\ AlbumSound(old)
    BY ToldParts
  <2>4. /\ items \in Seq(Items) /\ IsInjective(items) /\ Range(items) = Range(old.items) \cup chosen
    <3> DEFINE new == chosen \ Range(old.items)
    <3>1. new \in SUBSET Items /\ new \cap Range(old.items) = {} /\ Range(old.items) \cup new = Range(old.items) \cup chosen
      BY <2>2
    <3> HIDE DEF new
    <3>2. Sorted(new) \in Seq(Items) /\ IsInjective(Sorted(new)) /\ Range(Sorted(new)) = new
      BY <3>1, SortedItems
    <3>3. IsInjective(old.items)
      BY <2>3 DEF AlbumSound
    <3> DEFINE first == old.items
    <3> HIDE DEF first
    <3>4. first \in Seq(Items) /\ IsInjective(first) /\ Range(first) \cap Range(Sorted(new)) = {}
      BY <2>3, <3>1, <3>2, <3>3 DEF first
    <3>5. /\ first \o Sorted(new) \in Seq(Items) /\ IsInjective(first \o Sorted(new))
          /\ Range(first \o Sorted(new)) = Range(first) \cup Range(Sorted(new))
      BY <3>2, <3>4, JoinedItems
    <3> QED BY <3>1, <3>2, <3>5 DEF first, new
  <2> HIDE DEF items, more
  <2>5. /\ FirstOf(items) \in Items \cup {NoCover} /\ (items = <<>> => FirstOf(items) = NoCover)
        /\ (items # <<>> => FirstOf(items) \in Range(items)) /\ (items = <<>> <=> Range(items) = {})
    BY <2>4, FirstIsThere
  <2>6. NoCover \notin Range(old.items) /\ (old.items = <<>> <=> Range(old.items) = {})
    BY <2>3, FirstIsThere
  <2>7. album.items = items /\ album \in AlbumType /\ AlbumSound(album)
    <3>1. cover \in Items \cup {NoCover}
      BY <2>3, <2>5
    <3>2. IF items = <<>> THEN cover = NoCover ELSE cover \in Range(items)
      <4>1. CASE old.cover = NoCover
        BY <2>5, <4>1
      <4>2. CASE old.cover # NoCover
        <5>1. old.cover \in Range(old.items)
          BY <2>3, <4>2 DEF AlbumSound, Covered
        <5> QED BY <2>4, <2>5, <4>2, <5>1
      <4> QED BY <4>1, <4>2
    <3> HIDE DEF cover
    <3> QED BY <2>4, <3>1, <3>2 DEF AlbumType, AlbumSound, Covered
  <2> HIDE DEF album
  <2>8. /\ [shelf EXCEPT !.albums[id] = album] = [shelf EXCEPT !.albums = albums]
        /\ albums \in AlbumsType /\ DOMAIN albums = DOMAIN shelf.albums
        /\ \A k \in DOMAIN albums : AlbumSound(albums[k])
        /\ Members(albums) = (Members(shelf.albums) \ ({id} \X Range(old.items)))
                                \cup ({id} \X Range(album.items))
    BY <2>7, ReplacedAlbum
  <2> HIDE DEF albums
  <2>9. Members(albums) = Members(shelf.albums) \cup {id} \X chosen
    <3>1. {id} \X Range(album.items) = ({id} \X Range(old.items)) \cup ({id} \X chosen)
      BY <2>4, <2>7
    <3>2. {id} \X Range(old.items) \subseteq Members(shelf.albums)
      BY DEF Members
    <3> QED BY <2>8, <3>1, <3>2
  <2>10. Retold(Told(shelf), record) =
            [flags |-> shelf.flags, tags |-> shelf.tags, albums |-> DOMAIN albums, members |-> Members(albums)]
    <3>1. record.kind = "add" /\ record.album = id /\ record.assets = chosen
      OBVIOUS
    <3> HIDE DEF record
    <3>2. Retold(Told(shelf), record) =
           [flags |-> shelf.flags, tags |-> shelf.tags, albums |-> DOMAIN shelf.albums, members |-> Members(shelf.albums) \cup ({record.album} \X record.assets)]
      BY <3>1, RetoldAlbums
    <3> QED BY <2>3, <2>8, <2>9, <3>1, <3>2
  <2>11. record \in RecordType
    BY <2>2, <2>3 DEF RecordType
  <2> QED BY <2>1, <2>8, <2>10, <2>11, AlbumsKeep
<1> QED BY <1>1, <1>2

\* What is taken out leaves the rest in its order, with another cover if that was taken.
LEMMA remove_album_assets_keeps ==
  ASSUME ShelfInv, NEW id \in DOMAIN shelf.albums, NEW chosen \in Requests, remove_album_assets(id, chosen)
  PROVE  ShelfInv'
<1> DEFINE old == shelf.albums[id]
           items == Without(old.items, chosen)
           cover == CoverAfter(old, items, chosen)
           album == [items |-> items, cover |-> cover]
           albums == [shelf.albums EXCEPT ![id] = album]
           record == [kind |-> "remove", album |-> id, assets |-> chosen]
<1>1. Changed([shelf EXCEPT !.albums[id] = album], record)
  BY DEF remove_album_assets
<1>2. /\ Told(shelf) = [flags |-> shelf.flags, tags |-> shelf.tags, albums |-> DOMAIN shelf.albums,
                        members |-> Members(shelf.albums)]
      /\ DOMAIN shelf.albums \in SUBSET AlbumIds
      /\ old.items \in Seq(Items) /\ old.cover \in Items \cup {NoCover} /\ AlbumSound(old)
  BY ToldParts
<1>3. items \in Seq(Items) /\ IsInjective(items) /\ Range(items) = Range(old.items) \ chosen
  BY <1>2, KeptItems DEF AlbumSound
<1> HIDE DEF items
<1>4. /\ FirstOf(items) \in Items \cup {NoCover} /\ (items = <<>> => FirstOf(items) = NoCover)
      /\ (items # <<>> => FirstOf(items) \in Range(items)) /\ (items = <<>> <=> Range(items) = {})
  BY <1>3, FirstIsThere
<1>5. /\ NoCover \notin Range(old.items) /\ (old.items = <<>> <=> Range(old.items) = {})
  BY <1>2, FirstIsThere
<1>6. album.items = items /\ album \in AlbumType /\ AlbumSound(album)
  <2>1. cover \in Items \cup {NoCover}
    BY <1>2, <1>4 DEF CoverAfter
  <2>2. IF items = <<>> THEN cover = NoCover ELSE cover \in Range(items)
    <3>1. CASE old.cover \in chosen
      BY <1>4, <3>1 DEF CoverAfter
    <3>2. CASE old.cover \notin chosen
      <4>1. cover = old.cover
        BY <3>2 DEF CoverAfter
      <4>2. IF old.items = <<>> THEN old.cover = NoCover ELSE old.cover \in Range(old.items)
        BY <1>2 DEF AlbumSound, Covered
      <4>3. old.items # <<>> => old.cover \in Range(items)
        BY <1>3, <3>2, <4>2
      <4>4. old.items = <<>> => items = <<>>
        BY <1>3, <1>4, <1>5
      <4> QED BY <1>4, <4>1, <4>2, <4>3, <4>4
    <3> QED BY <3>1, <3>2
  <2> HIDE DEF cover
  <2> QED BY <1>3, <2>1, <2>2 DEF AlbumType, AlbumSound, Covered
<1> HIDE DEF album
<1>7. /\ [shelf EXCEPT !.albums[id] = album] = [shelf EXCEPT !.albums = albums]
      /\ albums \in AlbumsType /\ DOMAIN albums = DOMAIN shelf.albums
      /\ \A k \in DOMAIN albums : AlbumSound(albums[k])
      /\ Members(albums) = (Members(shelf.albums) \ ({id} \X Range(old.items)))
                              \cup ({id} \X Range(album.items))
  BY <1>6, ReplacedAlbum
<1> HIDE DEF albums
<1>8. Members(albums) = Members(shelf.albums) \ ({id} \X chosen)
  <2>1. \A x \in Members(shelf.albums) : x \in {id} \X chosen => x \in {id} \X Range(old.items)
    <3> SUFFICES ASSUME NEW x \in Members(shelf.albums), NEW b \in chosen, x = <<id, b>>
                 PROVE  b \in Range(old.items)
      OBVIOUS
    <3>1. PICK k \in DOMAIN shelf.albums : \E a \in Range(shelf.albums[k].items) : x = <<k, a>>
      BY MembersAre
    <3> QED BY <3>1
  <2>2. {id} \X Range(album.items) = ({id} \X Range(old.items)) \ ({id} \X chosen)
    BY <1>3, <1>6
  <2>3. {id} \X Range(old.items) \subseteq Members(shelf.albums)
    BY DEF Members
  <2> QED BY <1>7, <2>1, <2>2, <2>3
<1>9. Retold(Told(shelf), record) =
         [flags |-> shelf.flags, tags |-> shelf.tags, albums |-> DOMAIN albums, members |-> Members(albums)]
  <2>1. record.kind = "remove" /\ record.album = id /\ record.assets = chosen
    OBVIOUS
  <2> HIDE DEF record
  <2>2. Retold(Told(shelf), record) =
         [flags |-> shelf.flags, tags |-> shelf.tags, albums |-> DOMAIN shelf.albums, members |-> Members(shelf.albums) \ ({record.album} \X record.assets)]
    BY <2>1, RetoldAlbums
  <2> QED BY <1>2, <1>7, <1>8, <2>1, <2>2
<1>10. record \in RecordType
  BY <1>2 DEF RecordType, Requests
<1> QED BY <1>1, <1>7, <1>9, <1>10, AlbumsKeep

\* A deleted album takes its members with it.
LEMMA delete_album_keeps ==
  ASSUME ShelfInv, NEW id \in DOMAIN shelf.albums, delete_album(id)
  PROVE  ShelfInv'
<1> DEFINE old == shelf.albums
           albums == [k \in DOMAIN old \ {id} |-> old[k]]
           record == [kind |-> "delete", album |-> id]
<1>1. Changed([shelf EXCEPT !.albums = albums], record)
  BY DEF delete_album
<1>2. /\ Told(shelf) = [flags |-> shelf.flags, tags |-> shelf.tags, albums |-> DOMAIN old,
                        members |-> Members(old)]
      /\ DOMAIN old \in SUBSET AlbumIds /\ id \in DOMAIN old
      /\ \A k \in DOMAIN old : old[k] \in AlbumType /\ AlbumSound(old[k]) /\ old[k].items \in Seq(Items)
  BY ToldParts
<1> HIDE DEF old
<1>3. /\ DOMAIN albums = DOMAIN old \ {id} /\ \A k \in DOMAIN albums : albums[k] = old[k]
      /\ albums \in [DOMAIN old \ {id} -> AlbumType]
  BY <1>2
<1> HIDE DEF albums
<1>4. albums \in AlbumsType /\ \A k \in DOMAIN albums : AlbumSound(albums[k])
  BY <1>2, <1>3 DEF AlbumsType
<1>5. Members(albums) = Members(old) \ ({id} \X Items)
  <2>1. ASSUME NEW x PROVE x \in Members(albums) <=> x \in Members(old) /\ x \notin {id} \X Items
    <3>1. x \in Members(albums) <=> \E k \in DOMAIN albums : \E a \in Range(albums[k].items) : x = <<k, a>>
      BY MembersAre
    <3>2. x \in Members(old) <=> \E k \in DOMAIN old : \E a \in Range(old[k].items) : x = <<k, a>>
      BY MembersAre
    <3>3. \A k \in DOMAIN old : Range(old[k].items) \subseteq Items
      BY <1>2, FirstIsThere
    <3>4. ASSUME NEW k \in DOMAIN old, NEW a \in Range(old[k].items), x = <<k, a>>
          PROVE  x \in {id} \X Items <=> k = id
      BY <3>3, <3>4
    <3> QED BY <1>3, <3>1, <3>2, <3>4
  <2> QED BY <2>1
<1>6. Retold(Told(shelf), record) =
         [flags |-> shelf.flags, tags |-> shelf.tags, albums |-> DOMAIN albums, members |-> Members(albums)]
  <2>1. record.kind = "delete" /\ record.album = id
    OBVIOUS
  <2> HIDE DEF record
  <2>2. Retold(Told(shelf), record) =
         [flags |-> shelf.flags, tags |-> shelf.tags, albums |-> DOMAIN shelf.albums \ {record.album}, members |-> Members(shelf.albums) \ ({record.album} \X Items)]
    BY <2>1, RetoldAlbums
  <2> QED BY <1>2, <1>3, <1>5, <2>1, <2>2 DEF old
<1>7. record \in RecordType
  BY <1>2 DEF RecordType
<1> QED BY <1>1, <1>4, <1>6, <1>7, AlbumsKeep

\* A record of what changes no album, flag or tag.
LEMMA RenamedKeeps ==
  ASSUME ShelfInv, NEW record \in RecordType, record.kind = "rename", Changed(shelf, record)
  PROVE  ShelfInv'
<1>1. Retold(Told(shelf), record) = Told(shelf)
  BY DEF Retold
<1> QED BY <1>1, ToldParts, ChangedKeeps

\* Saved searches are told by no record.
LEMMA SearchesKeep ==
  ASSUME ShelfInv, create_smart_folder \/ delete_smart_folder
  PROVE  ShelfInv'
<1>1. shelf \in ShelfType /\ shelf.searches \in Nat
  BY DEF ShelfInv, ShelfSound, ShelfType
<1>2. PICK n \in Nat : SaveShelf([shelf EXCEPT !.searches = n])
  <2>1. CASE create_smart_folder
    BY <1>1, <2>1 DEF create_smart_folder
  <2>2. CASE delete_smart_folder
    <3>1. shelf.searches - 1 \in Nat
      BY <1>1, <2>2 DEF delete_smart_folder
    <3> QED BY <2>2, <3>1 DEF delete_smart_folder
  <2> QED BY <2>1, <2>2
<1> DEFINE s == [shelf EXCEPT !.searches = n]
<1>3. /\ s \in ShelfType /\ s.albums = shelf.albums /\ s.flags = shelf.flags /\ s.tags = shelf.tags
      /\ s.feedback = shelf.feedback
  BY <1>1 DEF ShelfType
<1> HIDE DEF s
<1>4. Told(s) = Told(shelf)
  BY <1>3 DEF Told
<1>5. ShelfSound(s)
  BY <1>3, <1>4 DEF ShelfInv, ShelfSound
<1> QED BY <1>2, <1>5, SaveShelfKeeps DEF s

\* A restart loads a shelf that was saved.
LEMMA RestartShelfKeeps ==
  ASSUME ShelfInv, RestartShelf
  PROVE  ShelfInv'
<1>1. shelf' = load_shelf(shelfRows) /\ shelfRows' = shelfRows
  BY DEF RestartShelf
<1>2. PICK s : ShelfSound(s) /\ shelfRows = SavedShelf(s)
  BY DEF ShelfInv
<1>3. shelf' = s
  BY <1>1, <1>2, LoadedIsSaved
<1>4. ShelfSound(shelf') /\ \E t : ShelfSound(t) /\ shelfRows' = SavedShelf(t)
  BY <1>1, <1>2, <1>3
<1> QED BY <1>4, SoundShelfLater

\* An empty shelf, of which nothing has been told.
LEMMA ShelfBegins ==
  ASSUME ShelfInit
  PROVE  ShelfInv
<1> DEFINE none == [a \in Items |-> {}]
           empty == [id \in {} |-> 0]
<1>1. /\ shelf = [flags |-> none, tags |-> none, albums |-> empty, searches |-> 0, feedback |-> <<>>]
      /\ shelfRows = SavedShelf(shelf)
  BY DEF ShelfInit
<1>2. empty \in AlbumsType /\ DOMAIN empty = {}
  <2>1. empty \in [{} -> AlbumType] /\ {} \in SUBSET AlbumIds
    OBVIOUS
  <2> QED BY <2>1 DEF AlbumsType
<1>3. <<>> \in Seq(EntryType) /\ Len(<<>>) = 0
  OBVIOUS
<1>4. none \in [Items -> SUBSET Flags] /\ none \in [Items -> SUBSET TagNames]
  OBVIOUS
<1>5. Played(<<>>) = Untouched
  <2>1. Len(<<>>) \in Nat
    BY <1>3
  <2>2. PICK told : told[0] = Untouched /\ Played(<<>>) = told[Len(<<>>)]
    BY <2>1, PlayedIsTold
  <2> QED BY <1>3, <2>2
<1> HIDE DEF empty, none
<1>6. Members(shelf.albums) = {}
  BY <1>1, <1>2 DEF Members
<1>7. Told(shelf) = [flags |-> none, tags |-> none, albums |-> {}, members |-> {}]
  BY <1>1, <1>2, <1>6 DEF Told, Members
<1>8. Told(shelf) = Played(shelf.feedback)
  BY <1>1, <1>5, <1>7 DEF Untouched, none
<1>9. shelf \in ShelfType
  BY <1>1, <1>2, <1>3, <1>4 DEF ShelfType
<1>10. ShelfSound(shelf)
  BY <1>1, <1>2, <1>8, <1>9 DEF ShelfSound
<1> QED BY <1>1, <1>10 DEF ShelfInv

\* Every change of the shelf is told, and what is saved is a shelf that was.
THEOREM ShelfInvariance == ShelfSpec => []ShelfInv
<1>1. ShelfInit => ShelfInv
  BY ShelfBegins
<1>2. ShelfInv /\ [ShelfNext]_shelfVars => ShelfInv'
  <2> SUFFICES ASSUME ShelfInv, [ShelfNext]_shelfVars PROVE ShelfInv'
    OBVIOUS
  <2>1. CASE UNCHANGED shelfVars
    BY <2>1, RefusedChangeKeeps DEF shelfVars
  <2>2. CASE \E chosen \in Requests, set, clear \in SUBSET Flags :
                set \cap clear = {} /\ set \cup clear # {} /\ update_assets_flags(chosen, set, clear)
    BY <2>2, update_assets_flags_keeps
  <2>3. CASE \E a \in Items, tags \in SUBSET TagNames : update_asset_tags(a, tags)
    BY <2>3, update_asset_tags_keeps
  <2>4. CASE \E id \in AlbumIds, chosen \in Requests \cup {{}} : create_album(id, chosen)
    BY <2>4, create_album_keeps
  <2>5. CASE \E id \in DOMAIN shelf.albums, chosen \in Requests :
                add_album_assets(id, chosen) \/ remove_album_assets(id, chosen)
    BY <2>5, add_album_assets_keeps, remove_album_assets_keeps
  <2>6. CASE \E id \in DOMAIN shelf.albums : delete_album(id)
    BY <2>6, delete_album_keeps
  <2>7. CASE \E id \in DOMAIN shelf.albums : rename_album(id)
    <3>1. PICK id \in DOMAIN shelf.albums : Changed(shelf, [kind |-> "rename", album |-> id])
      BY <2>7 DEF rename_album
    <3>2. [kind |-> "rename", album |-> id] \in RecordType
      <4>1. id \in AlbumIds
        BY ToldParts
      <4> QED BY <4>1 DEF RecordType
    <3> QED BY <3>1, <3>2, RenamedKeeps
  <2>8. CASE \E f \in Posted : record_feedback(f)
    BY <2>8, PostedKeeps
  <2>9. CASE create_smart_folder \/ delete_smart_folder
    BY <2>9, SearchesKeep
  <2>10. CASE RestartShelf
    BY <2>10, RestartShelfKeeps
  <2> QED BY <2>1, <2>2, <2>3, <2>4, <2>5, <2>6, <2>7, <2>8, <2>9, <2>10 DEF ShelfNext
<1> QED BY <1>1, <1>2, PTL DEF ShelfSpec

\* For any number of albums, assets, changes and posted records: a cover is of its album, and the
\* records of the service played over an empty library give the flags, tags and albums, in memory
\* and in the database.
THEOREM AlbumsAlwaysAgree == ShelfSpec => []AlbumsAgree
<1>1. ShelfInv => AlbumsAgree
  <2> SUFFICES ASSUME ShelfInv PROVE CoverIsOfItsAlbum /\ RecordsTellAll
    BY DEF AlbumsAgree
  <2>1. PICK s : ShelfSound(s) /\ shelfRows = SavedShelf(s)
    BY DEF ShelfInv
  <2>2. load_albums(shelfRows) = s.albums /\ load_shelf(shelfRows) = s /\ ShelfSound(shelf)
    BY <2>1, LoadedIsSaved DEF ShelfInv
  <2>3. CoverIsOfItsAlbum
    BY <2>1, <2>2 DEF ShelfSound, AlbumSound, Covered, CoverIsOfItsAlbum
  <2>4. RecordsTellAll
    BY <2>1, <2>2 DEF ShelfSound, RecordsTellAll
  <2> QED BY <2>3, <2>4
<1> QED BY <1>1, ShelfInvariance, PTL

-----------------------------------------------------------------------------
(***************************************************************************)
(* Theorems about FileTree, for any vaults, assets, names and legacy rows: *)
(* the tree that is shown hangs together below its roots, no entry becomes *)
(* live again unless a call or the evidence of the rows granted it, and    *)
(* no asset gets into a vault by itself.                                   *)
(*                                                                         *)
(* The argument. Every entry hangs on a folder of its vault, and some      *)
(* number falls on the way up (Ranked), so a climb from parent to parent   *)
(* never comes back, ends at the root, and has ended after as many rounds  *)
(* as there are entries, which is how often ancestor_file_entry_ids and    *)
(* descendant_file_entry_ids go round. Each call prepares the tree         *)
(* (defaults that change no mark) and then adds, moves or marks at most    *)
(* what it was asked to; a move keeps a falling number because the new     *)
(* parent is not below the folder, and what is trashed or restored goes    *)
(* with all that hangs below it. The saved rows are sound like the tree in *)
(* memory, for a restart goes back to them (TreeInv).  Only an asset of    *)
(* which all that is known names one vault gets a blob row or an entry by  *)
(* the defaults, and then there (PlacedFrom).                              *)
(***************************************************************************)

\* The parents of a set of entries, as far as they are there.
Parents(f, S) == {f[y].parent : y \in S} \cap DOMAIN f

\* The entries above x after so many rounds.
IsClimb(up, f, x, n) ==
    up = [k \in 0..n |-> IF k = 0 THEN {f[x].parent} \cap DOMAIN f ELSE up[k - 1] \cup Parents(f, up[k - 1])]

\* However many rounds there are, they can be done.
LEMMA CanClimb ==
  ASSUME NEW f, NEW x, NEW N \in Nat
  PROVE  \E up : IsClimb(up, f, x, N)
<1> DEFINE T == {n \in Nat : \E up : IsClimb(up, f, x, n)}
           first == {f[x].parent} \cap DOMAIN f
<1>1. 0 \in T
  <2>1. IsClimb([k \in 0..0 |-> first], f, x, 0)
    BY DEF IsClimb
  <2> QED BY <2>1
<1>2. ASSUME NEW n \in Nat, n \in T PROVE n + 1 \in T
  <2>1. PICK up : IsClimb(up, f, x, n)
    BY <1>2
  <2> DEFINE more == [k \in 0..n + 1 |-> IF k = n + 1 THEN up[n] \cup Parents(f, up[n]) ELSE up[k]]
  <2> HIDE DEF first
  <2>2. \A k \in 0..n : up[k] = IF k = 0 THEN first ELSE up[k - 1] \cup Parents(f, up[k - 1])
    BY <2>1 DEF IsClimb, first
  <2>3. ASSUME NEW k \in 0..n + 1
        PROVE  more[k] = IF k = 0 THEN first ELSE more[k - 1] \cup Parents(f, more[k - 1])
    <3>1. CASE k = n + 1
      BY <3>1
    <3>2. CASE k # n + 1
      <4>1. k \in 0..n /\ (k # 0 => k - 1 \in 0..n)
        BY <3>2
      <4>2. more[k] = up[k] /\ (k # 0 => more[k - 1] = up[k - 1])
        BY <3>2, <4>1
      <4>3. up[k] = IF k = 0 THEN first ELSE up[k - 1] \cup Parents(f, up[k - 1])
        BY <2>2, <4>1
      <4> HIDE DEF more
      <4> QED BY <4>2, <4>3
    <3> QED BY <3>1, <3>2
  <2>4. more = [k \in 0..n + 1 |-> more[k]]
    OBVIOUS
  <2> HIDE DEF more
  <2>5. IsClimb(more, f, x, n + 1)
    <3> DEFINE loop == [k \in 0..n + 1 |-> IF k = 0 THEN first ELSE more[k - 1] \cup Parents(f, more[k - 1])]
    <3>1. more = loop
      BY <2>3, <2>4
    <3> QED BY <3>1 DEF IsClimb, first
  <2>6. \E g : IsClimb(g, f, x, n + 1)
    BY <2>5
  <2> QED BY <2>6
<1> HIDE DEF T
<1>3. N \in T
  BY <1>1, <1>2, TurnByTurn
<1> QED BY <1>3 DEF T

\* The rounds whose last gives the ancestors.
LEMMA AncestorsByRounds ==
  ASSUME NEW f, NEW x, IsFiniteSet(DOMAIN f)
  PROVE  \E up : /\ up[0] = {f[x].parent} \cap DOMAIN f
                 /\ \A k \in 1..Cardinality(DOMAIN f) : up[k] = up[k - 1] \cup Parents(f, up[k - 1])
                 /\ ancestor_file_entry_ids(f, x) = up[Cardinality(DOMAIN f)]
<1> DEFINE N == Cardinality(DOMAIN f)
           up == CHOOSE up : up = [n \in 0..N |-> IF n = 0 THEN {f[x].parent} \cap DOMAIN f
                                                ELSE up[n - 1] \cup Parents(f, up[n - 1])]
<1>1. up = [n \in 0..N |-> IF n = 0 THEN {f[x].parent} \cap DOMAIN f ELSE up[n - 1] \cup Parents(f, up[n - 1])]
  <2> HIDE DEF N
  <2>1. N \in Nat
    BY FS_CardinalityType DEF N
  <2>2. \E g : IsClimb(g, f, x, N)
    BY <2>1, CanClimb
  <2>3. \E g : g = [n \in 0..N |-> IF n = 0 THEN {f[x].parent} \cap DOMAIN f ELSE g[n - 1] \cup Parents(f, g[n - 1])]
    BY <2>2, Zenon DEF IsClimb
  <2> QED BY <2>3, Zenon
<1>2. ancestor_file_entry_ids(f, x) = up[N]
  BY DEF ancestor_file_entry_ids, Parents
<1> HIDE DEF up, N
<1>3. N \in Nat
  BY FS_CardinalityType DEF N
<1>4. up[0] = {f[x].parent} \cap DOMAIN f /\ \A k \in 1..N : up[k] = up[k - 1] \cup Parents(f, up[k - 1])
  <2>1. \A k \in 0..N : up[k] = IF k = 0 THEN {f[x].parent} \cap DOMAIN f ELSE up[k - 1] \cup Parents(f, up[k - 1])
    BY <1>1
  <2>2. 0 \in 0..N /\ \A k \in 1..N : k \in 0..N /\ k # 0
    BY <1>3
  <2> QED BY <2>1, <2>2, Zenon
<1> QED BY <1>2, <1>4 DEF N

Above(f, S) == \A y \in S : f[y].parent \in DOMAIN f => f[y].parent \in S

\* The ancestors of an entry: its parent, theirs, and nothing else.  There are
\* no more rounds than entries, and a round that finds nothing new is the last.
LEMMA Ancestors ==
  ASSUME NEW f, NEW x, IsFiniteSet(DOMAIN f)
  PROVE  /\ ancestor_file_entry_ids(f, x) \subseteq DOMAIN f
         /\ f[x].parent \in DOMAIN f => f[x].parent \in ancestor_file_entry_ids(f, x)
         /\ Above(f, ancestor_file_entry_ids(f, x))
         /\ \A S : (f[x].parent \in DOMAIN f => f[x].parent \in S) /\ Above(f, S)
                      => ancestor_file_entry_ids(f, x) \subseteq S
<1> DEFINE N == Cardinality(DOMAIN f)
           A == ancestor_file_entry_ids(f, x)
<1>1. PICK up : /\ up[0] = {f[x].parent} \cap DOMAIN f
                /\ \A k \in 1..N : up[k] = up[k - 1] \cup Parents(f, up[k - 1])
                /\ A = up[N]
  BY AncestorsByRounds
<1> HIDE DEF A, N
<1>2. N \in Nat
  BY FS_CardinalityType DEF N
<1>3. \A k \in Nat : k + 1 <= N => up[k + 1] = up[k] \cup Parents(f, up[k])
  <2> SUFFICES ASSUME NEW k \in Nat, k + 1 <= N PROVE up[k + 1] = up[k] \cup Parents(f, up[k])
    OBVIOUS
  <2>1. k + 1 \in 1..N /\ (k + 1) - 1 = k
    BY <1>2
  <2> QED BY <1>1, <2>1
<1>4. \A S : (f[x].parent \in DOMAIN f => f[x].parent \in S) /\ Above(f, S) => A \subseteq S
  <2> SUFFICES ASSUME NEW S, f[x].parent \in DOMAIN f => f[x].parent \in S, Above(f, S) PROVE A \subseteq S
    OBVIOUS
  <2> DEFINE T == {k \in Nat : k <= N => up[k] \subseteq S}
  <2>1. 0 \in T
    BY <1>1
  <2>2. ASSUME NEW k \in Nat, k \in T PROVE k + 1 \in T
    <3> SUFFICES ASSUME k + 1 <= N PROVE up[k + 1] \subseteq S
      OBVIOUS
    <3>1. up[k] \subseteq S
      BY <1>2, <2>2
    <3>2. Parents(f, up[k]) \subseteq S
      BY <3>1 DEF Above, Parents
    <3> QED BY <1>3, <3>1, <3>2
  <2> HIDE DEF T
  <2>3. N \in T
    BY <1>2, <2>1, <2>2, TurnByTurn
  <2> QED BY <1>1, <1>2, <2>3 DEF T
<1>5. A \subseteq DOMAIN f
  <2>1. Above(f, DOMAIN f)
    BY DEF Above
  <2> QED BY <1>4, <2>1
<1>6. f[x].parent \in DOMAIN f => f[x].parent \in A
  <2> SUFFICES ASSUME f[x].parent \in DOMAIN f PROVE f[x].parent \in A
    OBVIOUS
  <2> DEFINE T == {k \in Nat : k <= N => f[x].parent \in up[k]}
  <2>1. 0 \in T
    BY <1>1
  <2>2. ASSUME NEW k \in Nat, k \in T PROVE k + 1 \in T
    BY <1>2, <1>3, <2>2
  <2> HIDE DEF T
  <2>3. N \in T
    BY <1>2, <2>1, <2>2, TurnByTurn
  <2> QED BY <1>1, <1>2, <2>3 DEF T
<1>7. Above(f, A)
  \* Either a round found nothing new, and none after it, or each found an entry.
  <2> DEFINE T == {k \in Nat : k <= N => /\ IsFiniteSet(up[k]) /\ up[k] \subseteq DOMAIN f
                                         /\ Above(f, up[k]) \/ Cardinality(up[k]) > k}
  <2>1. 0 \in T
    <3>1. IsFiniteSet(up[0]) /\ up[0] \subseteq DOMAIN f
      BY <1>1, FS_Subset
    <3>2. CASE up[0] = {}
      BY <3>1, <3>2 DEF Above
    <3>3. CASE up[0] # {}
      <4>1. Cardinality(up[0]) \in Nat /\ Cardinality(up[0]) # 0
        BY <3>1, <3>3, FS_CardinalityType, FS_EmptySet
      <4> QED BY <3>1, <4>1
    <3> QED BY <3>2, <3>3
  <2>2. ASSUME NEW k \in Nat, k \in T PROVE k + 1 \in T
    <3> SUFFICES ASSUME k + 1 <= N
                 PROVE  /\ IsFiniteSet(up[k + 1]) /\ up[k + 1] \subseteq DOMAIN f
                        /\ Above(f, up[k + 1]) \/ Cardinality(up[k + 1]) > k + 1
      OBVIOUS
    <3>1. /\ IsFiniteSet(up[k]) /\ up[k] \subseteq DOMAIN f
          /\ Above(f, up[k]) \/ Cardinality(up[k]) > k
      BY <1>2, <2>2
    <3>2. up[k + 1] = up[k] \cup Parents(f, up[k]) /\ up[k + 1] \subseteq DOMAIN f
      BY <1>3, <3>1 DEF Parents
    <3>3. IsFiniteSet(up[k + 1])
      BY <3>2, FS_Subset
    <3>4. CASE Parents(f, up[k]) \subseteq up[k]
      <4>1. up[k + 1] = up[k] /\ Above(f, up[k])
        BY <3>1, <3>2, <3>4 DEF Above, Parents
      <4> QED BY <3>2, <3>3, <4>1
    <3>5. CASE ~(Parents(f, up[k]) \subseteq up[k])
      <4>1. ~Above(f, up[k])
        BY <3>5 DEF Above, Parents
      <4>2. Cardinality(up[k]) > k
        BY <3>1, <4>1
      <4>3. up[k] \subseteq up[k + 1] /\ up[k] # up[k + 1]
        BY <3>2, <3>5
      <4>4. Cardinality(up[k]) \in Nat /\ Cardinality(up[k + 1]) \in Nat
        BY <3>1, <3>3, FS_CardinalityType
      <4>5. Cardinality(up[k]) <= Cardinality(up[k + 1]) /\ Cardinality(up[k]) # Cardinality(up[k + 1])
        BY <3>3, <4>3, FS_Subset
      <4> QED BY <3>2, <3>3, <4>2, <4>4, <4>5
    <3> QED BY <3>4, <3>5
  <2> HIDE DEF T
  <2>3. N \in T
    BY <1>2, <2>1, <2>2, TurnByTurn
  <2>4. /\ IsFiniteSet(A) /\ A \subseteq DOMAIN f
        /\ Above(f, A) \/ Cardinality(A) > N
    BY <1>1, <1>2, <2>3 DEF T
  <2>5. Cardinality(A) <= N
    BY <2>4, FS_Subset DEF N
  <2>6. Cardinality(A) \in Nat
    BY <2>4, FS_CardinalityType
  <2> QED BY <1>2, <2>4, <2>5, <2>6
<1> QED BY <1>4, <1>5, <1>6, <1>7 DEF A

-----------------------------------------------------------------------------
EntryIds ==
    ({"root"} \X TreeVaults \X {0}) \cup ({"folder"} \X TreeVaults \X Folders)
        \cup ({"file"} \X TreeVaults \X TreeAssets)
Entry == [parent : EntryIds \cup {Top}, name : Names, trashed : BOOLEAN]
EntriesType == UNION {[D -> Entry] : D \in SUBSET EntryIds}
TreeType ==
    [assets : SUBSET TreeAssets, owner : [TreeAssets -> TreeVaults \cup {Unowned}],
     blobs : SUBSET (TreeVaults \X TreeAssets), receipts : SUBSET (TreeVaults \X TreeAssets),
     entries : EntriesType]

\* An entry hangs below a folder of its vault, live when it is; a file of an old library may hang nowhere.
Linked(f) ==
    \A x \in DOMAIN f :
        IF IsRoot(x) THEN f[x].parent = Top /\ ~f[x].trashed
        ELSE \/ /\ f[x].parent \in DOMAIN f /\ IsFolder(f[x].parent)
                /\ VaultOf(f[x].parent) = VaultOf(x) /\ (f[f[x].parent].trashed => f[x].trashed)
             \/ f[x].parent = Top /\ ~IsFolder(x)

\* No entry is above itself: some number falls on the way up.
Falls(f, rank) == \A x \in DOMAIN f : f[x].parent \in DOMAIN f => rank[f[x].parent] < rank[x]
Ranked(f) == \E rank \in [DOMAIN f -> Nat] : Falls(f, rank)

Forest(f) == f \in EntriesType /\ (\A v \in TreeVaults : Root(v) \in DOMAIN f) /\ Linked(f) /\ Ranked(f)

\* What is known of assets is of assets that are there.
OfAssets(t) ==
    /\ \A x \in DOMAIN t.entries : ~IsFolder(x) => x[3] \in t.assets
    /\ \A b \in t.blobs \cup t.receipts : b[2] \in t.assets

TreeSound(t) == t \in TreeType /\ Forest(t.entries) /\ OfAssets(t)

TreeInv ==
    /\ TreeSound(tree) /\ TreeSound(treeRows)
    /\ inQuarantine \subseteq tree.assets /\ inQuarantine \subseteq treeRows.assets
    /\ treeCalls \in Nat

\* The kinds of entries are apart, and there are finitely many.
LEMMA EntryKinds ==
  /\ \A x \in EntryIds :
        /\ x[2] \in TreeVaults /\ VaultOf(x) = x[2]
        /\ IsRoot(x) => x = Root(x[2]) /\ IsFolder(x)
        /\ ~IsFolder(x) => x = EntryOf(x[2], x[3]) /\ x[3] \in TreeAssets /\ x[1] = "file"
        /\ ~IsRoot(x) /\ IsFolder(x) => x[1] = "folder"
  /\ \A v \in TreeVaults : Root(v) \in EntryIds /\ IsRoot(Root(v)) /\ VaultOf(Root(v)) = v /\ Root(v)[2] = v
  /\ \A v \in TreeVaults, a \in TreeAssets :
        /\ EntryOf(v, a) \in EntryIds /\ ~IsRoot(EntryOf(v, a)) /\ ~IsFolder(EntryOf(v, a))
        /\ VaultOf(EntryOf(v, a)) = v /\ EntryOf(v, a)[2] = v /\ EntryOf(v, a)[3] = a
  /\ Top \notin EntryIds /\ IsFiniteSet(EntryIds)
<1>1. \A x \in EntryIds :
        /\ x[2] \in TreeVaults /\ VaultOf(x) = x[2]
        /\ IsRoot(x) => x = Root(x[2]) /\ IsFolder(x)
        /\ ~IsFolder(x) => x = EntryOf(x[2], x[3]) /\ x[3] \in TreeAssets /\ x[1] = "file"
        /\ ~IsRoot(x) /\ IsFolder(x) => x[1] = "folder"
  BY DEF EntryIds, VaultOf, IsRoot, IsFolder, Root, EntryOf
<1>2. \A v \in TreeVaults : Root(v) \in EntryIds /\ IsRoot(Root(v)) /\ VaultOf(Root(v)) = v /\ Root(v)[2] = v
  BY DEF EntryIds, VaultOf, IsRoot, Root
<1>3. \A v \in TreeVaults, a \in TreeAssets :
        /\ EntryOf(v, a) \in EntryIds /\ ~IsRoot(EntryOf(v, a)) /\ ~IsFolder(EntryOf(v, a))
        /\ VaultOf(EntryOf(v, a)) = v /\ EntryOf(v, a)[2] = v /\ EntryOf(v, a)[3] = a
  BY DEF EntryIds, VaultOf, IsRoot, IsFolder, EntryOf
<1>4. Top \notin EntryIds
  BY DEF EntryIds, Top
<1>5. IsFiniteSet(EntryIds)
  <2> DEFINE P(k, S) == {k} \X TreeVaults \X S
  <2>1. ASSUME NEW k, NEW S, IsFiniteSet(S) PROVE IsFiniteSet(P(k, S))
    <3> DEFINE pairs == TreeVaults \X S
               triple == [p \in pairs |-> <<k, p[1], p[2]>>]
    <3>1. IsFiniteSet(pairs)
      BY <2>1, TreeAssumption, FS_Product
    <3>2. P(k, S) \subseteq {triple[p] : p \in pairs}
      <4> SUFFICES ASSUME NEW x \in P(k, S) PROVE \E p \in pairs : x = triple[p]
        OBVIOUS
      <4>1. x = <<k, x[2], x[3]>> /\ x[2] \in TreeVaults /\ x[3] \in S
        OBVIOUS
      <4>2. <<x[2], x[3]>> \in pairs
        BY <4>1
      <4> QED BY <4>1, <4>2
    <3> HIDE DEF pairs
    <3>3. IsFiniteSet({triple[p] : p \in pairs})
      <4>1. triple \in [pairs -> {triple[p] : p \in pairs}]
        OBVIOUS
      <4>2. triple \in Surjection(pairs, {triple[p] : p \in pairs})
        BY <4>1 DEF Surjection
      <4> QED BY <3>1, <4>2, FS_Surjection
    <3> QED BY <3>2, <3>3, FS_Subset
  <2>2. IsFiniteSet({0}) /\ IsFiniteSet(Folders) /\ IsFiniteSet(TreeAssets)
    BY TreeAssumption, FS_Singleton
  <2>3. IsFiniteSet(P("root", {0})) /\ IsFiniteSet(P("folder", Folders)) /\ IsFiniteSet(P("file", TreeAssets))
    BY <2>1, <2>2
  <2>4. EntryIds = P("root", {0}) \cup P("folder", Folders) \cup P("file", TreeAssets)
    BY DEF EntryIds
  <2> HIDE DEF P
  <2> QED BY <2>3, <2>4, FS_Union
<1> QED BY <1>1, <1>2, <1>3, <1>4, <1>5

\* What is known of one entry of a forest.
LEMMA EntryOfForest ==
  ASSUME NEW f, Forest(f), NEW x \in DOMAIN f
  PROVE  /\ x \in EntryIds /\ f[x] \in Entry /\ IsFiniteSet(DOMAIN f) /\ DOMAIN f \subseteq EntryIds
         /\ IsRoot(x) => f[x].parent = Top /\ ~f[x].trashed
         /\ ~IsRoot(x) /\ IsFolder(x) => f[x].parent \in DOMAIN f
         /\ f[x].parent \in DOMAIN f => /\ IsFolder(f[x].parent) /\ VaultOf(f[x].parent) = VaultOf(x)
                                        /\ ~IsRoot(x) /\ (f[f[x].parent].trashed => f[x].trashed)
         /\ f[x].parent \notin DOMAIN f => f[x].parent = Top
<1>1. /\ f \in [DOMAIN f -> Entry] /\ DOMAIN f \subseteq EntryIds
  BY DEF Forest, EntriesType
<1>2. IsFiniteSet(DOMAIN f) /\ Top \notin DOMAIN f
  BY <1>1, EntryKinds, FS_Subset
<1> QED BY <1>1, <1>2 DEF Forest, Linked

\* Leaves may be hung anywhere: new entries, and files, which nothing hangs below.
LEMMA LeavesHang ==
  ASSUME NEW f, Forest(f), NEW g \in EntriesType, DOMAIN f \subseteq DOMAIN g,
         \A x \in DOMAIN g :
            \/ x \in DOMAIN f /\ g[x] = f[x]
            \/ /\ x \notin DOMAIN f \/ ~IsFolder(x)
               /\ ~IsRoot(x) /\ g[x].parent \in DOMAIN f /\ IsFolder(g[x].parent)
               /\ VaultOf(g[x].parent) = VaultOf(x) /\ (f[g[x].parent].trashed => g[x].trashed)
  PROVE  Forest(g)
<1> DEFINE Kept(x) == x \in DOMAIN f /\ g[x] = f[x]
           Hung(x) == /\ x \notin DOMAIN f \/ ~IsFolder(x)
                      /\ ~IsRoot(x) /\ g[x].parent \in DOMAIN f /\ IsFolder(g[x].parent)
                      /\ VaultOf(g[x].parent) = VaultOf(x) /\ (f[g[x].parent].trashed => g[x].trashed)
<1>1. \A x \in DOMAIN g : Kept(x) \/ Hung(x)
  OBVIOUS
<1>2. \A x \in DOMAIN f : IsFolder(x) => Kept(x)
  BY <1>1
<1>3. DOMAIN g \subseteq EntryIds /\ Top \notin DOMAIN g
  BY EntryKinds DEF EntriesType
<1>4. Linked(g)
  <2> SUFFICES ASSUME NEW x \in DOMAIN g
               PROVE  IF IsRoot(x) THEN g[x].parent = Top /\ ~g[x].trashed
                      ELSE \/ /\ g[x].parent \in DOMAIN g /\ IsFolder(g[x].parent)
                              /\ VaultOf(g[x].parent) = VaultOf(x) /\ (g[g[x].parent].trashed => g[x].trashed)
                           \/ g[x].parent = Top /\ ~IsFolder(x)
    BY DEF Linked
  <2>1. CASE Kept(x)
    <3>1. CASE f[x].parent \in DOMAIN f
      <4>1. IsFolder(f[x].parent) /\ ~IsRoot(x) /\ VaultOf(f[x].parent) = VaultOf(x)
            /\ (f[f[x].parent].trashed => f[x].trashed)
        BY <2>1, <3>1, EntryOfForest
      <4>2. g[f[x].parent] = f[f[x].parent]
        BY <1>2, <3>1, <4>1
      <4> QED BY <2>1, <3>1, <4>1, <4>2
    <3>2. CASE f[x].parent \notin DOMAIN f
      BY <2>1, <3>2, EntryOfForest
    <3> QED BY <3>1, <3>2
  <2>2. CASE Hung(x)
    BY <1>2, <2>2
  <2> QED BY <1>1, <2>1, <2>2
<1>5. Ranked(g)
  <2>1. PICK rank \in [DOMAIN f -> Nat] : Falls(f, rank)
    BY DEF Forest, Ranked
  <2> DEFINE more == [x \in DOMAIN g |-> IF Kept(x) THEN rank[x] ELSE rank[g[x].parent] + 1]
  <2>2. ASSUME NEW x \in DOMAIN g PROVE more[x] \in Nat
    BY <1>1, <2>1
  <2>3. ASSUME NEW x \in DOMAIN g, g[x].parent \in DOMAIN g PROVE more[g[x].parent] < more[x]
    <3>1. CASE Kept(x)
      <4>1. f[x].parent \in DOMAIN f /\ IsFolder(f[x].parent)
        BY <1>3, <2>3, <3>1, EntryOfForest
      <4>2. rank[f[x].parent] < rank[x] /\ more[x] = rank[x]
        BY <2>1, <3>1, <4>1 DEF Falls
      <4>3. more[g[x].parent] = rank[f[x].parent]
        BY <1>2, <3>1, <4>1
      <4> QED BY <4>2, <4>3
    <3>2. CASE ~Kept(x)
      <4>1. g[x].parent \in DOMAIN f /\ Kept(g[x].parent) /\ more[x] = rank[g[x].parent] + 1
        BY <1>1, <1>2, <3>2
      <4>2. more[g[x].parent] = rank[g[x].parent] /\ rank[g[x].parent] \in Nat
        BY <2>1, <4>1
      <4> HIDE DEF more
      <4> QED BY <4>1, <4>2
    <3> QED BY <3>1, <3>2
  <2>4. more \in [DOMAIN g -> Nat]
    BY <2>2
  <2> HIDE DEF more
  <2>5. Falls(g, more)
    BY <2>3 DEF Falls
  <2> QED BY <2>4, <2>5 DEF Ranked
<1>6. \A v \in TreeVaults : Root(v) \in DOMAIN g
  BY DEF Forest
<1> QED BY <1>4, <1>5, <1>6 DEF Forest

\* Entries are trashed with everything below them, and taken out of the trash with everything above.
LEMMA MarksKeep ==
  ASSUME NEW f, Forest(f), NEW chosen, NEW trashed \in BOOLEAN,
         trashed => \A x \in DOMAIN f : /\ f[x].parent \in chosen => x \in chosen
                                        /\ x \in chosen => ~IsRoot(x),
         ~trashed => \A x \in DOMAIN f : f[x].parent \in DOMAIN f /\ x \in chosen => f[x].parent \in chosen
  PROVE  Forest([x \in DOMAIN f |-> IF x \in chosen THEN [f[x] EXCEPT !.trashed = trashed] ELSE f[x]])
<1> DEFINE g == [x \in DOMAIN f |-> IF x \in chosen THEN [f[x] EXCEPT !.trashed = trashed] ELSE f[x]]
<1>1. \A x \in DOMAIN f : f[x] \in Entry
  BY EntryOfForest
<1>2. ASSUME NEW x \in DOMAIN f
      PROVE  /\ g[x] \in Entry /\ g[x].parent = f[x].parent /\ g[x].name = f[x].name
             /\ x \in chosen => g[x].trashed = trashed
             /\ x \notin chosen => g[x].trashed = f[x].trashed
  <2>1. f[x] \in Entry
    BY <1>1
  <2> QED BY <2>1 DEF Entry
<1>3. DOMAIN g = DOMAIN f
  OBVIOUS
<1>4. g \in EntriesType
  <2>1. DOMAIN f \in SUBSET EntryIds
    BY DEF Forest, EntriesType
  <2>2. g \in [DOMAIN f -> Entry]
    BY <1>2
  <2> HIDE DEF g
  <2> QED BY <2>1, <2>2 DEF EntriesType
<1> HIDE DEF g
<1>5. Linked(g)
  <2> SUFFICES ASSUME NEW x \in DOMAIN f
               PROVE  IF IsRoot(x) THEN g[x].parent = Top /\ ~g[x].trashed
                      ELSE \/ /\ g[x].parent \in DOMAIN f /\ IsFolder(g[x].parent)
                              /\ VaultOf(g[x].parent) = VaultOf(x) /\ (g[g[x].parent].trashed => g[x].trashed)
                           \/ g[x].parent = Top /\ ~IsFolder(x)
    BY <1>3 DEF Linked
  <2>1. /\ g[x].parent = f[x].parent
        /\ x \in chosen => g[x].trashed = trashed
        /\ x \notin chosen => g[x].trashed = f[x].trashed
    BY <1>2
  <2>2. CASE IsRoot(x)
    BY <2>1, <2>2, EntryOfForest
  <2>3. CASE ~IsRoot(x) /\ f[x].parent \notin DOMAIN f
    <3>1. f[x].parent = Top /\ ~IsFolder(x)
      BY <2>3, EntryOfForest
    <3> QED BY <2>1, <2>3, <3>1
  <2>4. CASE ~IsRoot(x) /\ f[x].parent \in DOMAIN f
    <3>1. IsFolder(f[x].parent) /\ VaultOf(f[x].parent) = VaultOf(x) /\ (f[f[x].parent].trashed => f[x].trashed)
      BY <2>4, EntryOfForest
    <3>2. /\ f[x].parent \in chosen => g[f[x].parent].trashed = trashed
          /\ f[x].parent \notin chosen => g[f[x].parent].trashed = f[f[x].parent].trashed
      BY <1>2, <2>4
    <3>3. g[f[x].parent].trashed => g[x].trashed
      <4>1. CASE trashed
        BY <2>1, <3>1, <3>2, <4>1
      <4>2. CASE ~trashed
        BY <2>1, <2>4, <3>1, <3>2, <4>2
      <4> QED BY <4>1, <4>2
    <3> QED BY <2>1, <2>4, <3>1, <3>3
  <2> QED BY <2>2, <2>3, <2>4
<1>6. Ranked(g)
  <2>1. PICK rank \in [DOMAIN f -> Nat] : Falls(f, rank)
    BY DEF Forest, Ranked
  <2>2. Falls(g, rank)
    BY <1>2, <1>3, <2>1 DEF Falls
  <2> QED BY <1>3, <2>1, <2>2 DEF Ranked
<1> QED BY <1>3, <1>4, <1>5, <1>6 DEF Forest, g

\* An entry is below x when its parent is x or below x.
LEMMA BelowByParent ==
  ASSUME NEW f, IsFiniteSet(DOMAIN f), NEW x, NEW y \in DOMAIN f, f[y].parent \in DOMAIN f
  PROVE  y \in descendant_file_entry_ids(f, x) <=> f[y].parent \in {x} \cup descendant_file_entry_ids(f, x)
<1> DEFINE p == f[y].parent
           above == ancestor_file_entry_ids(f, y)
           more == ancestor_file_entry_ids(f, p)
<1>1. /\ p \in above /\ Above(f, above)
      /\ \A S : p \in S /\ Above(f, S) => above \subseteq S
  BY Ancestors
<1>2. /\ f[p].parent \in DOMAIN f => f[p].parent \in more
      /\ Above(f, more) /\ more \subseteq DOMAIN f
      /\ \A S : (f[p].parent \in DOMAIN f => f[p].parent \in S) /\ Above(f, S) => more \subseteq S
  BY Ancestors
<1>3. descendant_file_entry_ids(f, x) = {z \in DOMAIN f : x \in ancestor_file_entry_ids(f, z)}
  BY DEF descendant_file_entry_ids
<1>4. p \in DOMAIN f
  OBVIOUS
<1> HIDE DEF above, more, p
<1>5. above \subseteq {p} \cup more
  <2>1. Above(f, {p} \cup more)
    BY <1>2 DEF Above
  <2> QED BY <1>1, <2>1
<1>6. more \subseteq above
  <2>1. f[p].parent \in DOMAIN f => f[p].parent \in above
    BY <1>1 DEF Above
  <2> QED BY <1>1, <1>2, <2>1
<1>7. x \in above <=> x = p \/ x \in more
  BY <1>1, <1>5, <1>6
<1>8. y \in descendant_file_entry_ids(f, x) <=> x \in above
  BY <1>3 DEF above
<1>9. p \in descendant_file_entry_ids(f, x) <=> x \in more
  BY <1>3, <1>4 DEF more
<1>10. p \in {x} \cup descendant_file_entry_ids(f, x) <=> x = p \/ x \in more
  BY <1>9
<1> QED BY <1>7, <1>8, <1>10 DEF p

\* Whatever hangs in a forest hangs, in the end, from the root of its vault.
LEMMA RootIsAbove ==
  ASSUME NEW f, Forest(f), NEW x \in DOMAIN f, f[x].parent \in DOMAIN f
  PROVE  Root(VaultOf(x)) \in ancestor_file_entry_ids(f, x)
<1> DEFINE above == ancestor_file_entry_ids(f, x)
           near == {y \in DOMAIN f : VaultOf(y) = VaultOf(x) /\ IsFolder(y)}
<1>1. IsFiniteSet(DOMAIN f) /\ IsFolder(f[x].parent) /\ VaultOf(f[x].parent) = VaultOf(x)
  BY EntryOfForest
<1>2. /\ above \subseteq DOMAIN f /\ f[x].parent \in above /\ Above(f, above)
      /\ \A S : f[x].parent \in S /\ Above(f, S) => above \subseteq S
  BY <1>1, Ancestors
<1> HIDE DEF above
<1>3. above \subseteq near
  <2>1. Above(f, near)
    <3> SUFFICES ASSUME NEW y \in near, f[y].parent \in DOMAIN f PROVE f[y].parent \in near
      BY DEF Above
    <3>1. IsFolder(f[y].parent) /\ VaultOf(f[y].parent) = VaultOf(y)
      BY EntryOfForest
    <3> QED BY <3>1
  <2> HIDE DEF near
  <2> QED BY <1>1, <1>2, <2>1 DEF near
<1>4. PICK rank \in [DOMAIN f -> Nat] : Falls(f, rank)
  BY DEF Forest, Ranked
<1> DEFINE ranks == {rank[y] : y \in above}
<1>5. PICK n \in ranks : \A m \in ranks : n <= m
  <2>1. ranks \subseteq Nat /\ ranks # {}
    BY <1>2, <1>4
  <2> HIDE DEF ranks
  <2> QED BY <2>1, LeastOf
<1>6. PICK y \in above : \A z \in above : rank[y] <= rank[z]
  BY <1>5
<1>7. y \in DOMAIN f /\ VaultOf(y) = VaultOf(x) /\ IsFolder(y)
  BY <1>3
<1>8. IsRoot(y)
  <2> SUFFICES ASSUME ~IsRoot(y) PROVE FALSE
    OBVIOUS
  <2>1. f[y].parent \in DOMAIN f
    BY <1>7, EntryOfForest
  <2>2. f[y].parent \in above /\ rank[f[y].parent] < rank[y]
    BY <1>2, <1>4, <1>7, <2>1 DEF Above, Falls
  <2>3. rank[f[y].parent] \in Nat /\ rank[y] \in Nat
    BY <1>4, <1>7, <2>1
  <2> QED BY <1>6, <2>2, <2>3
<1>9. y = Root(VaultOf(y))
  <2>1. y \in EntryIds
    BY <1>7, EntryOfForest
  <2> QED BY <1>8, <2>1, EntryKinds DEF VaultOf
<1> QED BY <1>7, <1>9 DEF above

\* A folder may be moved below anything but itself and what is below it.
LEMMA MoveKeeps ==
  ASSUME NEW f, Forest(f), NEW x \in DOMAIN f, ~IsRoot(x),
         NEW p \in DOMAIN f, active_folder(f, p, VaultOf(x)),
         IsFolder(x) => ~Below(f, x, p)
  PROVE  Forest([f EXCEPT ![x].parent = p])
<1> DEFINE g == [f EXCEPT ![x].parent = p]
<1>1. /\ IsFiniteSet(DOMAIN f) /\ DOMAIN f \subseteq EntryIds /\ f[x] \in Entry
      /\ \A y \in DOMAIN f : f[y] \in Entry
  BY EntryOfForest
<1>2. IsFolder(p) /\ VaultOf(p) = VaultOf(x) /\ ~f[p].trashed /\ p \in EntryIds
  BY <1>1 DEF active_folder
<1>3. /\ DOMAIN g = DOMAIN f /\ g[x] = [f[x] EXCEPT !.parent = p]
      /\ \A y \in DOMAIN f : y # x => g[y] = f[y]
  OBVIOUS
<1>4. /\ g[x].parent = p /\ g[x].trashed = f[x].trashed /\ g[x] \in Entry
      /\ \A y \in DOMAIN f : g[y].trashed = f[y].trashed
  BY <1>1, <1>2, <1>3 DEF Entry
<1>5. g \in EntriesType
  <2>1. g \in [DOMAIN f -> Entry]
    BY <1>1, <1>3, <1>4
  <2> HIDE DEF g
  <2> QED BY <1>1, <2>1 DEF EntriesType
<1> HIDE DEF g
<1>6. CASE ~IsFolder(x)
  <2>1. \A y \in DOMAIN g :
            \/ y \in DOMAIN f /\ g[y] = f[y]
            \/ /\ y \notin DOMAIN f \/ ~IsFolder(y)
               /\ ~IsRoot(y) /\ g[y].parent \in DOMAIN f /\ IsFolder(g[y].parent)
               /\ VaultOf(g[y].parent) = VaultOf(y) /\ (f[g[y].parent].trashed => g[y].trashed)
    BY <1>2, <1>3, <1>4, <1>6
  <2>2. DOMAIN f \subseteq DOMAIN g
    BY <1>3
  <2> QED BY <1>5, <2>1, <2>2, LeavesHang DEF g
<1>7. CASE IsFolder(x)
  <2> DEFINE D == {x} \cup descendant_file_entry_ids(f, x)
  <2>1. p \notin D
    BY <1>7 DEF Below
  <2>2. \A y \in DOMAIN f : y # x /\ f[y].parent \in DOMAIN f => (y \in D <=> f[y].parent \in D)
    <3> SUFFICES ASSUME NEW y \in DOMAIN f, y # x, f[y].parent \in DOMAIN f PROVE y \in D <=> f[y].parent \in D
      OBVIOUS
    <3>1. y \in descendant_file_entry_ids(f, x) <=> f[y].parent \in D
      BY <1>1, BelowByParent
    <3> QED BY <3>1
  <2>3. x \in D
    OBVIOUS
  <2> HIDE DEF D
  <2>4. Linked(g)
    <3> SUFFICES ASSUME NEW y \in DOMAIN f
                 PROVE  IF IsRoot(y) THEN g[y].parent = Top /\ ~g[y].trashed
                        ELSE \/ /\ g[y].parent \in DOMAIN f /\ IsFolder(g[y].parent)
                                /\ VaultOf(g[y].parent) = VaultOf(y) /\ (g[g[y].parent].trashed => g[y].trashed)
                             \/ g[y].parent = Top /\ ~IsFolder(y)
      BY <1>3 DEF Linked
    <3>1. CASE y = x
      BY <1>2, <1>4, <3>1
    <3>2. CASE y # x
      BY <1>3, <1>4, <3>2, EntryOfForest
    <3> QED BY <3>1, <3>2
  <2>5. Ranked(g)
    <3>1. PICK rank \in [DOMAIN f -> Nat] : Falls(f, rank)
      BY DEF Forest, Ranked
    <3> DEFINE more == [y \in DOMAIN f |-> IF y \in D THEN rank[y] + rank[p] + 1 ELSE rank[y]]
    <3>2. \A y \in DOMAIN f : rank[y] \in Nat
      BY <3>1
    <3>3. more \in [DOMAIN f -> Nat]
      BY <3>2
    <3>4. ASSUME NEW y \in DOMAIN f, g[y].parent \in DOMAIN f PROVE more[g[y].parent] < more[y]
      <4>1. CASE y = x
        <5>1. more[p] = rank[p] /\ more[x] = rank[x] + rank[p] + 1 /\ g[y].parent = p
          BY <1>4, <2>1, <2>3, <4>1
        <5> HIDE DEF more
        <5> QED BY <3>2, <4>1, <5>1
      <4>2. CASE y # x
        <5> DEFINE q == f[y].parent
        <5>1. g[y].parent = q /\ q \in DOMAIN f /\ (y \in D <=> q \in D)
          BY <1>3, <2>2, <3>4, <4>2
        <5>2. rank[q] < rank[y]
          BY <3>1, <5>1 DEF Falls
        <5>3. more[q] = (IF q \in D THEN rank[q] + rank[p] + 1 ELSE rank[q])
              /\ more[y] = (IF y \in D THEN rank[y] + rank[p] + 1 ELSE rank[y])
          BY <5>1
        <5> HIDE DEF more, q
        <5> QED BY <3>2, <5>1, <5>2, <5>3
      <4> QED BY <4>1, <4>2
    <3> HIDE DEF more
    <3>5. Falls(g, more)
      BY <1>3, <3>4 DEF Falls
    <3> QED BY <1>3, <3>3, <3>5 DEF Ranked
  <2>6. \A v \in TreeVaults : Root(v) \in DOMAIN g
    BY <1>3 DEF Forest
  <2> QED BY <1>5, <2>4, <2>5, <2>6 DEF Forest, g
<1> QED BY <1>6, <1>7

\* The name of an entry does not matter.
LEMMA RenameKeeps ==
  ASSUME NEW f, Forest(f), NEW x \in DOMAIN f, NEW n \in Names
  PROVE  Forest([f EXCEPT ![x].name = n])
<1> DEFINE g == [f EXCEPT ![x].name = n]
<1>1. DOMAIN f \subseteq EntryIds /\ \A y \in DOMAIN f : f[y] \in Entry
  BY EntryOfForest
<1>2. /\ DOMAIN g = DOMAIN f /\ g[x] = [f[x] EXCEPT !.name = n]
      /\ \A y \in DOMAIN f : y # x => g[y] = f[y]
  OBVIOUS
<1>3. \A y \in DOMAIN f : g[y] \in Entry /\ g[y].parent = f[y].parent /\ g[y].trashed = f[y].trashed
  BY <1>1, <1>2 DEF Entry
<1>4. g \in EntriesType
  <2>1. g \in [DOMAIN f -> Entry]
    BY <1>3
  <2> HIDE DEF g
  <2> QED BY <1>1, <2>1 DEF EntriesType
<1> HIDE DEF g
<1>5. Linked(g)
  <2>1. Linked(f)
    BY DEF Forest
  <2> QED BY <1>2, <1>3, <2>1 DEF Linked
<1>6. Ranked(g)
  <2>1. PICK rank \in [DOMAIN f -> Nat] : Falls(f, rank)
    BY DEF Forest, Ranked
  <2>2. Falls(g, rank)
    BY <1>2, <1>3, <2>1 DEF Falls
  <2> QED BY <1>2, <2>1, <2>2 DEF Ranked
<1> QED BY <1>2, <1>4, <1>5, <1>6 DEF Forest, g

\* A folder or file hung below a live folder of its vault.
LEMMA HungBelow ==
  ASSUME NEW f, Forest(f), NEW x \in EntryIds, ~IsRoot(x), x \notin DOMAIN f \/ ~IsFolder(x),
         NEW p, active_folder(f, p, VaultOf(x)), NEW n \in Names
  PROVE  Forest(With(f, x, EntryAt(p, n)))
<1> DEFINE g == With(f, x, EntryAt(p, n))
<1>1. DOMAIN f \subseteq EntryIds /\ \A y \in DOMAIN f : f[y] \in Entry
  BY EntryOfForest DEF Forest, EntriesType
<1>2. p \in DOMAIN f /\ IsFolder(p) /\ VaultOf(p) = VaultOf(x) /\ ~f[p].trashed /\ p \in EntryIds
  BY <1>1 DEF active_folder
<1>3. /\ DOMAIN g = DOMAIN f \cup {x} /\ g[x] = EntryAt(p, n)
      /\ \A y \in DOMAIN f : y # x => g[y] = f[y]
  BY DEF With
<1>4. g[x] \in Entry /\ g[x].parent = p
  <2>1. EntryAt(p, n) \in Entry /\ EntryAt(p, n).parent = p
    BY <1>2 DEF Entry, EntryAt
  <2> HIDE DEF g
  <2> QED BY <1>3, <2>1
<1>5. g \in EntriesType
  <2>1. g = [y \in DOMAIN g |-> g[y]]
    BY DEF With
  <2> HIDE DEF g
  <2>2. g \in [DOMAIN g -> Entry] /\ DOMAIN g \subseteq EntryIds
    BY <1>1, <1>3, <1>4, <2>1
  <2> QED BY <2>2 DEF EntriesType
<1> HIDE DEF g
<1>6. \A y \in DOMAIN g :
          \/ y \in DOMAIN f /\ g[y] = f[y]
          \/ /\ y \notin DOMAIN f \/ ~IsFolder(y)
             /\ ~IsRoot(y) /\ g[y].parent \in DOMAIN f /\ IsFolder(g[y].parent)
             /\ VaultOf(g[y].parent) = VaultOf(y) /\ (f[g[y].parent].trashed => g[y].trashed)
  BY <1>2, <1>3, <1>4
<1>7. DOMAIN f \subseteq DOMAIN g
  BY <1>3
<1> QED BY <1>5, <1>6, <1>7, LeavesHang DEF g

-----------------------------------------------------------------------------
\* A vault takes an asset only when everything known of it names that vault, and when
\* something does or there is no other vault.
LEMMA Targets ==
  ASSUME NEW t, TreeSound(t), NEW a \in TreeAssets
  PROVE  /\ target_vault_for_asset(t, a) \subseteq TreeVaults
         /\ \A v \in target_vault_for_asset(t, a) :
               /\ target_vault_for_asset(t, a) = {v}
               /\ EvidenceOf(t, a) \subseteq {v} /\ t.owner[a] \in {Unowned, v}
               /\ v \in EvidenceOf(t, a) \/ t.owner[a] = v \/ TreeVaults = {v}
<1> DEFINE known == EvidenceOf(t, a)
           named == Named(t, a)
           chosen == IF named = {} THEN TreeVaults ELSE named
           target == target_vault_for_asset(t, a)
<1>1. target = IF Cardinality(chosen) = 1 THEN chosen ELSE {}
  BY DEF target_vault_for_asset
<1>2. named = known \cup ({t.owner[a]} \ {Unowned}) /\ known \subseteq TreeVaults
  BY DEF Named, EvidenceOf
<1>3. t.owner[a] \in TreeVaults \cup {Unowned}
  BY DEF TreeSound, TreeType
<1> HIDE DEF known, target, named
<1>4. /\ named \subseteq TreeVaults /\ known \subseteq named
      /\ t.owner[a] # Unowned => t.owner[a] \in named
      /\ \A v \in named : v \in known \/ t.owner[a] = v
  BY <1>2, <1>3
<1>5. chosen \subseteq TreeVaults /\ IsFiniteSet(chosen)
  BY <1>4, TreeAssumption, FS_Subset
<1>6. CASE Cardinality(chosen) = 1
  <2>1. PICK v : chosen = {v}
    BY <1>5, <1>6, FS_Singleton
  <2>2. target = {v} /\ v \in TreeVaults
    BY <1>1, <1>5, <1>6, <2>1
  <2>3. named \subseteq {v} /\ (v \in named \/ TreeVaults = {v})
    BY <2>1
  <2>4. known \subseteq {v} /\ t.owner[a] \in {Unowned, v}
    BY <1>4, <2>3
  <2>5. v \in known \/ t.owner[a] = v \/ TreeVaults = {v}
    BY <1>4, <2>3
  <2> QED BY <2>2, <2>4, <2>5 DEF known, target
<1>7. CASE Cardinality(chosen) # 1
  BY <1>1, <1>7 DEF target
<1> QED BY <1>6, <1>7

\* The same evidence and the same owner name the same vault.
LEMMA SameTarget ==
  ASSUME NEW t, NEW u, NEW a, EvidenceOf(t, a) = EvidenceOf(u, a), t.owner[a] = u.owner[a]
  PROVE  target_vault_for_asset(t, a) = target_vault_for_asset(u, a)
BY DEF target_vault_for_asset, Named

\* What is known of assets in u was known in t, but for vaults that only the owner named or
\* that are the only ones.
PlacedFrom(t, u) ==
    \A a \in TreeAssets : \A v \in EvidenceOf(u, a) :
        v \in EvidenceOf(t, a) \/ (u.owner[a] = v /\ EvidenceOf(t, a) = {}) \/ TreeVaults = {v}

\* Fresh blob rows say of no asset but what was said already.
LEMMA RefreshKeeps ==
  ASSUME NEW t, TreeSound(t), NEW u, u = refresh_rows(t)
  PROVE  /\ TreeSound(u)
         /\ u.entries = t.entries /\ u.assets = t.assets
         /\ u.owner = t.owner /\ u.receipts = t.receipts
         /\ t.blobs \subseteq u.blobs
         /\ \A a \in t.assets : \A v \in target_vault_for_asset(t, a) : <<v, a>> \in u.blobs
         /\ \A a \in TreeAssets : /\ target_vault_for_asset(u, a) = target_vault_for_asset(t, a)
                                  /\ EvidenceOf(t, a) # {} => EvidenceOf(u, a) = EvidenceOf(t, a)
         /\ PlacedFrom(t, u)
<1> DEFINE more == UNION {target_vault_for_asset(t, a) \X {a} : a \in t.assets}
<1>1. t \in TreeType /\ Forest(t.entries) /\ OfAssets(t)
  BY DEF TreeSound
<1>2. /\ u = [t EXCEPT !.blobs = @ \cup more]
  BY DEF refresh_rows
<1>3. t.assets \subseteq TreeAssets
  BY <1>1 DEF TreeType
<1>4. \A b \in more : b \in TreeVaults \X t.assets /\ b[1] \in target_vault_for_asset(t, b[2])
  <2> SUFFICES ASSUME NEW a \in t.assets, NEW b \in target_vault_for_asset(t, a) \X {a}
               PROVE  b \in TreeVaults \X t.assets /\ b[1] \in target_vault_for_asset(t, b[2])
    OBVIOUS
  <2>1. target_vault_for_asset(t, a) \subseteq TreeVaults
    BY <1>3, Targets
  <2> QED BY <2>1
<1>5. \A a \in t.assets : \A v \in target_vault_for_asset(t, a) : <<v, a>> \in more
  OBVIOUS
<1> HIDE DEF more
<1>6. /\ u \in TreeType /\ u.entries = t.entries /\ u.assets = t.assets
      /\ u.owner = t.owner /\ u.receipts = t.receipts /\ u.blobs = t.blobs \cup more
  <2>1. t.blobs \cup more \in SUBSET (TreeVaults \X TreeAssets)
    BY <1>1, <1>3, <1>4 DEF TreeType
  <2> QED BY <1>1, <1>2, <2>1 DEF TreeType
<1>7. TreeSound(u)
  BY <1>1, <1>4, <1>6 DEF TreeSound, OfAssets
<1>8. ASSUME NEW a \in TreeAssets
      PROVE  /\ target_vault_for_asset(u, a) = target_vault_for_asset(t, a)
             /\ EvidenceOf(t, a) # {} => EvidenceOf(u, a) = EvidenceOf(t, a)
  <2>1. /\ \A v \in EvidenceOf(t, a) : v \in EvidenceOf(u, a)
        /\ \A v \in EvidenceOf(u, a) : v \in EvidenceOf(t, a) \/ <<v, a>> \in more
        /\ \A v \in TreeVaults : <<v, a>> \in more => v \in EvidenceOf(u, a)
    BY <1>6 DEF EvidenceOf
  <2>2. CASE \E v : <<v, a>> \in more
    <3>1. PICK v : v \in target_vault_for_asset(t, a) /\ <<v, a>> \in more
      BY <1>4, <2>2
    <3>2. /\ target_vault_for_asset(t, a) = {v} /\ EvidenceOf(t, a) \subseteq {v} /\ t.owner[a] \in {Unowned, v}
          /\ v \in TreeVaults
      BY <3>1, Targets
    <3>3. \A w : <<w, a>> \in more => w = v
      BY <1>4, <3>2
    <3>4. EvidenceOf(u, a) = {v}
      BY <2>1, <3>1, <3>2, <3>3
    <3>5. target_vault_for_asset(u, a) = {v}
      <4>1. Cardinality({v}) = 1
        BY FS_Singleton
      <4>2. Named(u, a) = {v}
        BY <1>6, <3>2, <3>4 DEF Named
      <4> QED BY <4>1, <4>2 DEF target_vault_for_asset
    <3> QED BY <3>2, <3>4, <3>5
  <2>3. CASE ~\E v : <<v, a>> \in more
    <3>1. EvidenceOf(u, a) = EvidenceOf(t, a)
      BY <2>1, <2>3
    <3> QED BY <1>6, <3>1, SameTarget
  <2> QED BY <2>2, <2>3
<1>9. \A a \in t.assets : \A v \in target_vault_for_asset(t, a) : <<v, a>> \in u.blobs
  BY <1>5, <1>6
<1>10. t.blobs \subseteq u.blobs
  BY <1>6
<1>11. \A a \in TreeAssets :
          /\ target_vault_for_asset(u, a) = target_vault_for_asset(t, a)
          /\ EvidenceOf(t, a) # {} => EvidenceOf(u, a) = EvidenceOf(t, a)
  BY <1>8
<1>12. PlacedFrom(t, u)
  <2> SUFFICES ASSUME NEW a \in TreeAssets, NEW v \in EvidenceOf(u, a), v \notin EvidenceOf(t, a)
               PROVE  (u.owner[a] = v /\ EvidenceOf(t, a) = {}) \/ TreeVaults = {v}
    BY DEF PlacedFrom
  <2>1. <<v, a>> \in more
    BY <1>6 DEF EvidenceOf
  <2>2. v \in target_vault_for_asset(t, a)
    BY <1>4, <2>1
  <2>3. EvidenceOf(t, a) \subseteq {v} /\ (t.owner[a] = v \/ TreeVaults = {v})
    BY <2>2, Targets
  <2> QED BY <1>6, <2>3
<1> QED BY <1>6, <1>7, <1>9, <1>10, <1>11, <1>12

\* The files that blob rows speak of, and those of them that the defaults make.
FilesOfRows(t) == {EntryOf(b[1], b[2]) : b \in {c \in t.blobs : c[2] \in t.assets}}
MadeFiles(t) == {x \in FilesOfRows(t) : ~HasEntry(t, x[2], x[3]) /\ Granted(t, x[2], x[3])}

\* The defaults where no root is missing.
LEMMA DefaultEntries ==
  ASSUME NEW t, TreeSound(t)
  PROVE  /\ ensure_file_namespace_defaults(t).assets = t.assets
         /\ ensure_file_namespace_defaults(t).owner = t.owner
         /\ ensure_file_namespace_defaults(t).blobs = t.blobs
         /\ ensure_file_namespace_defaults(t).receipts = t.receipts
         /\ ensure_file_namespace_defaults(t).entries =
              [x \in DOMAIN t.entries \cup MadeFiles(t) |->
                  IF x \in MadeFiles(t) THEN EntryAt(Root(VaultOf(x)), FileName)
                  ELSE IF x \in FilesOfRows(t) /\ t.entries[x].parent = Top
                       THEN [t.entries[x] EXCEPT !.parent = Root(VaultOf(x))]
                  ELSE t.entries[x]]
         /\ ensure_file_namespace_defaults(t) = [t EXCEPT !.entries = ensure_file_namespace_defaults(t).entries]
<1> DEFINE roots == {Root(v) : v \in TreeVaults} \ DOMAIN t.entries
           made == MadeFiles(t)
           rows == FilesOfRows(t)
           all == [x \in DOMAIN t.entries \cup roots \cup made |->
                     IF x \in roots THEN EntryAt(Top, FileName)
                     ELSE IF x \in made THEN EntryAt(Root(VaultOf(x)), FileName)
                     ELSE IF x \in rows /\ t.entries[x].parent = Top
                          THEN [t.entries[x] EXCEPT !.parent = Root(VaultOf(x))]
                     ELSE t.entries[x]]
<1>1. ensure_file_namespace_defaults(t) = [t EXCEPT !.entries = all]
  BY Zenon DEF ensure_file_namespace_defaults, MadeFiles, FilesOfRows
<1>2. roots = {}
  BY DEF TreeSound, Forest
<1> HIDE DEF made, rows
<1>3. all = [x \in DOMAIN t.entries \cup made |->
                IF x \in made THEN EntryAt(Root(VaultOf(x)), FileName)
                ELSE IF x \in rows /\ t.entries[x].parent = Top
                     THEN [t.entries[x] EXCEPT !.parent = Root(VaultOf(x))]
                ELSE t.entries[x]]
  BY <1>2
<1> HIDE DEF all
<1>4. t \in [assets : SUBSET TreeAssets, owner : [TreeAssets -> TreeVaults \cup {Unowned}],
             blobs : SUBSET (TreeVaults \X TreeAssets), receipts : SUBSET (TreeVaults \X TreeAssets),
             entries : EntriesType]
  BY DEF TreeSound, TreeType
<1>5. /\ ensure_file_namespace_defaults(t).assets = t.assets
      /\ ensure_file_namespace_defaults(t).owner = t.owner
      /\ ensure_file_namespace_defaults(t).blobs = t.blobs
      /\ ensure_file_namespace_defaults(t).receipts = t.receipts
      /\ ensure_file_namespace_defaults(t).entries = all
  BY <1>1, <1>4
<1> QED BY <1>1, <1>3, <1>5 DEF made, rows

\* The defaults hang files from roots, and say of no asset but what a blob row said already.
LEMMA EnsureKeeps ==
  ASSUME NEW t, TreeSound(t), NEW u, u = ensure_file_namespace_defaults(t)
  PROVE  /\ TreeSound(u)
         /\ u.assets = t.assets /\ u.owner = t.owner /\ u.blobs = t.blobs /\ u.receipts = t.receipts
         /\ \A a \in TreeAssets : /\ EvidenceOf(u, a) = EvidenceOf(t, a)
                                  /\ target_vault_for_asset(u, a) = target_vault_for_asset(t, a)
         /\ \A x \in DOMAIN t.entries : x \in DOMAIN u.entries /\ u.entries[x].trashed = t.entries[x].trashed
         /\ \A x \in DOMAIN u.entries \ DOMAIN t.entries :
               ~IsFolder(x) /\ <<x[2], x[3]>> \in t.blobs /\ Granted(t, x[2], x[3])
         /\ \A x \in DOMAIN u.entries : ~IsFolder(x) /\ <<x[2], x[3]>> \in t.blobs
                                           => u.entries[x].parent \in DOMAIN u.entries
<1> DEFINE f == t.entries
           g == u.entries
           made == MadeFiles(t)
           rows == FilesOfRows(t)
<1>1. /\ u.assets = t.assets /\ u.owner = t.owner /\ u.blobs = t.blobs /\ u.receipts = t.receipts
      /\ u = [t EXCEPT !.entries = g]
  BY DefaultEntries
<1>2. g = [x \in DOMAIN f \cup made |->
             IF x \in made THEN EntryAt(Root(VaultOf(x)), FileName)
             ELSE IF x \in rows /\ f[x].parent = Top THEN [f[x] EXCEPT !.parent = Root(VaultOf(x))]
             ELSE f[x]]
  BY DefaultEntries
<1>3. Forest(f) /\ OfAssets(t) /\ t \in TreeType
  BY DEF TreeSound
<1>4. \A x \in rows : /\ x \in EntryIds /\ ~IsFolder(x) /\ ~IsRoot(x) /\ VaultOf(x) = x[2]
                      /\ x = EntryOf(x[2], x[3]) /\ <<x[2], x[3]>> \in t.blobs /\ x[3] \in t.assets
                      /\ x[2] \in TreeVaults
  <2> SUFFICES ASSUME NEW b \in t.blobs, b[2] \in t.assets, NEW x, x = EntryOf(b[1], b[2])
               PROVE  /\ x[2] \in TreeVaults
                      /\ x \in EntryIds /\ ~IsFolder(x) /\ ~IsRoot(x) /\ VaultOf(x) = x[2]
                      /\ x = EntryOf(x[2], x[3]) /\ <<x[2], x[3]>> \in t.blobs /\ x[3] \in t.assets
    BY DEF FilesOfRows
  <2>1. b[1] \in TreeVaults /\ b[2] \in TreeAssets /\ b = <<b[1], b[2]>>
    BY <1>3 DEF TreeType
  <2>2. /\ x \in EntryIds /\ ~IsRoot(x) /\ ~IsFolder(x) /\ VaultOf(x) = b[1]
        /\ x[2] = b[1] /\ x[3] = b[2]
    BY <2>1, EntryKinds
  <2> QED BY <2>1, <2>2
<1>5. \A x \in made : x \in rows /\ x \notin DOMAIN f /\ Granted(t, x[2], x[3])
  <2>1. \A x \in made : x \in rows /\ ~HasEntry(t, x[2], x[3]) /\ Granted(t, x[2], x[3])
    BY DEF MadeFiles
  <2>2. \A x \in rows : x = EntryOf(x[2], x[3])
    BY <1>4
  <2> HIDE DEF made, rows
  <2> QED BY <2>1, <2>2, Zenon DEF HasEntry
<1> HIDE DEF g, made
<1>6. \A x \in DOMAIN f : IsFolder(x) => x \notin rows /\ x \notin made
  BY <1>4, <1>5
<1>7. \A x \in DOMAIN f : x \in EntryIds /\ f[x] \in Entry
  BY <1>3, EntryOfForest
<1>8. \A x \in rows : /\ active_folder(f, Root(VaultOf(x)), VaultOf(x)) /\ Root(VaultOf(x)) \in EntryIds
                      /\ IsFolder(Root(VaultOf(x))) /\ VaultOf(Root(VaultOf(x))) = VaultOf(x)
  <2> SUFFICES ASSUME NEW x \in rows
               PROVE  /\ active_folder(f, Root(VaultOf(x)), VaultOf(x)) /\ Root(VaultOf(x)) \in EntryIds
                      /\ IsFolder(Root(VaultOf(x))) /\ VaultOf(Root(VaultOf(x))) = VaultOf(x)
    OBVIOUS
  <2>1. VaultOf(x) \in TreeVaults
    BY <1>4
  <2>2. Root(VaultOf(x)) \in DOMAIN f
    BY <1>3, <2>1 DEF Forest
  <2> DEFINE v == VaultOf(x)
  <2> HIDE DEF v
  <2>3. Root(v) \in EntryIds /\ IsRoot(Root(v)) /\ VaultOf(Root(v)) = v /\ IsFolder(Root(v))
    BY <2>1, EntryKinds DEF v
  <2>4. ~f[Root(v)].trashed
    BY <1>3, <2>2, <2>3, EntryOfForest DEF v
  <2> QED BY <2>2, <2>3, <2>4 DEF active_folder, v
<1> HIDE DEF rows
<1>9. FileName \in Names
  BY TreeAssumption DEF FileName
<1>10. ASSUME NEW x \in DOMAIN g
       PROVE  /\ g[x] \in Entry /\ x \in EntryIds
              /\ x \in DOMAIN f => g[x].trashed = f[x].trashed
              /\ \/ x \in DOMAIN f /\ g[x] = f[x] /\ (x \in rows => f[x].parent # Top)
                 \/ /\ x \in rows /\ (x \notin DOMAIN f => x \in made)
                    /\ g[x].parent = Root(VaultOf(x)) /\ ~(x \in made /\ x \in DOMAIN f)
  <2>1. CASE x \in made
    <3>1. g[x] = EntryAt(Root(VaultOf(x)), FileName) /\ x \in rows /\ x \notin DOMAIN f
      BY <1>2, <1>5, <2>1
    <3>2. EntryAt(Root(VaultOf(x)), FileName) \in Entry
          /\ EntryAt(Root(VaultOf(x)), FileName).parent = Root(VaultOf(x))
      BY <1>8, <1>9, <3>1 DEF Entry, EntryAt
    <3> QED BY <1>4, <2>1, <3>1, <3>2
  <2>2. CASE x \notin made /\ x \in rows /\ f[x].parent = Top
    <3>1. x \in DOMAIN f /\ g[x] = [f[x] EXCEPT !.parent = Root(VaultOf(x))]
      BY <1>2, <2>2
    <3>2. f[x] \in Entry /\ Root(VaultOf(x)) \in EntryIds
      BY <1>7, <1>8, <2>2, <3>1
    <3>3. g[x] \in Entry /\ g[x].parent = Root(VaultOf(x)) /\ g[x].trashed = f[x].trashed
      BY <3>1, <3>2 DEF Entry
    <3> QED BY <1>7, <2>2, <3>1, <3>3
  <2>3. CASE x \notin made /\ ~(x \in rows /\ f[x].parent = Top)
    <3>1. x \in DOMAIN f /\ g[x] = f[x]
      BY <1>2, <2>3
    <3> QED BY <1>7, <2>3, <3>1
  <2> QED BY <2>1, <2>2, <2>3
<1>11. DOMAIN f \subseteq DOMAIN g /\ DOMAIN g = DOMAIN f \cup made
  BY <1>2
<1>12. g \in EntriesType
  <2>1. g \in [DOMAIN g -> Entry] /\ DOMAIN g \subseteq EntryIds
    <3>1. g = [x \in DOMAIN g |-> g[x]]
      BY <1>2
    <3> QED BY <1>10, <3>1
  <2> QED BY <2>1 DEF EntriesType
<1>13. Forest(g)
  <2>1. ASSUME NEW x \in DOMAIN g
        PROVE  \/ x \in DOMAIN f /\ g[x] = f[x]
               \/ /\ x \notin DOMAIN f \/ ~IsFolder(x)
                  /\ ~IsRoot(x) /\ g[x].parent \in DOMAIN f /\ IsFolder(g[x].parent)
                  /\ VaultOf(g[x].parent) = VaultOf(x) /\ (f[g[x].parent].trashed => g[x].trashed)
    <3>1. CASE x \in DOMAIN f /\ g[x] = f[x]
      BY <3>1
    <3>2. CASE ~(x \in DOMAIN f /\ g[x] = f[x])
      <4>1. x \in rows /\ g[x].parent = Root(VaultOf(x))
        BY <1>10, <3>2
      <4>2. ~IsFolder(x) /\ ~IsRoot(x)
        BY <1>4, <4>1
      <4>3. /\ active_folder(f, Root(VaultOf(x)), VaultOf(x))
            /\ IsFolder(Root(VaultOf(x))) /\ VaultOf(Root(VaultOf(x))) = VaultOf(x)
        BY <1>8, <4>1
      <4>4. Root(VaultOf(x)) \in DOMAIN f /\ ~f[Root(VaultOf(x))].trashed
        BY <4>3 DEF active_folder
      <4> QED BY <4>1, <4>2, <4>3, <4>4
    <3> QED BY <3>1, <3>2
  <2> QED BY <1>3, <1>11, <1>12, <2>1, LeavesHang
<1>14. \A x \in DOMAIN g : ~IsFolder(x) => x[3] \in t.assets
  BY <1>3, <1>4, <1>5, <1>11 DEF OfAssets
<1>15. TreeSound(u)
  <2>1. u \in TreeType /\ u.entries = g
    BY <1>1, <1>3, <1>12 DEF TreeType
  <2> QED BY <1>1, <1>3, <1>13, <1>14, <2>1 DEF TreeSound, OfAssets
<1>16. ASSUME NEW a \in TreeAssets PROVE EvidenceOf(u, a) = EvidenceOf(t, a)
  <2>1. ASSUME NEW v \in TreeVaults
        PROVE  (\/ <<v, a>> \in u.blobs \cup u.receipts
                \/ EntryOf(v, a) \in DOMAIN u.entries /\ ~u.entries[EntryOf(v, a)].trashed)
               <=> (\/ <<v, a>> \in t.blobs \cup t.receipts
                    \/ EntryOf(v, a) \in DOMAIN t.entries /\ ~t.entries[EntryOf(v, a)].trashed)
    <3> DEFINE x == EntryOf(v, a)
    <3>1. x[2] = v /\ x[3] = a
      BY <2>1, EntryKinds
    <3> HIDE DEF x
    <3>2. x \in DOMAIN g /\ x \notin DOMAIN f => <<v, a>> \in t.blobs
      BY <1>4, <1>5, <1>11, <3>1
    <3>3. x \in DOMAIN f => x \in DOMAIN g /\ g[x].trashed = f[x].trashed
      BY <1>10, <1>11
    <3> QED BY <1>1, <3>2, <3>3 DEF x, g
  <2> QED BY <2>1 DEF EvidenceOf
<1>17. \A x \in DOMAIN g \ DOMAIN f : ~IsFolder(x) /\ <<x[2], x[3]>> \in t.blobs /\ Granted(t, x[2], x[3])
  BY <1>4, <1>5, <1>11
<1>18. ASSUME NEW x \in DOMAIN g, ~IsFolder(x), <<x[2], x[3]>> \in t.blobs PROVE g[x].parent \in DOMAIN g
  <2>1. x \in EntryIds
    BY <1>10
  <2>2. x = EntryOf(x[2], x[3]) /\ x[3] \in t.assets
    BY <1>14, <1>18, <2>1, EntryKinds
  <2>3. x \in rows
    <3> DEFINE b == <<x[2], x[3]>>
    <3>1. b \in t.blobs /\ b[2] \in t.assets /\ x = EntryOf(b[1], b[2])
      BY <1>18, <2>2
    <3> HIDE DEF b
    <3> QED BY <3>1, Zenon DEF rows, FilesOfRows
  <2>4. CASE x \in DOMAIN f /\ g[x] = f[x] /\ f[x].parent # Top
    <3>1. f[x].parent \in DOMAIN f
      BY <1>3, <2>4, EntryOfForest
    <3> QED BY <1>11, <2>4, <3>1
  <2>5. CASE g[x].parent = Root(VaultOf(x))
    BY <1>8, <1>11, <2>3, <2>5 DEF active_folder
  <2> QED BY <1>10, <2>3, <2>4, <2>5
<1>19. \A x \in DOMAIN f : x \in DOMAIN g /\ g[x].trashed = f[x].trashed
  BY <1>10, <1>11
<1>20. \A a \in TreeAssets : /\ EvidenceOf(u, a) = EvidenceOf(t, a)
                             /\ target_vault_for_asset(u, a) = target_vault_for_asset(t, a)
  BY <1>1, <1>16, SameTarget
<1>21. \A x \in DOMAIN g : ~IsFolder(x) /\ <<x[2], x[3]>> \in t.blobs => g[x].parent \in DOMAIN g
  BY <1>18
<1> QED BY <1>1, <1>15, <1>17, <1>19, <1>20, <1>21 DEF g

\* What the defaults leave of an entry, and what they make one for.
Survives(t, u, x) == x \in DOMAIN u.entries /\ u.entries[x].trashed = t.entries[x].trashed
MadeFor(t, u, x) ==
    /\ ~IsFolder(x) /\ (<<x[2], x[3]>> \in t.receipts \/ TreeVaults = {x[2]})
    /\ <<x[2], x[3]>> \in u.blobs /\ EvidenceOf(u, x[3]) = {x[2]}

\* What a call finds once the namespace is prepared.
LEMMA PreparedKeeps ==
  ASSUME NEW t, TreeSound(t), NEW u, u = Prepared(t)
  PROVE  /\ TreeSound(u)
         /\ u.assets = t.assets /\ u.owner = t.owner /\ u.receipts = t.receipts
         /\ \A a \in TreeAssets : EvidenceOf(t, a) # {} => EvidenceOf(u, a) = EvidenceOf(t, a)
         /\ \A x \in DOMAIN t.entries : Survives(t, u, x)
         /\ \A x \in DOMAIN u.entries \ DOMAIN t.entries : MadeFor(t, u, x)
         /\ \A x \in DOMAIN u.entries : ~IsFolder(x) /\ x[2] \in target_vault_for_asset(u, x[3])
                                           => u.entries[x].parent \in DOMAIN u.entries
         /\ PlacedFrom(t, u)
<1> DEFINE r == refresh_rows(t)
<1>1. /\ TreeSound(r) /\ r.entries = t.entries /\ r.assets = t.assets
      /\ r.owner = t.owner /\ r.receipts = t.receipts
      /\ \A a \in t.assets : \A v \in target_vault_for_asset(t, a) : <<v, a>> \in r.blobs
      /\ \A a \in TreeAssets :
            /\ target_vault_for_asset(r, a) = target_vault_for_asset(t, a)
            /\ EvidenceOf(t, a) # {} => EvidenceOf(r, a) = EvidenceOf(t, a)
      /\ PlacedFrom(t, r)
  BY RefreshKeeps
<1>2. u = ensure_file_namespace_defaults(r)
  BY DEF Prepared
<1> HIDE DEF r
<1>3. /\ TreeSound(u)
      /\ u.assets = r.assets /\ u.owner = r.owner /\ u.blobs = r.blobs /\ u.receipts = r.receipts
      /\ \A a \in TreeAssets : /\ EvidenceOf(u, a) = EvidenceOf(r, a)
                               /\ target_vault_for_asset(u, a) = target_vault_for_asset(r, a)
      /\ \A x \in DOMAIN r.entries : x \in DOMAIN u.entries /\ u.entries[x].trashed = r.entries[x].trashed
      /\ \A x \in DOMAIN u.entries \ DOMAIN r.entries :
            ~IsFolder(x) /\ <<x[2], x[3]>> \in r.blobs /\ Granted(r, x[2], x[3])
      /\ \A x \in DOMAIN u.entries : ~IsFolder(x) /\ <<x[2], x[3]>> \in r.blobs
                                        => u.entries[x].parent \in DOMAIN u.entries
  BY <1>1, <1>2, EnsureKeeps
<1>4. \A x \in DOMAIN u.entries : x \in EntryIds
  BY <1>3, EntryOfForest DEF TreeSound
<1>5. ASSUME NEW x \in DOMAIN u.entries, x \notin DOMAIN t.entries
      PROVE  MadeFor(t, u, x)
  <2>1. ~IsFolder(x) /\ <<x[2], x[3]>> \in r.blobs /\ Granted(r, x[2], x[3])
    BY <1>1, <1>3, <1>5
  <2>2. x[2] \in TreeVaults /\ x[3] \in TreeAssets
    BY <1>4, <2>1, EntryKinds
  <2>3. EvidenceOf(r, x[3]) \subseteq {x[2]} /\ (<<x[2], x[3]>> \in r.receipts \/ TreeVaults = {x[2]})
    BY <2>1 DEF Granted
  <2>4. x[2] \in EvidenceOf(r, x[3])
    BY <2>1, <2>2 DEF EvidenceOf
  <2>5. EvidenceOf(u, x[3]) = {x[2]}
    BY <1>3, <2>2, <2>3, <2>4
  <2> QED BY <1>1, <1>3, <2>1, <2>3, <2>5 DEF MadeFor
<1>6. ASSUME NEW x \in DOMAIN u.entries, ~IsFolder(x), x[2] \in target_vault_for_asset(u, x[3])
      PROVE  u.entries[x].parent \in DOMAIN u.entries
  <2>1. x[3] \in u.assets /\ x[3] \in TreeAssets
    BY <1>3, <1>4, <1>6, EntryKinds DEF TreeSound, OfAssets
  <2>2. x[2] \in target_vault_for_asset(t, x[3])
    BY <1>1, <1>3, <1>6, <2>1
  <2>3. <<x[2], x[3]>> \in r.blobs
    BY <1>1, <1>3, <2>1, <2>2
  <2> QED BY <1>3, <1>6, <2>3
<1>7. \A x \in DOMAIN t.entries : Survives(t, u, x)
  BY <1>1, <1>3 DEF Survives
<1>8. PlacedFrom(t, u)
  BY <1>1, <1>3 DEF PlacedFrom
<1> QED BY <1>1, <1>3, <1>5, <1>6, <1>7, <1>8

\* What is shown hangs together.
LEMMA ShownHangs ==
  ASSUME NEW t, TreeSound(t), NEW u, u = Prepared(t), NEW x \in Shown(u), ~IsRoot(x)
  PROVE  u.entries[x].parent \in Shown(u) /\ Root(VaultOf(x)) \in ancestor_file_entry_ids(u.entries, x)
<1> DEFINE g == u.entries
<1>1. /\ TreeSound(u)
      /\ \A y \in DOMAIN g : ~IsFolder(y) /\ y[2] \in target_vault_for_asset(u, y[3]) => g[y].parent \in DOMAIN g
  BY PreparedKeeps
<1>2. Forest(g)
  BY <1>1 DEF TreeSound
<1>3. x \in DOMAIN g /\ ~g[x].trashed /\ (x[1] = "file" => target_vault_for_asset(u, x[3]) = {VaultOf(x)})
  BY DEF Shown
<1> HIDE DEF g
<1>4. x \in EntryIds
  BY <1>2, <1>3, EntryOfForest
<1>5. g[x].parent \in DOMAIN g
  <2>1. CASE IsFolder(x)
    BY <1>2, <1>3, <2>1, EntryOfForest
  <2>2. CASE ~IsFolder(x)
    <3>1. x[1] = "file" /\ VaultOf(x) = x[2]
      BY <2>2 DEF IsFolder, VaultOf
    <3> QED BY <1>1, <1>3, <2>2, <3>1
  <2> QED BY <2>1, <2>2
<1>6. IsFolder(g[x].parent) /\ ~g[g[x].parent].trashed
  BY <1>2, <1>3, <1>5, EntryOfForest
<1>7. g[x].parent \in Shown(u)
  BY <1>5, <1>6 DEF Shown, IsFolder, g
<1>8. Root(VaultOf(x)) \in ancestor_file_entry_ids(g, x)
  BY <1>2, <1>3, <1>5, RootIsAbove
<1> QED BY <1>7, <1>8 DEF g

\* The root of a vault takes entries.
LEMMA RootIsOpen ==
  ASSUME NEW f, Forest(f), NEW v \in TreeVaults
  PROVE  active_folder(f, Root(v), v)
<1>1. Root(v) \in DOMAIN f
  BY DEF Forest
<1>2. IsRoot(Root(v)) /\ VaultOf(Root(v)) = v /\ Root(v) \in EntryIds
  BY EntryKinds
<1>3. IsFolder(Root(v))
  BY <1>2, EntryKinds
<1>4. ~f[Root(v)].trashed
  BY <1>1, <1>2, EntryOfForest
<1> QED BY <1>1, <1>2, <1>3, <1>4 DEF active_folder

\* Other entries of the same assets.
LEMMA Replanted ==
  ASSUME NEW t, TreeSound(t), NEW f, Forest(f), \A x \in DOMAIN f : ~IsFolder(x) => x[3] \in t.assets,
         NEW u, u = [t EXCEPT !.entries = f]
  PROVE  /\ TreeSound(u) /\ u.entries = f
         /\ u.assets = t.assets /\ u.owner = t.owner /\ u.blobs = t.blobs /\ u.receipts = t.receipts
<1>1. t \in TreeType /\ f \in EntriesType /\ OfAssets(t)
  BY DEF TreeSound, Forest
<1>2. /\ u \in TreeType /\ u.entries = f /\ u.assets = t.assets
      /\ u.owner = t.owner /\ u.blobs = t.blobs /\ u.receipts = t.receipts
  BY <1>1 DEF TreeType
<1> QED BY <1>1, <1>2 DEF TreeSound, OfAssets

\* Entries put into the trash with all that hangs below them, or taken out with all that is above.
Markable(f, chosen, trashed) ==
    IF trashed THEN \A x \in DOMAIN f : /\ f[x].parent \in chosen => x \in chosen
                                        /\ x \in chosen => ~IsRoot(x)
    ELSE \A x \in DOMAIN f : f[x].parent \in DOMAIN f /\ x \in chosen => f[x].parent \in chosen

\* Entries trashed or shown together leave the tree sound and the others as they were.
LEMMA MarkedKeeps ==
  ASSUME NEW t, TreeSound(t), NEW chosen, NEW trashed \in BOOLEAN, Markable(t.entries, chosen, trashed),
         NEW u, u = Marked(t, chosen, trashed)
  PROVE  /\ TreeSound(u) /\ DOMAIN u.entries = DOMAIN t.entries
         /\ u.assets = t.assets /\ u.owner = t.owner /\ u.blobs = t.blobs /\ u.receipts = t.receipts
         /\ \A x \in DOMAIN t.entries : /\ x \in chosen => u.entries[x].trashed = trashed
                                        /\ x \notin chosen => u.entries[x] = t.entries[x]
<1> DEFINE f == t.entries
           g == [y \in DOMAIN f |-> IF y \in chosen THEN [f[y] EXCEPT !.trashed = trashed] ELSE f[y]]
<1>1. Forest(f) /\ OfAssets(t)
  BY DEF TreeSound
<1>2. u = [t EXCEPT !.entries = g]
  BY DEF Marked
<1>3. \A y \in DOMAIN f : f[y] \in Entry
  BY <1>1, EntryOfForest
<1>4. \A x \in DOMAIN f : /\ x \in chosen => g[x].trashed = trashed
                          /\ x \notin chosen => g[x] = f[x]
  BY <1>3 DEF Entry
<1>5. DOMAIN g = DOMAIN f
  OBVIOUS
<1>6. Forest(g)
  <2>1. /\ trashed => \A x \in DOMAIN f : /\ f[x].parent \in chosen => x \in chosen
                                          /\ x \in chosen => ~IsRoot(x)
        /\ ~trashed => \A x \in DOMAIN f : f[x].parent \in DOMAIN f /\ x \in chosen => f[x].parent \in chosen
    BY DEF Markable
  <2> HIDE DEF f
  <2> QED BY <1>1, <2>1, MarksKeep DEF f
<1> HIDE DEF g
<1>7. \A x \in DOMAIN g : ~IsFolder(x) => x[3] \in t.assets
  BY <1>1, <1>5 DEF OfAssets
<1>8. /\ TreeSound(u) /\ u.entries = g
      /\ u.assets = t.assets /\ u.owner = t.owner /\ u.blobs = t.blobs /\ u.receipts = t.receipts
  BY <1>2, <1>6, <1>7, Replanted
<1> QED BY <1>4, <1>5, <1>8

-----------------------------------------------------------------------------
\* A call counts, so it is no restart.
LEMMA CallsAreNoRestart ==
  ASSUME TreeInv, treeCalls' = treeCalls + 1
  PROVE  ~StartTree
<1>1. treeCalls \in Nat
  BY DEF TreeInv
<1>2. treeCalls' # treeCalls
  BY <1>1
<1> QED BY <1>2 DEF StartTree

\* What a call leaves behind, whether or not it was saved.
LEMMA CallKeeps ==
  ASSUME TreeInv, Called, NEW t, TreeSound(t), tree.assets \subseteq t.assets, SaveTree(t) \/ RefusedCall(t)
  PROVE  TreeInv' /\ tree' = t
<1>1. tree' = t /\ (treeRows' = t \/ treeRows' = treeRows)
  BY DEF SaveTree, RefusedCall
<1>2. treeCalls' \in Nat /\ inQuarantine' = inQuarantine
  BY DEF Called, TreeInv
<1>3. TreeSound(tree)' /\ TreeSound(treeRows)'
  <2>1. TreeSound(tree') /\ TreeSound(treeRows')
    BY <1>1 DEF TreeInv
  <2> QED BY <2>1 DEF TreeSound, OfAssets
<1>4. inQuarantine' \subseteq tree'.assets /\ inQuarantine' \subseteq treeRows'.assets
  BY <1>1, <1>2 DEF TreeInv
<1> QED BY <1>1, <1>2, <1>3, <1>4 DEF TreeInv

\* An entry the defaults made: an upload or the lack of another vault vouches for it.
Vouched(t, u, x) ==
    /\ ~IsFolder(x) /\ (<<x[2], x[3]>> \in t.receipts \/ TreeVaults = {VaultOf(x)})
    /\ x \notin DOMAIN t.entries /\ EvidenceOf(u, x[3]) = {VaultOf(x)}

\* Where no file comes to life and no row is written, no more is known than was.
LEMMA NoMoreEvidence ==
  ASSUME NEW u, NEW w, w.blobs = u.blobs, w.receipts = u.receipts,
         \A x \in DOMAIN w.entries : ~IsFolder(x) /\ IsLive(w, x) => IsLive(u, x), NEW a
  PROVE  EvidenceOf(w, a) \subseteq EvidenceOf(u, a)
<1> SUFFICES ASSUME NEW v \in TreeVaults, v \in EvidenceOf(w, a) PROVE v \in EvidenceOf(u, a)
  BY DEF EvidenceOf
<1> DEFINE x == EntryOf(v, a)
<1>1. ~IsFolder(x)
  BY DEF IsFolder, EntryOf
<1> HIDE DEF x
<1>2. <<v, a>> \in w.blobs \cup w.receipts \/ (x \in DOMAIN w.entries /\ ~w.entries[x].trashed)
  BY DEF EvidenceOf, x
<1>3. <<v, a>> \in u.blobs \cup u.receipts \/ (x \in DOMAIN u.entries /\ ~u.entries[x].trashed)
  BY <1>1, <1>2 DEF IsLive
<1> QED BY <1>3 DEF EvidenceOf, x

\* Files that were there or made by the defaults, and are live still, are vouched for.
LEMMA StillVouched ==
  ASSUME NEW t, TreeSound(t), NEW u, u = Prepared(t), NEW w, w.blobs = u.blobs, w.receipts = u.receipts,
         \A x \in DOMAIN w.entries : ~IsFolder(x) /\ IsLive(w, x) => IsLive(u, x),
         NEW y \in DOMAIN w.entries, ~IsFolder(y), IsLive(w, y), ~IsLive(t, y)
  PROVE  Vouched(t, w, y)
<1>1. /\ TreeSound(u)
      /\ \A x \in DOMAIN t.entries : x \in DOMAIN u.entries /\ u.entries[x].trashed = t.entries[x].trashed
      /\ \A x \in DOMAIN u.entries \ DOMAIN t.entries :
            /\ ~IsFolder(x) /\ (<<x[2], x[3]>> \in t.receipts \/ TreeVaults = {x[2]})
            /\ <<x[2], x[3]>> \in u.blobs /\ EvidenceOf(u, x[3]) = {x[2]}
  <2>1. /\ TreeSound(u) /\ \A z \in DOMAIN t.entries : Survives(t, u, z)
        /\ \A z \in DOMAIN u.entries \ DOMAIN t.entries : MadeFor(t, u, z)
    BY PreparedKeeps
  <2> QED BY <2>1 DEF Survives, MadeFor
<1>2. y \in DOMAIN u.entries /\ ~u.entries[y].trashed
  BY DEF IsLive
<1>3. y \notin DOMAIN t.entries
  BY <1>1, <1>2 DEF IsLive
<1>4. /\ <<y[2], y[3]>> \in t.receipts \/ TreeVaults = {y[2]}
      /\ <<y[2], y[3]>> \in u.blobs /\ EvidenceOf(u, y[3]) = {y[2]}
  BY <1>1, <1>2, <1>3
<1>5. y \in EntryIds
  BY <1>1, <1>2, EntryOfForest DEF TreeSound
<1>6. y[2] \in TreeVaults /\ y[3] \in TreeAssets /\ VaultOf(y) = y[2]
  BY <1>5, EntryKinds
<1>7. EvidenceOf(w, y[3]) \subseteq EvidenceOf(u, y[3])
  BY NoMoreEvidence
<1>8. y[2] \in EvidenceOf(w, y[3])
  BY <1>4, <1>6 DEF EvidenceOf
<1>9. EvidenceOf(w, y[3]) = {y[2]}
  BY <1>4, <1>7, <1>8
<1> QED BY <1>3, <1>4, <1>6, <1>9 DEF Vouched

\* The defaults take no entry away or out of the trash, and make no folders.
LEMMA PreparedEntries ==
  ASSUME NEW t, TreeSound(t), NEW u, u = Prepared(t)
  PROVE  /\ \A x \in DOMAIN t.entries : x \in DOMAIN u.entries /\ u.entries[x].trashed = t.entries[x].trashed
         /\ \A x \in DOMAIN u.entries \ DOMAIN t.entries : ~IsFolder(x)
<1>1. /\ \A x \in DOMAIN t.entries : x \in DOMAIN u.entries /\ u.entries[x].trashed = t.entries[x].trashed
      /\ \A x \in DOMAIN u.entries \ DOMAIN t.entries :
            /\ ~IsFolder(x) /\ (<<x[2], x[3]>> \in t.receipts \/ TreeVaults = {x[2]})
            /\ <<x[2], x[3]>> \in u.blobs /\ EvidenceOf(u, x[3]) = {x[2]}
  <2>1. /\ TreeSound(u) /\ \A z \in DOMAIN t.entries : Survives(t, u, z)
        /\ \A z \in DOMAIN u.entries \ DOMAIN t.entries : MadeFor(t, u, z)
    BY PreparedKeeps
  <2> QED BY <2>1 DEF Survives, MadeFor
<1> QED BY <1>1

\* What LiveByGrant allows an entry to come to life by.
ByGrant(x) ==
    \/ IsFolder(x) /\ x \notin DOMAIN Known.entries
    \/ ~IsFolder(x) /\ x[3] \in tree'.assets \ tree.assets /\ tree'.owner[x[3]] = VaultOf(x)
    \/ ~IsFolder(x) /\ (<<x[2], x[3]>> \in Known.receipts \/ TreeVaults = {VaultOf(x)})
       /\ x \notin DOMAIN Known.entries /\ EvidenceOf(tree', x[3]) = {VaultOf(x)}
    \/ ~IsFolder(x) /\ x[3] \in inQuarantine \ inQuarantine'
    \/ \E y \in DOMAIN tree.entries : restore_file_entry(y)

Grants == \A x \in DOMAIN tree'.entries : ~IsRoot(x) /\ IsLive(tree', x) /\ ~IsLive(Known, x) => ByGrant(x)

\* What PlacedByAct allows an asset to get into a vault by.
ByAct(a, v) ==
    \/ v \in EvidenceOf(Known, a)
    \/ tree'.owner[a] = v /\ EvidenceOf(Known, a) = {}
    \/ a \in inQuarantine \ inQuarantine'
    \/ TreeVaults = {v}
    \/ \E y \in DOMAIN tree.entries : restore_file_entry(y)

Placings == \A a \in TreeAssets : \A v \in EvidenceOf(tree', a) : ByAct(a, v)

\* A call that does no more to the prepared tree than name, hang and trash entries, or make folders.
LEMMA PreparedGrants ==
  ASSUME TreeInv, ~StartTree, NEW u, u = Prepared(tree), NEW w, tree' = w,
         w.blobs = u.blobs, w.receipts = u.receipts, w.owner = u.owner,
         \A x \in DOMAIN w.entries : IsLive(w, x) => IsLive(u, x) \/ (IsFolder(x) /\ x \notin DOMAIN u.entries)
  PROVE  Grants /\ Placings
<1>1. Known = tree
  BY DEF Known
<1>2. TreeSound(tree)
  BY DEF TreeInv
<1>3. /\ \A x \in DOMAIN tree.entries : x \in DOMAIN u.entries /\ u.entries[x].trashed = tree.entries[x].trashed
      /\ \A x \in DOMAIN u.entries \ DOMAIN tree.entries : ~IsFolder(x)
  BY <1>2, PreparedEntries
<1>4. ASSUME NEW x \in DOMAIN w.entries, IsLive(w, x), ~IsLive(tree, x) PROVE ByGrant(x)
  <2>1. CASE IsFolder(x)
    <3>1. x \notin DOMAIN tree.entries
      BY <1>3, <1>4, <2>1 DEF IsLive
    <3> QED BY <1>1, <2>1, <3>1 DEF ByGrant
  <2>2. CASE ~IsFolder(x)
    <3>1. Vouched(tree, w, x)
      BY <1>2, <1>4, <2>2, StillVouched
    <3>2. Vouched(Known, tree', x)
      BY <1>1, <3>1
    <3> QED BY <3>2 DEF ByGrant, Vouched
  <2> QED BY <2>1, <2>2
<1>5. Grants
  BY <1>1, <1>4 DEF Grants
<1>6. ASSUME NEW a \in TreeAssets, NEW v \in EvidenceOf(w, a) PROVE ByAct(a, v)
  <2>1. v \in EvidenceOf(u, a)
    BY <1>6, NoMoreEvidence
  <2>2. PlacedFrom(tree, u)
    BY <1>2, PreparedKeeps
  <2>3. v \in EvidenceOf(tree, a) \/ (u.owner[a] = v /\ EvidenceOf(tree, a) = {}) \/ TreeVaults = {v}
    BY <2>1, <2>2 DEF PlacedFrom
  <2> QED BY <1>1, <2>3 DEF ByAct
<1>7. Placings
  BY <1>6 DEF Placings
<1> QED BY <1>5, <1>7

\* What every step does: the invariant stays, nothing comes to life without a grant, and
\* nothing gets into a vault without an act.
StepGood == TreeInv' /\ Grants /\ Placings

\* Listing the tree (file_tree, mobile_file_tree) saves or refuses the prepared tree.
LEMMA TreesShown ==
  ASSUME TreeInv, file_tree \/ mobile_file_tree
  PROVE  StepGood
<1> DEFINE u == Prepared(tree)
<1>1. Called /\ (SaveTree(u) \/ (tree = u /\ RefusedCall(tree)))
  BY DEF file_tree, mobile_file_tree
<1>2. TreeSound(u) /\ u.assets = tree.assets
  BY PreparedKeeps DEF TreeInv
<1> HIDE DEF u
<1>3. TreeInv' /\ tree' = u
  BY <1>1, <1>2, CallKeeps
<1>4. ~StartTree
  BY <1>1, CallsAreNoRestart DEF Called
<1>5. Grants /\ Placings
  BY <1>3, <1>4, PreparedGrants DEF u
<1> QED BY <1>3, <1>5 DEF StepGood

\* A new folder (create_file_folder) is all that comes.
LEMMA FoldersAreMade ==
  ASSUME TreeInv, NEW x \in NewFolders, NEW p \in DOMAIN tree.entries, NEW n \in Names, create_file_folder(x, p, n)
  PROVE  StepGood
<1> DEFINE u == Prepared(tree)
           f == With(u.entries, x, EntryAt(p, n))
           w == [u EXCEPT !.entries = f]
<1>1. TreeSound(u) /\ u.assets = tree.assets
  BY PreparedKeeps DEF TreeInv
<1>2. Called /\ ~StartTree
  BY CallsAreNoRestart DEF create_file_folder, Called
<1>3. \/ RefusedCall(u)
      \/ /\ active_folder(u.entries, p, VaultOf(x)) /\ SaveTree(w)
         /\ \A v \in TreeVaults : <<"folder", v, x[3]>> \notin DOMAIN u.entries
  BY DEF create_file_folder
<1>4. CASE RefusedCall(u)
  <2> HIDE DEF u
  <2>1. TreeInv' /\ tree' = u
    BY <1>1, <1>2, <1>4, CallKeeps
  <2>2. Grants /\ Placings
    BY <1>2, <2>1, PreparedGrants DEF u
  <2> QED BY <2>1, <2>2 DEF StepGood
<1>5. CASE /\ active_folder(u.entries, p, VaultOf(x)) /\ SaveTree(w)
           /\ \A v \in TreeVaults : <<"folder", v, x[3]>> \notin DOMAIN u.entries
  <2>1. x \in EntryIds /\ ~IsRoot(x) /\ IsFolder(x) /\ x[2] \in TreeVaults /\ x = <<"folder", x[2], x[3]>>
    BY DEF NewFolders, EntryIds, IsRoot, IsFolder
  <2>2. x \notin DOMAIN u.entries
    BY <1>5, <2>1
  <2>3. Forest(u.entries) /\ OfAssets(u)
    BY <1>1 DEF TreeSound
  <2> HIDE DEF u
  <2>4. Forest(f)
    BY <1>5, <2>1, <2>2, <2>3, HungBelow
  <2>5. /\ DOMAIN f = DOMAIN u.entries \cup {x}
        /\ \A y \in DOMAIN u.entries : y # x => f[y] = u.entries[y]
    BY DEF With
  <2> HIDE DEF f
  <2>6. \A y \in DOMAIN f : ~IsFolder(y) => y[3] \in u.assets
    BY <2>1, <2>3, <2>5 DEF OfAssets
  <2>7. /\ TreeSound(w) /\ w.entries = f /\ w.assets = u.assets /\ w.owner = u.owner
        /\ w.blobs = u.blobs /\ w.receipts = u.receipts
    BY <1>1, <2>4, <2>6, Replanted
  <2> HIDE DEF w
  <2>8. TreeInv' /\ tree' = w
    BY <1>1, <1>2, <1>5, <2>7, CallKeeps
  <2>9. \A y \in DOMAIN w.entries : IsLive(w, y) => IsLive(u, y) \/ (IsFolder(y) /\ y \notin DOMAIN u.entries)
    BY <2>1, <2>2, <2>5, <2>7 DEF IsLive
  <2>10. Grants /\ Placings
    BY <1>2, <2>7, <2>8, <2>9, PreparedGrants DEF u
  <2> QED BY <2>8, <2>10 DEF StepGood
<1> QED BY <1>3, <1>4, <1>5

\* A renamed entry (rename_file_entry) stays where it hangs.
LEMMA RenamesAreGood ==
  ASSUME TreeInv, NEW x \in DOMAIN tree.entries, NEW n \in Names, rename_file_entry(x, n)
  PROVE  StepGood
<1> DEFINE u == Prepared(tree)
           w == [u EXCEPT !.entries[x].name = n]
<1>1. TreeSound(u) /\ u.assets = tree.assets
  BY PreparedKeeps DEF TreeInv
<1>2. Called /\ ~StartTree
  BY CallsAreNoRestart DEF rename_file_entry, Called
<1>3. RefusedCall(u) \/ (x \in DOMAIN u.entries /\ SaveTree(w))
  BY DEF rename_file_entry
<1> HIDE DEF u
<1>4. CASE RefusedCall(u)
  <2>1. TreeInv' /\ tree' = u
    BY <1>1, <1>2, <1>4, CallKeeps
  <2>2. Grants /\ Placings
    BY <1>2, <2>1, PreparedGrants DEF u
  <2> QED BY <2>1, <2>2 DEF StepGood
<1>5. CASE x \in DOMAIN u.entries /\ SaveTree(w)
  <2> DEFINE f == [u.entries EXCEPT ![x].name = n]
  <2>1. Forest(u.entries) /\ OfAssets(u)
    BY <1>1 DEF TreeSound
  <2>2. Forest(f)
    BY <1>5, <2>1, RenameKeeps
  <2>3. DOMAIN f = DOMAIN u.entries /\ \A y \in DOMAIN f : f[y].trashed = u.entries[y].trashed
    <3>1. u.entries[x] \in Entry
      BY <1>5, <2>1, EntryOfForest
    <3> QED BY <3>1 DEF Entry
  <2>4. w = [u EXCEPT !.entries = f]
    BY Zenon
  <2> HIDE DEF f, w
  <2>5. \A y \in DOMAIN f : ~IsFolder(y) => y[3] \in u.assets
    BY <2>1, <2>3 DEF OfAssets
  <2>6. /\ TreeSound(w) /\ w.entries = f /\ w.assets = u.assets /\ w.owner = u.owner
        /\ w.blobs = u.blobs /\ w.receipts = u.receipts
    BY <1>1, <2>2, <2>4, <2>5, Replanted
  <2>7. TreeInv' /\ tree' = w
    BY <1>1, <1>2, <1>5, <2>6, CallKeeps
  <2>8. \A y \in DOMAIN w.entries : IsLive(w, y) => IsLive(u, y) \/ (IsFolder(y) /\ y \notin DOMAIN u.entries)
    BY <2>3, <2>6 DEF IsLive
  <2>9. Grants /\ Placings
    BY <1>2, <2>6, <2>7, <2>8, PreparedGrants DEF u
  <2> QED BY <2>7, <2>9 DEF StepGood
<1> QED BY <1>3, <1>4, <1>5

\* A moved entry (move_file_entry) goes where it is not below itself.
LEMMA MovesAreGood ==
  ASSUME TreeInv, NEW x \in DOMAIN tree.entries, NEW p \in DOMAIN tree.entries, move_file_entry(x, p)
  PROVE  StepGood
<1> DEFINE u == Prepared(tree)
           w == [u EXCEPT !.entries[x].parent = p]
<1>1. TreeSound(u) /\ u.assets = tree.assets
  BY PreparedKeeps DEF TreeInv
<1>2. Called /\ ~StartTree
  BY CallsAreNoRestart DEF move_file_entry, Called
<1>3. \/ RefusedCall(u)
      \/ /\ x \in DOMAIN u.entries /\ ~IsRoot(x) /\ active_folder(u.entries, p, VaultOf(x))
         /\ IsFolder(x) => ~Below(u.entries, x, p)
         /\ SaveTree(w)
  BY DEF move_file_entry
<1> HIDE DEF u
<1>4. CASE RefusedCall(u)
  <2>1. TreeInv' /\ tree' = u
    BY <1>1, <1>2, <1>4, CallKeeps
  <2>2. Grants /\ Placings
    BY <1>2, <2>1, PreparedGrants DEF u
  <2> QED BY <2>1, <2>2 DEF StepGood
<1>5. CASE /\ x \in DOMAIN u.entries /\ ~IsRoot(x) /\ active_folder(u.entries, p, VaultOf(x))
           /\ IsFolder(x) => ~Below(u.entries, x, p)
           /\ SaveTree(w)
  <2> DEFINE f == [u.entries EXCEPT ![x].parent = p]
  <2>1. Forest(u.entries) /\ OfAssets(u)
    BY <1>1 DEF TreeSound
  <2>2. Forest(f)
    <3>1. p \in DOMAIN u.entries
      BY <1>5 DEF active_folder
    <3> QED BY <1>5, <2>1, <3>1, MoveKeeps
  <2>3. DOMAIN f = DOMAIN u.entries /\ \A y \in DOMAIN f : f[y].trashed = u.entries[y].trashed
    <3>1. u.entries[x] \in Entry
      BY <1>5, <2>1, EntryOfForest
    <3> QED BY <3>1 DEF Entry
  <2>4. w = [u EXCEPT !.entries = f]
    BY Zenon
  <2> HIDE DEF f, w
  <2>5. \A y \in DOMAIN f : ~IsFolder(y) => y[3] \in u.assets
    BY <2>1, <2>3 DEF OfAssets
  <2>6. /\ TreeSound(w) /\ w.entries = f /\ w.assets = u.assets /\ w.owner = u.owner
        /\ w.blobs = u.blobs /\ w.receipts = u.receipts
    BY <1>1, <2>2, <2>4, <2>5, Replanted
  <2>7. TreeInv' /\ tree' = w
    BY <1>1, <1>2, <1>5, <2>6, CallKeeps
  <2>8. \A y \in DOMAIN w.entries : IsLive(w, y) => IsLive(u, y) \/ (IsFolder(y) /\ y \notin DOMAIN u.entries)
    BY <2>3, <2>6 DEF IsLive
  <2>9. Grants /\ Placings
    BY <1>2, <2>6, <2>7, <2>8, PreparedGrants DEF u
  <2> QED BY <2>7, <2>9 DEF StepGood
<1> QED BY <1>3, <1>4, <1>5

\* An entry is trashed with all that is below it.
LEMMA TrashingIsGood ==
  ASSUME TreeInv, NEW x \in DOMAIN tree.entries, trash_file_entry(x)
  PROVE  StepGood
<1> DEFINE u == Prepared(tree)
           D == {x} \cup descendant_file_entry_ids(u.entries, x)
           w == Marked(u, D, TRUE)
<1>1. TreeSound(u) /\ u.assets = tree.assets
  BY PreparedKeeps DEF TreeInv
<1>2. Called /\ ~StartTree
  BY CallsAreNoRestart DEF trash_file_entry, Called
<1>3. RefusedCall(u) \/ (x \in DOMAIN u.entries /\ ~IsRoot(x) /\ SaveTree(w))
  BY DEF trash_file_entry
<1> HIDE DEF u
<1>4. CASE RefusedCall(u)
  <2>1. TreeInv' /\ tree' = u
    BY <1>1, <1>2, <1>4, CallKeeps
  <2>2. Grants /\ Placings
    BY <1>2, <2>1, PreparedGrants DEF u
  <2> QED BY <2>1, <2>2 DEF StepGood
<1>5. CASE x \in DOMAIN u.entries /\ ~IsRoot(x) /\ SaveTree(w)
  <2>1. Forest(u.entries)
    BY <1>1 DEF TreeSound
  <2>2. ASSUME NEW y \in DOMAIN u.entries
        PROVE  /\ u.entries[y].parent \in D => y \in D
               /\ y \in D => ~IsRoot(y)
    <3> DEFINE f == u.entries
    <3>1. IsFiniteSet(DOMAIN f) /\ (IsRoot(y) => f[y].parent \notin DOMAIN f)
      BY <2>1, EntryOfForest
    <3>2. descendant_file_entry_ids(f, x) = {z \in DOMAIN f : x \in ancestor_file_entry_ids(f, z)}
      BY DEF descendant_file_entry_ids
    <3>3. f[y].parent \in D => f[y].parent \in DOMAIN f
      BY <1>5, <3>2
    <3>4. f[y].parent \in DOMAIN f => (y \in descendant_file_entry_ids(f, x) <=> f[y].parent \in D)
      BY <3>1, BelowByParent
    <3>5. f[y].parent \notin DOMAIN f => ancestor_file_entry_ids(f, y) \subseteq {}
      <4>1. Above(f, {})
        BY DEF Above
      <4> QED BY <3>1, <4>1, Ancestors
    <3> HIDE DEF f
    <3>6. y \in D => ~IsRoot(y)
      BY <1>5, <3>1, <3>2, <3>5 DEF f
    <3>7. f[y].parent \in D => y \in D
      BY <3>3, <3>4 DEF f
    <3> QED BY <3>6, <3>7 DEF f
  <2> HIDE DEF D, w
  <2> DEFINE mark == TRUE
  <2>3. w = Marked(u, D, mark) /\ mark \in BOOLEAN
    BY DEF w
  <2>9. mark
    OBVIOUS
  <2> HIDE DEF mark
  <2>8. Markable(u.entries, D, mark)
    BY <2>2, <2>9 DEF Markable
  <2>4. /\ TreeSound(w) /\ DOMAIN w.entries = DOMAIN u.entries
        /\ w.assets = u.assets /\ w.owner = u.owner
        /\ w.blobs = u.blobs /\ w.receipts = u.receipts
        /\ \A y \in DOMAIN u.entries : /\ y \in D => w.entries[y].trashed = mark
                                       /\ y \notin D => w.entries[y] = u.entries[y]
    BY <1>1, <2>3, <2>8, MarkedKeeps
  <2>5. TreeInv' /\ tree' = w
    BY <1>1, <1>2, <1>5, <2>4, CallKeeps
  <2>6. \A y \in DOMAIN w.entries : IsLive(w, y) => IsLive(u, y) \/ (IsFolder(y) /\ y \notin DOMAIN u.entries)
    BY <2>4, <2>9 DEF IsLive
  <2>7. Grants /\ Placings
    BY <1>2, <2>4, <2>5, <2>6, PreparedGrants DEF u
  <2> QED BY <2>5, <2>7 DEF StepGood
<1> QED BY <1>3, <1>4, <1>5

\* An entry is restored with all that is below it and all that is above.
LEMMA RestoringIsGood ==
  ASSUME TreeInv, NEW x \in DOMAIN tree.entries, restore_file_entry(x)
  PROVE  StepGood
<1> DEFINE u == Prepared(tree)
           D == descendant_file_entry_ids(u.entries, x)
           A == ancestor_file_entry_ids(u.entries, x)
           all == {x} \cup D \cup A
           w == Marked(u, all, FALSE)
<1>1. TreeSound(u) /\ u.assets = tree.assets
  BY PreparedKeeps DEF TreeInv
<1>2. Called
  BY DEF restore_file_entry
<1>3. RefusedCall(u) \/ (x \in DOMAIN u.entries /\ ~IsRoot(x) /\ SaveTree(w))
  BY DEF restore_file_entry
<1>4. Grants /\ Placings
  BY DEF Grants, ByGrant, Placings, ByAct
<1> HIDE DEF u
<1>5. CASE RefusedCall(u)
  <2>1. TreeInv' /\ tree' = u
    BY <1>1, <1>2, <1>5, CallKeeps
  <2> QED BY <1>4, <2>1 DEF StepGood
<1>6. CASE x \in DOMAIN u.entries /\ ~IsRoot(x) /\ SaveTree(w)
  <2> DEFINE f == u.entries
  <2>1. Forest(f)
    BY <1>1 DEF TreeSound
  <2>2. IsFiniteSet(DOMAIN f)
    BY <1>6, <2>1, EntryOfForest
  <2>3. /\ f[x].parent \in DOMAIN f => f[x].parent \in A
        /\ Above(f, A)
    BY <2>2, Ancestors
  <2>4. ASSUME NEW y \in DOMAIN f, f[y].parent \in DOMAIN f, y \in all PROVE f[y].parent \in all
    <3>1. CASE y = x
      BY <2>3, <2>4, <3>1
    <3>2. CASE y \in A
      BY <2>3, <2>4, <3>2 DEF Above
    <3>3. CASE y \in D
      <4>1. f[y].parent \in {x} \cup D
        BY <2>2, <2>4, <3>3, BelowByParent
      <4> QED BY <4>1
    <3> QED BY <2>4, <3>1, <3>2, <3>3
  <2> HIDE DEF all, w
  <2> DEFINE mark == FALSE
  <2>6. w = Marked(u, all, mark) /\ mark \in BOOLEAN /\ ~mark
    BY DEF w
  <2> HIDE DEF mark
  <2>7. TreeSound(w) /\ w.assets = u.assets
    <3>1. Markable(u.entries, all, mark)
      BY <2>4, <2>6 DEF Markable
    <3> QED BY <1>1, <2>6, <3>1, MarkedKeeps
  <2>8. TreeInv' /\ tree' = w
    BY <1>1, <1>2, <1>6, <2>7, CallKeeps
  <2> QED BY <1>4, <2>8 DEF StepGood
<1> QED BY <1>3, <1>5, <1>6

\* A file pushed into the root of its vault, whatever was there before.
Pushed(t, v, a) == [t EXCEPT !.entries = With(@, EntryOf(v, a), EntryAt(Root(v), FileName))]

\* A file under a vault's root: the tree stays sound, and the file is live.
LEMMA PushedIntoRoot ==
  ASSUME NEW t, TreeSound(t), NEW v \in TreeVaults, NEW a \in t.assets,
         NEW u, u = Pushed(t, v, a)
  PROVE  /\ TreeSound(u) /\ DOMAIN u.entries = DOMAIN t.entries \cup {EntryOf(v, a)}
         /\ u.assets = t.assets /\ u.owner = t.owner /\ u.blobs = t.blobs /\ u.receipts = t.receipts
         /\ \A x \in DOMAIN t.entries : x # EntryOf(v, a) => u.entries[x] = t.entries[x]
         /\ ~u.entries[EntryOf(v, a)].trashed
<1> DEFINE x == EntryOf(v, a)
           f == With(t.entries, x, EntryAt(Root(v), FileName))
<1>1. Forest(t.entries) /\ OfAssets(t) /\ a \in TreeAssets
  BY DEF TreeSound, TreeType
<1>2. x \in EntryIds /\ ~IsRoot(x) /\ ~IsFolder(x) /\ VaultOf(x) = v /\ x[3] = a
  BY <1>1, EntryKinds
<1>3. active_folder(t.entries, Root(v), v)
  BY <1>1, RootIsOpen
<1>4. FileName \in Names
  BY TreeAssumption DEF FileName
<1>5. u = [t EXCEPT !.entries = f]
  BY DEF Pushed
<1> HIDE DEF x
<1>6. Forest(f)
  BY <1>1, <1>2, <1>3, <1>4, HungBelow
<1>7. /\ DOMAIN f = DOMAIN t.entries \cup {x} /\ ~f[x].trashed
      /\ \A y \in DOMAIN t.entries : y # x => f[y] = t.entries[y]
  BY DEF With, EntryAt
<1> HIDE DEF f
<1>8. \A y \in DOMAIN f : ~IsFolder(y) => y[3] \in t.assets
  BY <1>1, <1>2, <1>7 DEF OfAssets
<1>9. /\ TreeSound(u) /\ u.entries = f
      /\ u.assets = t.assets /\ u.owner = t.owner /\ u.blobs = t.blobs /\ u.receipts = t.receipts
  BY <1>5, <1>6, <1>8, Replanted
<1> QED BY <1>7, <1>9 DEF x

\* One asset more, and the receipt of its upload.
Arrived(t, v, a) == [t EXCEPT !.assets = @ \cup {a}, !.owner[a] = v]
Receipted(t, v, a) == [t EXCEPT !.receipts = @ \cup {<<v, a>>}]

\* An asset of a vault arrives (an import's or an upload's record).
LEMMA OneAssetMore ==
  ASSUME NEW t, TreeSound(t), NEW v \in TreeVaults, NEW a \in TreeAssets, NEW u, u = Arrived(t, v, a)
  PROVE  /\ TreeSound(u) /\ u.entries = t.entries /\ u.blobs = t.blobs /\ u.receipts = t.receipts
         /\ u.assets = t.assets \cup {a} /\ u.owner[a] = v
<1>1. t \in TreeType /\ Forest(t.entries) /\ OfAssets(t)
  BY DEF TreeSound
<1>2. /\ u \in TreeType /\ u.entries = t.entries /\ u.blobs = t.blobs /\ u.receipts = t.receipts
      /\ u.assets = t.assets \cup {a} /\ u.owner[a] = v
  BY <1>1 DEF TreeType, Arrived
<1> QED BY <1>1, <1>2 DEF TreeSound, OfAssets

\* An upload's receipt is recorded.
LEMMA OneReceiptMore ==
  ASSUME NEW t, TreeSound(t), NEW v \in TreeVaults, NEW a \in t.assets, NEW u, u = Receipted(t, v, a)
  PROVE  /\ TreeSound(u) /\ u.entries = t.entries /\ u.blobs = t.blobs
         /\ u.receipts = t.receipts \cup {<<v, a>>} /\ u.assets = t.assets /\ u.owner = t.owner
<1>1. t \in TreeType /\ Forest(t.entries) /\ OfAssets(t)
  BY DEF TreeSound
<1>2. t.receipts \cup {<<v, a>>} \in SUBSET (TreeVaults \X TreeAssets)
  BY <1>1 DEF TreeType
<1>3. /\ u \in TreeType /\ u.entries = t.entries /\ u.blobs = t.blobs
      /\ u.receipts = t.receipts \cup {<<v, a>>} /\ u.assets = t.assets /\ u.owner = t.owner
  BY <1>1, <1>2 DEF TreeType, Receipted
<1> QED BY <1>1, <1>3 DEF TreeSound, OfAssets

\* What is known of an asset, when nothing that speaks of it was changed.
LEMMA SameEvidence ==
  ASSUME NEW t, NEW u, NEW a,
         \A v \in TreeVaults : <<v, a>> \in u.blobs \cup u.receipts <=> <<v, a>> \in t.blobs \cup t.receipts,
         \A v \in TreeVaults : EntryOf(v, a) \in DOMAIN u.entries /\ ~u.entries[EntryOf(v, a)].trashed
                           <=> EntryOf(v, a) \in DOMAIN t.entries /\ ~t.entries[EntryOf(v, a)].trashed
  PROVE  EvidenceOf(u, a) = EvidenceOf(t, a)
BY DEF EvidenceOf

\* The entries of different assets are different.
LEMMA EntriesApart ==
  ASSUME NEW v, NEW w, NEW a, NEW b, a # b
  PROVE  EntryOf(v, a) # EntryOf(w, b)
BY DEF EntryOf

\* What the defaults made, before anything else was done.
LEMMA MadeByEnsure ==
  ASSUME NEW t, TreeSound(t), NEW u, u = ensure_file_namespace_defaults(t),
         NEW x \in DOMAIN u.entries, x \notin DOMAIN t.entries
  PROVE  /\ ~IsFolder(x) /\ VaultOf(x) = x[2] /\ x[3] \in TreeAssets
         /\ <<x[2], x[3]>> \in t.receipts \/ TreeVaults = {x[2]}
         /\ EvidenceOf(u, x[3]) = {x[2]}
<1>1. /\ TreeSound(u)
      /\ \A a \in TreeAssets : /\ EvidenceOf(u, a) = EvidenceOf(t, a)
                               /\ target_vault_for_asset(u, a) = target_vault_for_asset(t, a)
      /\ \A y \in DOMAIN u.entries \ DOMAIN t.entries :
            ~IsFolder(y) /\ <<y[2], y[3]>> \in t.blobs /\ Granted(t, y[2], y[3])
  BY EnsureKeeps
<1>2. ~IsFolder(x) /\ <<x[2], x[3]>> \in t.blobs /\ Granted(t, x[2], x[3])
  BY <1>1
<1>3. x \in EntryIds
  BY <1>1, EntryOfForest DEF TreeSound
<1>4. VaultOf(x) = x[2] /\ x[2] \in TreeVaults /\ x[3] \in TreeAssets
  BY <1>2, <1>3, EntryKinds
<1>5. EvidenceOf(t, x[3]) \subseteq {x[2]} /\ (<<x[2], x[3]>> \in t.receipts \/ TreeVaults = {x[2]})
  BY <1>2 DEF Granted
<1>6. x[2] \in EvidenceOf(t, x[3])
  BY <1>2, <1>4 DEF EvidenceOf
<1>7. EvidenceOf(u, x[3]) = {x[2]}
  BY <1>1, <1>4, <1>5, <1>6
<1> QED BY <1>2, <1>4, <1>5, <1>7

\* What the defaults of a call made, as the lemmas above speak of it.
LEMMA MadeByCall ==
  ASSUME NEW t, TreeSound(t), NEW u, u = Prepared(t), NEW x \in DOMAIN u.entries, x \notin DOMAIN t.entries
  PROVE  /\ ~IsFolder(x) /\ VaultOf(x) = x[2] /\ x[3] \in TreeAssets
         /\ <<x[2], x[3]>> \in t.receipts \/ TreeVaults = {x[2]}
         /\ EvidenceOf(u, x[3]) = {x[2]}
<1>1. /\ TreeSound(u)
      /\ \A y \in DOMAIN t.entries : y \in DOMAIN u.entries /\ u.entries[y].trashed = t.entries[y].trashed
      /\ \A y \in DOMAIN u.entries \ DOMAIN t.entries :
            /\ ~IsFolder(y) /\ (<<y[2], y[3]>> \in t.receipts \/ TreeVaults = {y[2]})
            /\ <<y[2], y[3]>> \in u.blobs /\ EvidenceOf(u, y[3]) = {y[2]}
  <2>1. /\ TreeSound(u) /\ \A z \in DOMAIN t.entries : Survives(t, u, z)
        /\ \A z \in DOMAIN u.entries \ DOMAIN t.entries : MadeFor(t, u, z)
    BY PreparedKeeps
  <2> QED BY <2>1 DEF Survives, MadeFor
<1>2. x \in EntryIds
  BY <1>1, EntryOfForest DEF TreeSound
<1> QED BY <1>1, <1>2, EntryKinds

\* An entry the defaults made, and what vouches for it.
Made(t, w, x) ==
    /\ ~IsFolder(x) /\ VaultOf(x) = x[2] /\ x[3] \in TreeAssets
    /\ <<x[2], x[3]>> \in t.receipts \/ TreeVaults = {x[2]}
    /\ EvidenceOf(w, x[3]) = {x[2]}

\* What is left of a tree when its rows were refreshed, and perhaps the defaults applied.
Settled(t, w) ==
    /\ TreeSound(w) /\ w.assets = t.assets /\ w.owner = t.owner
    /\ \A a \in TreeAssets : EvidenceOf(t, a) # {} => EvidenceOf(w, a) = EvidenceOf(t, a)
    /\ \A x \in DOMAIN t.entries : x \in DOMAIN w.entries /\ w.entries[x].trashed = t.entries[x].trashed
    /\ \A x \in DOMAIN w.entries : x \notin DOMAIN t.entries => Made(t, w, x)
    /\ PlacedFrom(t, w)

\* Whatever prepares the rows, a call or a repair, leaves what was known alone.
LEMMA Settles ==
  ASSUME NEW t, TreeSound(t), NEW w, w = Prepared(t) \/ w = refresh_rows(t)
  PROVE  Settled(t, w)
<1>1. CASE w = Prepared(t)
  <2>1. /\ TreeSound(w) /\ w.assets = t.assets /\ w.owner = t.owner
        /\ \A a \in TreeAssets : EvidenceOf(t, a) # {} => EvidenceOf(w, a) = EvidenceOf(t, a)
        /\ \A x \in DOMAIN t.entries : x \in DOMAIN w.entries /\ w.entries[x].trashed = t.entries[x].trashed
    <3>1. /\ TreeSound(w) /\ w.assets = t.assets /\ w.owner = t.owner
          /\ \A a \in TreeAssets : EvidenceOf(t, a) # {} => EvidenceOf(w, a) = EvidenceOf(t, a)
          /\ \A x \in DOMAIN t.entries : Survives(t, w, x)
      BY <1>1, PreparedKeeps
    <3> QED BY <3>1 DEF Survives
  <2>2. \A x \in DOMAIN w.entries : x \notin DOMAIN t.entries => Made(t, w, x)
    BY <1>1, MadeByCall DEF Made
  <2>3. PlacedFrom(t, w)
    BY <1>1, PreparedKeeps
  <2> QED BY <2>1, <2>2, <2>3 DEF Settled
<1>2. CASE w = refresh_rows(t)
  <2>1. /\ TreeSound(w) /\ w.entries = t.entries /\ w.assets = t.assets /\ w.owner = t.owner
        /\ \A a \in TreeAssets : /\ target_vault_for_asset(w, a) = target_vault_for_asset(t, a)
                                 /\ EvidenceOf(t, a) # {} => EvidenceOf(w, a) = EvidenceOf(t, a)
        /\ PlacedFrom(t, w)
    BY <1>2, RefreshKeeps
  <2> QED BY <2>1 DEF Settled
<1> QED BY <1>1, <1>2

\* A step that leaves a sound tree behind.
LEMMA SavedOrNot ==
  ASSUME TreeInv, Called, NEW t, TreeSound(t), tree.assets \subseteq t.assets, tree' = t,
         treeRows' \in {t, treeRows}
  PROVE  TreeInv'
<1>1. treeCalls' \in Nat /\ inQuarantine' = inQuarantine
  BY DEF Called, TreeInv
<1>2. TreeSound(tree') /\ TreeSound(treeRows')
  BY DEF TreeInv
<1>3. TreeSound(tree)' /\ TreeSound(treeRows)'
  BY <1>2 DEF TreeSound, OfAssets
<1>4. inQuarantine' \subseteq tree'.assets /\ inQuarantine' \subseteq treeRows'.assets
  BY <1>1 DEF TreeInv
<1> QED BY <1>1, <1>3, <1>4 DEF TreeInv

\* Nothing is known of an asset that is not there.
LEMMA NothingIsKnown ==
  ASSUME NEW t, TreeSound(t), NEW a \in TreeAssets, a \notin t.assets
  PROVE  EvidenceOf(t, a) = {}
<1> SUFFICES ASSUME NEW v \in TreeVaults, v \in EvidenceOf(t, a) PROVE FALSE
  BY DEF EvidenceOf
<1>1. ~IsFolder(EntryOf(v, a)) /\ EntryOf(v, a)[3] = a
  BY EntryKinds
<1>2. /\ EntryOf(v, a) \notin DOMAIN t.entries
      /\ <<v, a>> \notin t.blobs \cup t.receipts
  BY <1>1 DEF TreeSound, OfAssets
<1> QED BY <1>2 DEF EvidenceOf

\* An asset that arrives in v, the others as they were: what is known afterwards.
LEMMA ArrivalPlaces ==
  ASSUME Known = tree, NEW v \in TreeVaults, NEW a \in TreeAssets, NEW p, PlacedFrom(p, tree'),
         EvidenceOf(tree, a) = {}, tree'.owner[a] = v, EvidenceOf(p, a) \subseteq {v},
         \A b \in TreeAssets : b # a => EvidenceOf(p, b) = EvidenceOf(tree, b)
  PROVE  Placings
<1> SUFFICES ASSUME NEW b \in TreeAssets, NEW w \in EvidenceOf(tree', b) PROVE ByAct(b, w)
  BY DEF Placings
<1>1. w \in EvidenceOf(p, b) \/ (tree'.owner[b] = w /\ EvidenceOf(p, b) = {}) \/ TreeVaults = {w}
  BY DEF PlacedFrom
<1>2. CASE b = a
  <2>1. TreeVaults = {w} \/ w = v
    BY <1>1, <1>2
  <2> QED BY <1>2, <2>1 DEF ByAct
<1>3. CASE b # a
  <2>1. EvidenceOf(p, b) = EvidenceOf(tree, b)
    BY <1>3
  <2> QED BY <1>1, <2>1 DEF ByAct
<1> QED BY <1>2, <1>3

\* An import grants the file it brings, and no other.
LEMMA ImportsAreGood ==
  ASSUME TreeInv, NEW v \in TreeVaults, NEW a \in TreeAssets, ImportInto(v, a)
  PROVE  StepGood
<1> DEFINE e == ensure_file_namespace_defaults(tree)
           r == Arrived(e, v, a)
           p == Pushed(r, v, a)
           pushed == [e EXCEPT !.assets = @ \cup {a}, !.owner[a] = v,
                               !.entries = With(@, EntryOf(v, a), EntryAt(Root(v), FileName))]
           y == EntryOf(v, a)
<1>1. Called /\ a \notin tree.assets /\ ~StartTree /\ Known = tree
  BY CallsAreNoRestart DEF ImportInto, Called, Known
<1>2. /\ tree' = Prepared(pushed) \/ tree' = refresh_rows(pushed)
      /\ treeRows' \in {tree', treeRows}
  BY DEF ImportInto, SaveTree
<1>3. pushed = p
  <2> HIDE DEF e
  <2> QED BY Zenon DEF Pushed, Arrived
<1>4. TreeSound(tree) /\ OfAssets(tree)
  BY DEF TreeInv, TreeSound
<1>5. /\ TreeSound(e) /\ e.assets = tree.assets
      /\ \A x \in DOMAIN tree.entries : x \in DOMAIN e.entries /\ e.entries[x].trashed = tree.entries[x].trashed
  BY <1>4, EnsureKeeps
<1>6. e.receipts = tree.receipts
  BY <1>4, EnsureKeeps
<1>7. ASSUME NEW x \in DOMAIN e.entries, x \notin DOMAIN tree.entries
      PROVE  /\ ~IsFolder(x) /\ VaultOf(x) = x[2] /\ x[3] \in TreeAssets
             /\ <<x[2], x[3]>> \in tree.receipts \/ TreeVaults = {x[2]}
             /\ EvidenceOf(e, x[3]) = {x[2]}
  BY <1>4, <1>7, MadeByEnsure
<1> HIDE DEF e
<1>8. /\ TreeSound(r) /\ r.entries = e.entries /\ r.blobs = e.blobs /\ r.receipts = e.receipts
      /\ r.assets = e.assets \cup {a} /\ r.owner[a] = v
  BY <1>5, OneAssetMore
<1> HIDE DEF r
<1>9. /\ TreeSound(p) /\ DOMAIN p.entries = DOMAIN r.entries \cup {y}
      /\ p.assets = r.assets /\ p.owner = r.owner /\ p.blobs = r.blobs /\ p.receipts = r.receipts
      /\ \A x \in DOMAIN r.entries : x # y => p.entries[x] = r.entries[x]
      /\ ~p.entries[y].trashed
  BY <1>8, PushedIntoRoot
<1> HIDE DEF p, pushed
<1>10. /\ TreeSound(tree') /\ tree'.assets = p.assets /\ tree'.owner = p.owner
       /\ \A b \in TreeAssets : EvidenceOf(p, b) # {} => EvidenceOf(tree', b) = EvidenceOf(p, b)
       /\ \A x \in DOMAIN p.entries : x \in DOMAIN tree'.entries /\ tree'.entries[x].trashed = p.entries[x].trashed
       /\ \A x \in DOMAIN tree'.entries : x \notin DOMAIN p.entries => Made(p, tree', x)
       /\ PlacedFrom(p, tree')
  <2>1. Settled(p, tree')
    BY <1>2, <1>3, <1>9, Settles
  <2> QED BY <2>1 DEF Settled
<1>11. TreeInv'
  <2>1. tree.assets \subseteq tree'.assets
    BY <1>5, <1>8, <1>9, <1>10
  <2> QED BY <1>1, <1>2, <1>10, <2>1, SavedOrNot
<1>12. tree'.owner[a] = v /\ a \in tree'.assets \ tree.assets
  BY <1>1, <1>8, <1>9, <1>10
<1>13. \A x \in DOMAIN e.entries : ~IsFolder(x) => x[3] \in tree.assets
  BY <1>5 DEF TreeSound, OfAssets
<1>14. \A b \in TreeAssets : b # a => EvidenceOf(p, b) = EvidenceOf(e, b)
  <2> SUFFICES ASSUME NEW b \in TreeAssets, b # a PROVE EvidenceOf(p, b) = EvidenceOf(e, b)
    OBVIOUS
  <2>1. \A w \in TreeVaults : EntryOf(w, b) # y
    BY EntriesApart
  <2> HIDE DEF y
  <2>2. \A w \in TreeVaults : EntryOf(w, b) \in DOMAIN p.entries /\ ~p.entries[EntryOf(w, b)].trashed
                          <=> EntryOf(w, b) \in DOMAIN e.entries /\ ~e.entries[EntryOf(w, b)].trashed
    BY <1>8, <1>9, <2>1
  <2> QED BY <1>8, <1>9, <2>2, SameEvidence
<1>15. v \in EvidenceOf(p, a)
  BY <1>9 DEF EvidenceOf
<1>20. \A b \in TreeAssets : EvidenceOf(e, b) = EvidenceOf(tree, b)
  BY <1>4, EnsureKeeps DEF e
<1>21. EvidenceOf(p, a) \subseteq {v} /\ EvidenceOf(tree, a) = {}
  <2>1. EvidenceOf(tree, a) = {}
    BY <1>1, <1>4, NothingIsKnown
  <2> SUFFICES ASSUME NEW w \in TreeVaults, w \in EvidenceOf(p, a), w # v PROVE FALSE
    BY <2>1 DEF EvidenceOf
  <2>2. EntryOf(w, a) # y
    BY DEF EntryOf
  <2> HIDE DEF y
  <2>3. w \in EvidenceOf(e, a)
    BY <1>8, <1>9, <2>2 DEF EvidenceOf
  <2> QED BY <1>20, <2>1, <2>3
<1>16. VaultOf(y) = v /\ y[3] = a /\ ~IsFolder(y)
  BY EntryKinds
<1> HIDE DEF y
<1>17. ASSUME NEW x \in DOMAIN tree'.entries, IsLive(tree', x), ~IsLive(tree, x) PROVE ByGrant(x)
  <2>1. CASE x = y
    BY <1>12, <1>16, <2>1 DEF ByGrant
  <2>2. CASE x # y /\ x \in DOMAIN e.entries
    <3>1. x \in DOMAIN p.entries /\ p.entries[x] = e.entries[x]
      BY <1>8, <1>9, <2>2
    <3>2. ~e.entries[x].trashed
      BY <1>10, <1>17, <3>1 DEF IsLive
    <3>3. x \notin DOMAIN tree.entries
      BY <1>5, <1>17, <3>2 DEF IsLive
    <3>4. /\ ~IsFolder(x) /\ VaultOf(x) = x[2] /\ x[3] \in TreeAssets
          /\ <<x[2], x[3]>> \in tree.receipts \/ TreeVaults = {x[2]}
          /\ EvidenceOf(e, x[3]) = {x[2]}
      BY <1>7, <2>2, <3>3
    <3>5. x[3] # a
      BY <1>1, <1>13, <2>2, <3>4
    <3>6. EvidenceOf(p, x[3]) = {x[2]}
      BY <1>14, <3>4, <3>5
    <3>7. EvidenceOf(tree', x[3]) = {x[2]}
      BY <1>10, <3>4, <3>6
    <3> QED BY <1>1, <3>3, <3>4, <3>7 DEF ByGrant
  <2>3. CASE x # y /\ x \notin DOMAIN e.entries
    <3>1. Made(p, tree', x)
      BY <1>8, <1>9, <1>10, <2>3
    <3>2. x \notin DOMAIN tree.entries
      BY <1>5, <2>3
    <3>3. CASE x[3] = a
      <4>1. EvidenceOf(tree', a) = EvidenceOf(p, a)
        BY <1>10, <1>15
      <4>2. VaultOf(x) = v
        BY <1>15, <3>1, <3>3, <4>1 DEF Made
      <4> QED BY <1>12, <3>1, <3>3, <4>2 DEF ByGrant, Made
    <3>4. CASE x[3] # a
      <4>1. p.receipts = tree.receipts
        BY <1>6, <1>8, <1>9
      <4> QED BY <1>1, <3>1, <3>2, <4>1 DEF ByGrant, Made
    <3> QED BY <3>3, <3>4
  <2> QED BY <2>1, <2>2, <2>3
<1>18. Grants
  BY <1>1, <1>17 DEF Grants
<1>22. Placings
  <2>1. \A b \in TreeAssets : b # a => EvidenceOf(p, b) = EvidenceOf(tree, b)
    BY <1>14, <1>20
  <2> QED BY <1>1, <1>10, <1>12, <1>21, <2>1, ArrivalPlaces
<1> QED BY <1>11, <1>18, <1>22 DEF StepGood

\* A completed upload (complete_mobile_upload) grants the file of its vault.
LEMMA UploadsAreGood ==
  ASSUME TreeInv, NEW v \in TreeVaults, NEW a \in TreeAssets, CompleteUpload(v, a)
  PROVE  StepGood
<1> DEFINE r == Arrived(tree, v, a)
           q == Receipted(r, v, a)
<1>1. Called /\ a \notin tree.assets /\ ~StartTree /\ Known = tree
  BY CallsAreNoRestart DEF CompleteUpload, Called, Known
<1>2. /\ tree' = Prepared(q) \/ tree' = refresh_rows(r)
      /\ treeRows' \in {tree', treeRows}
  BY DEF CompleteUpload, SaveTree, Arrived, Receipted
<1>3. TreeSound(tree)
  BY DEF TreeInv
<1>4. /\ TreeSound(r) /\ r.entries = tree.entries /\ r.blobs = tree.blobs /\ r.receipts = tree.receipts
      /\ r.assets = tree.assets \cup {a} /\ r.owner[a] = v
  BY <1>3, OneAssetMore
<1> HIDE DEF r
<1>5. /\ TreeSound(q) /\ q.entries = r.entries /\ q.blobs = r.blobs
      /\ q.receipts = r.receipts \cup {<<v, a>>} /\ q.assets = r.assets /\ q.owner = r.owner
  BY <1>4, OneReceiptMore
<1> HIDE DEF q
<1>8. EvidenceOf(tree, a) = {}
  BY <1>1, <1>3, NothingIsKnown
<1>9. /\ \A b \in TreeAssets : EvidenceOf(r, b) = EvidenceOf(tree, b)
      /\ \A b \in TreeAssets : b # a => EvidenceOf(q, b) = EvidenceOf(tree, b)
      /\ EvidenceOf(q, a) \subseteq {v}
  <2>1. \A b \in TreeAssets : EvidenceOf(r, b) = EvidenceOf(tree, b)
    BY <1>4 DEF EvidenceOf
  <2>2. \A b \in TreeAssets : b # a => EvidenceOf(q, b) = EvidenceOf(tree, b)
    BY <1>4, <1>5 DEF EvidenceOf
  <2>3. \A w \in EvidenceOf(q, a) : w = v \/ w \in EvidenceOf(tree, a)
    BY <1>4, <1>5 DEF EvidenceOf
  <2> QED BY <1>8, <2>1, <2>2, <2>3
<1>6. CASE tree' = refresh_rows(r)
  <2>1. Settled(r, tree')
    BY <1>4, <1>6, Settles
  <2>2. /\ TreeSound(tree') /\ tree'.assets = r.assets /\ tree'.owner = r.owner /\ tree'.entries = r.entries
    BY <1>4, <1>6, RefreshKeeps
  <2>3. TreeInv'
    <3>1. tree.assets \subseteq tree'.assets
      BY <1>4, <2>2
    <3> QED BY <1>1, <1>2, <2>2, <3>1, SavedOrNot
  <2>4. Grants
    BY <1>1, <1>4, <2>2 DEF Grants, IsLive
  <2>5. Placings
    <3>1. PlacedFrom(r, tree') /\ tree'.owner[a] = v /\ EvidenceOf(r, a) \subseteq {v}
      BY <1>4, <1>8, <1>9, <2>1, <2>2 DEF Settled
    <3> QED BY <1>1, <1>8, <1>9, <3>1, ArrivalPlaces
  <2> QED BY <2>3, <2>4, <2>5 DEF StepGood
<1>7. CASE tree' = Prepared(q)
  <2>1. /\ TreeSound(tree') /\ tree'.assets = q.assets /\ tree'.owner = q.owner
        /\ \A b \in TreeAssets : EvidenceOf(q, b) # {} => EvidenceOf(tree', b) = EvidenceOf(q, b)
        /\ \A x \in DOMAIN q.entries : x \in DOMAIN tree'.entries /\ tree'.entries[x].trashed = q.entries[x].trashed
        /\ \A x \in DOMAIN tree'.entries : x \notin DOMAIN q.entries => Made(q, tree', x)
        /\ PlacedFrom(q, tree')
    <3>1. Settled(q, tree')
      BY <1>5, <1>7, Settles
    <3> QED BY <3>1 DEF Settled
  <2>2. TreeInv'
    <3>1. tree.assets \subseteq tree'.assets
      BY <1>4, <1>5, <2>1
    <3> QED BY <1>1, <1>2, <2>1, <3>1, SavedOrNot
  <2>3. v \in EvidenceOf(q, a)
    BY <1>5 DEF EvidenceOf
  <2>4. ASSUME NEW x \in DOMAIN tree'.entries, IsLive(tree', x), ~IsLive(tree, x) PROVE ByGrant(x)
    <3>1. x \notin DOMAIN tree.entries
      BY <1>4, <1>5, <2>1, <2>4 DEF IsLive
    <3>2. Made(q, tree', x)
      BY <1>4, <1>5, <2>1, <3>1
    <3>3. CASE x[3] = a
      <4>1. EvidenceOf(tree', a) = EvidenceOf(q, a)
        BY <2>1, <2>3
      <4>2. VaultOf(x) = v
        BY <2>3, <3>2, <3>3, <4>1 DEF Made
      <4>3. tree'.owner[a] = v /\ a \in tree'.assets \ tree.assets
        BY <1>1, <1>4, <1>5, <2>1
      <4> QED BY <3>2, <3>3, <4>2, <4>3 DEF ByGrant, Made
    <3>4. CASE x[3] # a
      <4>1. <<x[2], x[3]>> \in q.receipts => <<x[2], x[3]>> \in tree.receipts
        BY <1>4, <1>5, <3>4
      <4> QED BY <1>1, <3>1, <3>2, <4>1 DEF ByGrant, Made
    <3> QED BY <3>3, <3>4
  <2>5. Grants
    BY <1>1, <2>4 DEF Grants
  <2>6. Placings
    <3>1. tree'.owner[a] = v
      BY <1>4, <1>5, <2>1
    <3> QED BY <1>1, <1>8, <1>9, <2>1, <3>1, ArrivalPlaces
  <2> QED BY <2>2, <2>5, <2>6 DEF StepGood
<1> QED BY <1>2, <1>6, <1>7

\* Everything the rows say of one asset taken out, and said anew.
Repaired(t, v, a) ==
    [t EXCEPT !.owner[a] = v, !.blobs = {p \in @ : p[2] # a} \cup {<<v, a>>},
              !.receipts = {p \in @ : p[2] # a} \cup (@ \cap {<<v, a>>})]

\* A repair settles one vault for the asset's evidence.
LEMMA RepairedIsSound ==
  ASSUME NEW t, TreeSound(t), NEW v \in TreeVaults, NEW a \in t.assets, NEW u, u = Repaired(t, v, a)
  PROVE  /\ TreeSound(u) /\ u.entries = t.entries /\ u.assets = t.assets
         /\ u.receipts \subseteq t.receipts
         /\ \A b \in TreeAssets : b # a => EvidenceOf(u, b) = EvidenceOf(t, b)
<1>1. t \in TreeType /\ Forest(t.entries) /\ OfAssets(t)
  BY DEF TreeSound
<1> DEFINE blobs == {p \in t.blobs : p[2] # a} \cup {<<v, a>>}
           receipts == {p \in t.receipts : p[2] # a} \cup (t.receipts \cap {<<v, a>>})
<1>2. blobs \in SUBSET (TreeVaults \X TreeAssets) /\ receipts \in SUBSET (TreeVaults \X TreeAssets)
  BY <1>1 DEF TreeType
<1>3. /\ \A b \in blobs : b \in t.blobs \/ b = <<v, a>>
      /\ receipts \subseteq t.receipts
  OBVIOUS
<1>4. u = [t EXCEPT !.owner[a] = v, !.blobs = blobs, !.receipts = receipts]
  BY DEF Repaired
<1>7. \A b, w : b # a => (<<w, b>> \in blobs <=> <<w, b>> \in t.blobs)
                        /\ (<<w, b>> \in receipts <=> <<w, b>> \in t.receipts)
  OBVIOUS
<1> HIDE DEF blobs, receipts
<1>5. /\ u \in TreeType /\ u.entries = t.entries /\ u.assets = t.assets /\ u.blobs = blobs /\ u.receipts = receipts
  <2> DEFINE owner == [t.owner EXCEPT ![a] = v]
  <2>1. t.owner \in [TreeAssets -> TreeVaults \cup {Unowned}]
    BY <1>1 DEF TreeType
  <2>2. owner \in [TreeAssets -> TreeVaults \cup {Unowned}]
    BY <2>1
  <2>3. u = [t EXCEPT !.owner = owner, !.blobs = blobs, !.receipts = receipts]
    BY <1>1, <1>4 DEF TreeType
  <2> HIDE DEF owner
  <2> QED BY <1>1, <1>2, <2>2, <2>3 DEF TreeType
<1>6. OfAssets(u)
  BY <1>1, <1>3, <1>5 DEF OfAssets
<1>8. \A b \in TreeAssets : b # a => EvidenceOf(u, b) = EvidenceOf(t, b)
  BY <1>5, <1>7 DEF EvidenceOf
<1> QED BY <1>1, <1>3, <1>5, <1>6, <1>8 DEF TreeSound

\* A repair of a quarantined asset grants the file of the vault it settles on.
LEMMA RepairsAreGood ==
  ASSUME TreeInv, NEW v \in TreeVaults, NEW a \in TreeAssets, Repair(v, a)
  PROVE  StepGood
<1> DEFINE r == Repaired(tree, v, a)
           e == ensure_file_namespace_defaults(r)
           others == {EntryOf(w, a) : w \in TreeVaults \ {v}} \cap DOMAIN e.entries
           mark == TRUE
           m == Marked(e, others, mark)
           p == Pushed(m, v, a)
           y == EntryOf(v, a)
<1>1. /\ a \in inQuarantine /\ inQuarantine' = inQuarantine \ {a} /\ treeCalls' = treeCalls + 1
      /\ treeRows' = tree'
  BY DEF Repair
<1>2. tree' = p
  BY Zenon DEF Repair, ensure_single_live_asset_entry, Pushed, Repaired
<1>3. ~StartTree /\ Known = tree
  BY <1>1, CallsAreNoRestart DEF Known
<1>4. TreeSound(tree) /\ a \in tree.assets
  BY <1>1 DEF TreeInv
<1>5. TreeSound(r) /\ r.entries = tree.entries /\ r.assets = tree.assets /\ r.receipts \subseteq tree.receipts
  BY <1>4, RepairedIsSound
<1>20. \A b \in TreeAssets : b # a => EvidenceOf(r, b) = EvidenceOf(tree, b)
  BY <1>4, RepairedIsSound
<1> HIDE DEF r
<1>6. /\ TreeSound(e) /\ e.assets = r.assets
      /\ \A x \in DOMAIN r.entries : x \in DOMAIN e.entries /\ e.entries[x].trashed = r.entries[x].trashed
  BY <1>5, EnsureKeeps
<1>7. ASSUME NEW x \in DOMAIN e.entries, x \notin DOMAIN r.entries
      PROVE  /\ ~IsFolder(x) /\ VaultOf(x) = x[2] /\ x[3] \in TreeAssets
             /\ <<x[2], x[3]>> \in r.receipts \/ TreeVaults = {x[2]}
             /\ EvidenceOf(e, x[3]) = {x[2]}
  BY <1>5, <1>7, MadeByEnsure
<1>21. \A b \in TreeAssets : EvidenceOf(e, b) = EvidenceOf(r, b)
  BY <1>5, EnsureKeeps
<1> HIDE DEF e
<1>8. mark /\ mark \in BOOLEAN
  OBVIOUS
<1>9. \A x \in others : ~IsFolder(x) /\ ~IsRoot(x) /\ x[3] = a
  <2>1. a \in TreeAssets
    OBVIOUS
  <2> QED BY <2>1, EntryKinds
<1> HIDE DEF others
<1>10. Markable(e.entries, others, mark)
  <2>1. \A x \in DOMAIN e.entries : e.entries[x].parent \notin others
    <3> SUFFICES ASSUME NEW x \in DOMAIN e.entries, e.entries[x].parent \in others PROVE FALSE
      OBVIOUS
    <3>1. Forest(e.entries)
      BY <1>6 DEF TreeSound
    <3>2. e.entries[x].parent \in DOMAIN e.entries
      BY DEF others
    <3>3. IsFolder(e.entries[x].parent)
      BY <3>1, <3>2, EntryOfForest
    <3> QED BY <1>9, <3>3
  <2> QED BY <1>8, <1>9, <2>1 DEF Markable
<1>11. mark \in BOOLEAN
  BY <1>8
<1> HIDE DEF mark
<1>12. /\ TreeSound(m) /\ DOMAIN m.entries = DOMAIN e.entries
       /\ m.assets = e.assets /\ m.owner = e.owner /\ m.blobs = e.blobs /\ m.receipts = e.receipts
       /\ \A x \in DOMAIN e.entries : /\ x \in others => m.entries[x].trashed = mark
                                      /\ x \notin others => m.entries[x] = e.entries[x]
  BY <1>6, <1>10, <1>11, MarkedKeeps
<1> HIDE DEF m
<1>13. /\ TreeSound(p) /\ DOMAIN p.entries = DOMAIN m.entries \cup {y}
       /\ p.assets = m.assets /\ p.owner = m.owner /\ p.blobs = m.blobs /\ p.receipts = m.receipts
       /\ \A x \in DOMAIN m.entries : x # y => p.entries[x] = m.entries[x]
       /\ ~p.entries[y].trashed
  BY <1>4, <1>5, <1>6, <1>12, PushedIntoRoot
<1> HIDE DEF p
<1>14. TreeInv'
  <2>1. TreeSound(tree') /\ TreeSound(treeRows')
    BY <1>1, <1>2, <1>13
  <2>2. TreeSound(tree)' /\ TreeSound(treeRows)'
    BY <2>1 DEF TreeSound, OfAssets
  <2>3. inQuarantine' \subseteq tree'.assets /\ inQuarantine' \subseteq treeRows'.assets /\ treeCalls' \in Nat
    BY <1>1, <1>2, <1>5, <1>6, <1>12, <1>13 DEF TreeInv
  <2> QED BY <2>2, <2>3 DEF TreeInv
<1>15. \A b \in TreeAssets : b # a => EvidenceOf(p, b) = EvidenceOf(e, b)
  <2> SUFFICES ASSUME NEW b \in TreeAssets, b # a PROVE EvidenceOf(p, b) = EvidenceOf(e, b)
    OBVIOUS
  <2>1. \A w \in TreeVaults : EntryOf(w, b) # y /\ EntryOf(w, b) \notin others
    BY <1>9, EntriesApart, EntryKinds
  <2> HIDE DEF y
  <2>2. \A w \in TreeVaults : EntryOf(w, b) \in DOMAIN p.entries /\ ~p.entries[EntryOf(w, b)].trashed
                          <=> EntryOf(w, b) \in DOMAIN e.entries /\ ~e.entries[EntryOf(w, b)].trashed
    BY <1>12, <1>13, <2>1
  <2> QED BY <1>12, <1>13, <2>2, SameEvidence
<1>16. y[3] = a /\ ~IsFolder(y)
  BY EntryKinds
<1> HIDE DEF y
<1>17. ASSUME NEW x \in DOMAIN tree'.entries, IsLive(tree', x), ~IsLive(tree, x) PROVE ByGrant(x)
  <2>1. CASE x = y
    BY <1>1, <1>16, <2>1 DEF ByGrant
  <2>2. CASE x # y
    <3>1. x \in DOMAIN e.entries /\ p.entries[x] = m.entries[x] /\ ~p.entries[x].trashed
      BY <1>2, <1>12, <1>13, <1>17, <2>2 DEF IsLive
    <3>2. x \notin others
      BY <1>8, <1>12, <3>1
    <3>3. x \notin DOMAIN tree.entries
      BY <1>5, <1>6, <1>12, <1>17, <3>1, <3>2 DEF IsLive
    <3>4. /\ ~IsFolder(x) /\ VaultOf(x) = x[2] /\ x[3] \in TreeAssets
          /\ <<x[2], x[3]>> \in r.receipts \/ TreeVaults = {x[2]}
          /\ EvidenceOf(e, x[3]) = {x[2]}
      BY <1>5, <1>7, <3>1, <3>3
    <3>5. CASE x[3] = a
      BY <1>1, <3>4, <3>5 DEF ByGrant
    <3>6. CASE x[3] # a
      <4>1. EvidenceOf(tree', x[3]) = {x[2]}
        BY <1>2, <1>15, <3>4, <3>6
      <4> QED BY <1>3, <1>5, <3>3, <3>4, <4>1 DEF ByGrant
    <3> QED BY <3>5, <3>6
  <2> QED BY <2>1, <2>2
<1>18. Grants
  BY <1>3, <1>17 DEF Grants
<1>22. Placings
  <2> SUFFICES ASSUME NEW b \in TreeAssets, NEW w \in EvidenceOf(tree', b) PROVE ByAct(b, w)
    BY DEF Placings
  <2>1. CASE b = a
    BY <1>1, <2>1 DEF ByAct
  <2>2. CASE b # a
    <3>1. EvidenceOf(tree', b) = EvidenceOf(tree, b)
      BY <1>2, <1>15, <1>20, <1>21, <2>2
    <3> QED BY <1>3, <3>1 DEF ByAct
  <2> QED BY <2>1, <2>2
<1> QED BY <1>14, <1>18, <1>22 DEF StepGood

\* A restart has the rows as they were saved, and grants nothing they do not vouch for.
LEMMA RestartsAreGood ==
  ASSUME TreeInv, StartTree
  PROVE  StepGood
<1>1. /\ tree' = Prepared(treeRows) /\ treeRows' = tree' /\ treeCalls' = treeCalls
      /\ inQuarantine' = inQuarantine \cup Unplaced(treeRows)
  BY DEF StartTree
<1>2. TreeSound(treeRows) /\ Known = treeRows
  BY DEF TreeInv, Known
<1>3. /\ TreeSound(tree') /\ tree'.assets = treeRows.assets
      /\ \A x \in DOMAIN treeRows.entries : /\ x \in DOMAIN tree'.entries
                                            /\ tree'.entries[x].trashed = treeRows.entries[x].trashed
      /\ \A x \in DOMAIN tree'.entries : x \notin DOMAIN treeRows.entries => Made(treeRows, tree', x)
      /\ PlacedFrom(treeRows, tree')
  <2>1. Settled(treeRows, tree')
    BY <1>1, <1>2, Settles
  <2> QED BY <2>1 DEF Settled
<1>4. TreeInv'
  <2>1. TreeSound(tree') /\ TreeSound(treeRows')
    BY <1>1, <1>3
  <2>2. TreeSound(tree)' /\ TreeSound(treeRows)'
    BY <2>1 DEF TreeSound, OfAssets
  <2>3. inQuarantine' \subseteq tree'.assets /\ inQuarantine' \subseteq treeRows'.assets /\ treeCalls' \in Nat
    BY <1>1, <1>3 DEF TreeInv, Unplaced
  <2> QED BY <2>2, <2>3 DEF TreeInv
<1>5. ASSUME NEW x \in DOMAIN tree'.entries, IsLive(tree', x), ~IsLive(treeRows, x) PROVE ByGrant(x)
  <2>1. x \notin DOMAIN treeRows.entries
    BY <1>3, <1>5 DEF IsLive
  <2>2. Made(treeRows, tree', x)
    BY <1>3, <2>1
  <2> QED BY <1>2, <2>1, <2>2 DEF ByGrant, Made
<1>6. Grants
  BY <1>2, <1>5 DEF Grants
<1>7. Placings
  BY <1>2, <1>3 DEF Placings, ByAct, PlacedFrom
<1> QED BY <1>4, <1>6, <1>7 DEF StepGood

\* Every step keeps the invariant, shows no entry that nothing granted and places no asset by itself.
LEMMA StepsAreGood ==
  ASSUME TreeInv, TreeNext
  PROVE  StepGood
<1>1. CASE file_tree \/ mobile_file_tree
  BY <1>1, TreesShown
<1>2. CASE \E x \in NewFolders, p \in DOMAIN tree.entries, n \in Names : create_file_folder(x, p, n)
  BY <1>2, FoldersAreMade
<1>3. CASE \E x \in DOMAIN tree.entries, n \in Names : rename_file_entry(x, n)
  BY <1>3, RenamesAreGood
<1>4. CASE \E x, p \in DOMAIN tree.entries : move_file_entry(x, p)
  BY <1>4, MovesAreGood
<1>5. CASE \E x \in DOMAIN tree.entries : trash_file_entry(x) \/ restore_file_entry(x)
  BY <1>5, TrashingIsGood, RestoringIsGood
<1>6. CASE \E v \in TreeVaults, a \in TreeAssets : ImportInto(v, a) \/ CompleteUpload(v, a) \/ Repair(v, a)
  BY <1>6, ImportsAreGood, UploadsAreGood, RepairsAreGood
<1>7. CASE StartTree
  BY <1>7, RestartsAreGood
<1> QED BY <1>1, <1>2, <1>3, <1>4, <1>5, <1>6, <1>7 DEF TreeNext

\* An old library is sound, whatever is known of its asset.
LEMMA LegacyIsSound ==
  ASSUME NEW a \in TreeAssets, NEW blobs \in SUBSET TreeVaults, NEW receipts \in SUBSET TreeVaults,
         NEW entries \in SUBSET TreeVaults, NEW rooted \in BOOLEAN,
         NEW t, t = Legacy(a, blobs, receipts, entries, LAMBDA v : IF rooted THEN Root(v) ELSE Top)
  PROVE  TreeSound(t)
<1> DEFINE roots == {Root(v) : v \in TreeVaults}
           files == {EntryOf(v, a) : v \in entries}
           f == [x \in roots \cup files |->
                   IF IsRoot(x) THEN EntryAt(Top, FileName)
                   ELSE EntryAt(IF rooted THEN Root(x[2]) ELSE Top, FileName)]
<1>1. /\ t.assets = {a} /\ t.owner = [b \in TreeAssets |-> Unowned] /\ t.blobs = blobs \X {a}
      /\ t.receipts = receipts \X {a} /\ t.entries = f
      /\ t = [assets |-> {a}, owner |-> [b \in TreeAssets |-> Unowned],
              blobs |-> blobs \X {a}, receipts |-> receipts \X {a}, entries |-> f]
  BY DEF Legacy
<1>2. FileName \in Names
  BY TreeAssumption DEF FileName
<1>3. \A x \in roots : x \in EntryIds /\ IsRoot(x) /\ IsFolder(x)
  BY EntryKinds
<1>4. \A x \in files : /\ x \in EntryIds /\ ~IsRoot(x) /\ ~IsFolder(x) /\ x[3] = a
                       /\ Root(x[2]) \in roots /\ VaultOf(x) = x[2] /\ VaultOf(Root(x[2])) = x[2]
  <2> SUFFICES ASSUME NEW v \in TreeVaults, NEW x, x = EntryOf(v, a)
               PROVE  /\ x \in EntryIds /\ ~IsRoot(x) /\ ~IsFolder(x) /\ x[3] = a
                      /\ Root(x[2]) \in roots /\ VaultOf(x) = x[2] /\ VaultOf(Root(x[2])) = x[2]
    OBVIOUS
  <2>1. /\ x \in EntryIds /\ ~IsRoot(x) /\ ~IsFolder(x) /\ x[3] = a /\ VaultOf(x) = v /\ x[2] = v
    BY EntryKinds
  <2>2. VaultOf(Root(v)) = v
    BY EntryKinds
  <2> QED BY <2>1, <2>2
<1> HIDE DEF files
<1>5. ASSUME NEW p \in EntryIds \cup {Top}
      PROVE  EntryAt(p, FileName) \in Entry /\ EntryAt(p, FileName).parent = p /\ ~EntryAt(p, FileName).trashed
  BY <1>2 DEF EntryAt, Entry
<1>6. /\ \A x \in roots : f[x] = EntryAt(Top, FileName)
      /\ \A x \in files : f[x] = EntryAt(IF rooted THEN Root(x[2]) ELSE Top, FileName)
      /\ DOMAIN f = roots \cup files
  BY <1>3, <1>4
<1>7. \A v \in TreeVaults : Root(v) \in roots
  OBVIOUS
<1>8. f \in EntriesType
  <2>1. f = [x \in roots \cup files |-> f[x]]
    OBVIOUS
  <2> HIDE DEF f, roots
  <2>2. f \in [roots \cup files -> Entry]
    BY <1>3, <1>4, <1>5, <1>6, <2>1
  <2>3. roots \cup files \in SUBSET EntryIds
    BY <1>3, <1>4
  <2> HIDE DEF files
  <2> QED BY <2>2, <2>3 DEF EntriesType
<1> HIDE DEF f, roots
<1>9. /\ \A x \in roots : f[x].parent = Top /\ ~f[x].trashed
      /\ \A x \in files : f[x].parent = (IF rooted THEN Root(x[2]) ELSE Top) /\ ~f[x].trashed
  BY <1>3, <1>4, <1>5, <1>6
<1>10. Linked(f)
  BY <1>3, <1>4, <1>6, <1>9 DEF Linked
<1>11. Ranked(f)
  <2> DEFINE rank == [x \in DOMAIN f |-> IF IsRoot(x) THEN 0 ELSE 1]
  <2>1. rank \in [DOMAIN f -> Nat]
    OBVIOUS
  <2>2. Top \notin DOMAIN f
    BY <1>3, <1>4, <1>6, EntryKinds
  <2>3. Falls(f, rank)
    BY <1>3, <1>4, <1>6, <1>9, <2>2 DEF Falls
  <2> QED BY <2>1, <2>3 DEF Ranked
<1>12. Forest(f)
  BY <1>6, <1>7, <1>8, <1>10, <1>11 DEF Forest
<1>13. OfAssets(t)
  BY <1>1, <1>3, <1>4, <1>6 DEF OfAssets
<1>14. t \in TreeType
  BY <1>1, <1>8 DEF TreeType
<1> QED BY <1>1, <1>12, <1>13, <1>14 DEF TreeSound

\* The rows of an older version, before the first start, satisfy the invariant.
LEMMA TreeStarts ==
  ASSUME TreeInit
  PROVE  TreeInv
<1>1. PICK blobs \in SUBSET TreeVaults, receipts \in SUBSET TreeVaults, entries \in SUBSET TreeVaults,
           rooted \in BOOLEAN :
             treeRows = Legacy(OldAsset, blobs, receipts, entries, LAMBDA v : IF rooted THEN Root(v) ELSE Top)
  BY DEF TreeInit
<1>2. TreeSound(treeRows)
  BY <1>1, TreeAssumption, LegacyIsSound
<1>3. tree = treeRows /\ inQuarantine = {} /\ treeCalls = 0
  BY DEF TreeInit
<1> QED BY <1>2, <1>3 DEF TreeInv

\* The trees in memory and in the database are forests at all times: what a call or a
\* start does to them keeps every entry hanging below a folder of its vault, live when
\* the entry is, and no entry above itself (the handlers of the file tree, service.rs).
THEOREM TreeInvariance == TreeSpec => []TreeInv
<1>1. TreeInit => TreeInv
  BY TreeStarts
<1>2. TreeInv /\ [TreeNext]_treeVars => TreeInv'
  <2> SUFFICES ASSUME TreeInv, [TreeNext]_treeVars PROVE TreeInv'
    OBVIOUS
  <2>1. CASE TreeNext
    BY <2>1, StepsAreGood DEF StepGood
  <2>2. CASE UNCHANGED treeVars
    <3>1. TreeSound(tree') /\ TreeSound(treeRows')
      BY <2>2 DEF treeVars, TreeInv
    <3>2. TreeSound(tree)' /\ TreeSound(treeRows)'
      BY <3>1 DEF TreeSound, OfAssets
    <3> QED BY <2>2, <3>2 DEF treeVars, TreeInv
  <2> QED BY <2>1, <2>2
<1> QED BY <1>1, <1>2, PTL DEF TreeSpec

\* After every step what a client is shown can be reached from the root of its vault
\* through entries that are shown too (move_file_entry, trash_file_entry,
\* restore_file_entry, the defaults), for any vaults, folders and bounds.
THEOREM WhatIsShownHangsTogether == TreeSpec => ShownIsReachable
<1>1. TreeInv' => \A t \in {Prepared(tree')} : \A x \in Shown(t) : ~IsRoot(x) =>
                     /\ t.entries[x].parent \in Shown(t)
                     /\ Root(VaultOf(x)) \in ancestor_file_entry_ids(t.entries, x)
  <2> SUFFICES ASSUME TreeInv', NEW x \in Shown(Prepared(tree')), ~IsRoot(x)
               PROVE  /\ Prepared(tree').entries[x].parent \in Shown(Prepared(tree'))
                      /\ Root(VaultOf(x)) \in ancestor_file_entry_ids(Prepared(tree').entries, x)
    OBVIOUS
  <2>1. TreeSound(tree')
    BY DEF TreeInv, TreeSound, OfAssets
  <2> QED BY <2>1, ShownHangs
<1> QED BY <1>1, TreeInvariance, PTL DEF ShownIsReachable

\* No file comes to life by itself: an act of somebody's stands behind every entry that
\* a step makes live, or an upload or the lack of another vault vouches for its blob row.
THEOREM NothingComesBackByItself == TreeSpec => LiveByGrant
<1>1. TreeInv /\ [TreeNext]_treeVars => [Grants]_treeVars
  BY StepsAreGood DEF StepGood
<1>2. Grants => \A x \in DOMAIN tree'.entries : ~IsRoot(x) /\ IsLive(tree', x) /\ ~IsLive(Known, x) =>
          \/ IsFolder(x) /\ x \notin DOMAIN Known.entries
          \/ ~IsFolder(x) /\ x[3] \in tree'.assets \ tree.assets /\ tree'.owner[x[3]] = VaultOf(x)
          \/ ~IsFolder(x) /\ (<<x[2], x[3]>> \in Known.receipts \/ TreeVaults = {VaultOf(x)})
             /\ x \notin DOMAIN Known.entries /\ EvidenceOf(tree', x[3]) = {VaultOf(x)}
          \/ ~IsFolder(x) /\ x[3] \in inQuarantine \ inQuarantine'
          \/ \E y \in DOMAIN tree.entries : restore_file_entry(y)
  BY DEF Grants, ByGrant
<1> QED BY <1>1, <1>2, TreeInvariance, PTL DEF TreeSpec, LiveByGrant

\* No asset gets into a vault by itself: what a refresh, the defaults, a failed save or a
\* start add to what is known of an asset names its owner where nothing else was known, or
\* the only vault there is (target_vault_for_asset).  An asset that nobody can place, or that
\* two vaults claim, waits for a repair or a restore, for any number of vaults and assets.
THEOREM NothingIsPlacedByItself == TreeSpec => PlacedByAct
<1>1. TreeInv /\ [TreeNext]_treeVars => [Placings]_treeVars
  BY StepsAreGood DEF StepGood
<1>2. Placings => \A a \in TreeAssets, v \in TreeVaults : v \in EvidenceOf(tree', a) \ EvidenceOf(Known, a) =>
          \/ tree'.owner[a] = v /\ EvidenceOf(Known, a) = {}
          \/ a \in inQuarantine \ inQuarantine'
          \/ TreeVaults = {v}
          \/ \E y \in DOMAIN tree.entries : restore_file_entry(y)
  BY DEF Placings, ByAct
<1> QED BY <1>1, <1>2, TreeInvariance, PTL DEF TreeSpec, PlacedByAct

\* The tree shows the library: what is shown can be reached, no file comes to life by itself
\* and no asset is placed by itself.
THEOREM TreeAlwaysShows == TreeSpec => TreeShowsTheLibrary
BY WhatIsShownHangsTogether, NothingComesBackByItself, NothingIsPlacedByItself DEF TreeShowsTheLibrary

-----------------------------------------------------------------------------
(***************************************************************************)
(* Theorems about LibraryViews, for any assets, labels, coordinates, hours *)
(* and readings: the places and events are those of the assets' facts, and *)
(* the titles a user gave outlive every derivation and restart.            *)
(*                                                                         *)
(* The argument. A library is derived when its places are one for each     *)
(* label borne, of the assets that bear it, its events one for each        *)
(* cluster of the assets, their ids apart, and what is hidden is settled   *)
(* (Derived: Base, PlacesTold, EventsTold, HiddenSettled). derive_places   *)
(* and derive_events build their lists item by item (a recursive function  *)
(* has its values one by one, TurnByTurn) and each item takes over the id  *)
(* and the title of what it replaces.  Whatever was saved is the rows of   *)
(* some derived library, not of the one in memory, for saves fail; a start *)
(* that loads it, with all views or with some to derive, has a derived     *)
(* library again.                                                          *)
(***************************************************************************)

\* A set of numbers up to a bound has a greatest one.
LEMMA GreatestOf ==
  ASSUME NEW n \in Nat, NEW T, T \subseteq 1..n, T # {}
  PROVE  \E x \in T : \A y \in T : y <= x
<1> DEFINE S == {n - y : y \in T}
<1>1. S \subseteq Nat /\ S # {}
  <2>1. \A y \in T : y \in 1..n
    OBVIOUS
  <2>2. \A y \in 1..n : n - y \in Nat
    OBVIOUS
  <2> QED BY <2>1, <2>2
<1>2. PICK m \in S : \A k \in S : m <= k
  <2> HIDE DEF S
  <2> QED BY <1>1, LeastOf
<1>3. PICK x \in T : m = n - x
  OBVIOUS
<1>4. ASSUME NEW y \in T PROVE y <= x
  <2>1. n - x <= n - y
    BY <1>2, <1>3
  <2>2. x \in Nat /\ y \in Nat
    OBVIOUS
  <2> HIDE DEF S
  <2> QED BY <2>1, <2>2
<1> QED BY <1>4

\* There is always an id that is not taken.
LEMMA FreshIsNew ==
  ASSUME NEW taken, IsFiniteSet(taken)
  PROVE  Fresh(taken) \in Nat /\ Fresh(taken) \notin taken
<1> DEFINE n == Cardinality(taken)
<1>1. n \in Nat
  BY FS_CardinalityType
<1>2. \E i \in 1..n + 1 : i \notin taken
  <2> SUFFICES ASSUME 1..n + 1 \subseteq taken PROVE FALSE
    OBVIOUS
  <2>1. n + 1 \in Nat /\ Cardinality(1..n + 1) = n + 1
    BY <1>1, NumbersAreFinite
  <2>2. Cardinality(1..n + 1) <= n
    BY FS_Subset
  <2> HIDE DEF n
  <2> QED BY <1>1, <2>1, <2>2
<1>3. Fresh(taken) \in 1..n + 1 /\ Fresh(taken) \notin taken
  BY <1>2 DEF Fresh
<1> HIDE DEF n
<1> QED BY <1>1, <1>3

\* The ids of a list of views.
LEMMA IdsAreFinite ==
  ASSUME NEW S, NEW views \in Seq(S)
  PROVE  IsFiniteSet(Ids(views)) /\ IsFiniteSet(Range(views)) /\ Ids(views) = {p.id : p \in Range(views)}
<1>1. Len(views) \in Nat /\ DOMAIN views = 1..Len(views)
  OBVIOUS
<1>2. IsFiniteSet(DOMAIN views)
  BY <1>1, NumbersAreFinite
<1>3. IsFiniteSet(Ids(views))
  <2> DEFINE pick == [i \in DOMAIN views |-> views[i].id]
  <2>1. pick \in Surjection(DOMAIN views, Ids(views))
    BY DEF Surjection, Ids
  <2> QED BY <1>2, <2>1, FS_Surjection
<1>4. IsFiniteSet(Range(views))
  <2>1. views \in Surjection(DOMAIN views, Range(views))
    <3>1. views = [i \in DOMAIN views |-> views[i]]
      OBVIOUS
    <3> QED BY <3>1 DEF Surjection, Range
  <2> QED BY <1>2, <2>1, FS_Surjection
<1>5. Ids(views) = {p.id : p \in Range(views)}
  BY DEF Ids, Range
<1> QED BY <1>3, <1>4, <1>5

\* One view more.
LEMMA OneViewMore ==
  ASSUME NEW S, NEW views \in Seq(S), NEW e \in S
  PROVE  /\ Append(views, e) \in Seq(S) /\ Range(Append(views, e)) = Range(views) \cup {e}
         /\ KeysHold(views) /\ e.id \notin Ids(views) => KeysHold(Append(views, e))
         /\ Ids(Append(views, e)) = Ids(views) \cup {e.id}
<1> DEFINE more == Append(views, e)
           n == Len(views)
<1>1. n \in Nat /\ DOMAIN views = 1..n /\ DOMAIN more = 1..n + 1 /\ more \in Seq(S)
  OBVIOUS
<1>2. more[n + 1] = e /\ \A i \in 1..n : more[i] = views[i]
  OBVIOUS
<1> HIDE DEF more, n
<1>3. \A i \in 1..n + 1 : i \in 1..n \/ i = n + 1
  BY <1>1
<1>4. 1..n \subseteq 1..n + 1 /\ n + 1 \in 1..n + 1 /\ n + 1 \notin 1..n
  BY <1>1
<1>5. Range(more) = Range(views) \cup {e}
  BY <1>1, <1>2, <1>3, <1>4 DEF Range
<1>6. KeysHold(views) /\ e.id \notin Ids(views) => KeysHold(more)
  BY <1>1, <1>2, <1>3, <1>4 DEF KeysHold, Ids
<1>7. Ids(more) = Ids(views) \cup {e.id}
  BY <1>1, <1>2, <1>3, <1>4 DEF Ids
<1> QED BY <1>1, <1>5, <1>6, <1>7 DEF more

-----------------------------------------------------------------------------
PlaceType == [id : Nat, label : Labels, assets : SUBSET Assets, pins : SUBSET Coords]
EventType == [id : Nat, assets : Seq(Assets), titled : BOOLEAN, place : Nat, people : SUBSET Nat]
PersonType == [id : Nat, assets : SUBSET Assets, hidden : BOOLEAN]
GeoType == [at : Coords \cup {Unknown}, hidden : BOOLEAN]
LibType ==
    [assets : SUBSET Assets, hour : [Assets -> Nat], hint : [Assets -> Labels \cup {Unknown}],
     geo : [Assets -> GeoType], places : Seq(PlaceType), events : Seq(EventType), people : SUBSET PersonType]

NoGeo == [at |-> Unknown, hidden |-> FALSE]

\* The events consist of different assets.
Apart(events) == \A i, j \in DOMAIN events : Range(events[i].assets) = Range(events[j].assets) => i = j

\* What every library has that a derivation starts from.
Base(l) ==
    /\ l \in LibType /\ IsFiniteSet(l.people)
    /\ KeysHold(l.places) /\ KeysHold(l.events) /\ Apart(l.events)
    /\ \A a \in Assets : /\ a \notin l.assets => l.hour[a] = 0 /\ l.hint[a] = Unknown /\ l.geo[a] = NoGeo
                         /\ l.geo[a].hidden => l.geo[a].at # Unknown

PinsOf(l, assets) == {l.geo[a].at : a \in {b \in assets : visible(l.geo[b])}}
PlaceFits(l, p) == p.assets = Here(l, p.label) /\ p.assets # {} /\ p.pins = PinsOf(l, p.assets)
OneLabelEach(places) == \A i, j \in DOMAIN places : places[i].label = places[j].label => i = j

\* There is one place for every label that an asset bears, of the assets that bear it.
PlacesTold(l, places) ==
    /\ \A p \in Range(places) : PlaceFits(l, p)
    /\ \A label \in Labels : Here(l, label) # {} => \E p \in Range(places) : p.label = label
    /\ OneLabelEach(places)

\* The id that a label keeps.
LEMMA KeptIds ==
  ASSUME NEW places \in Seq(PlaceType)
  PROVE  /\ \A label : \A k \in KnownAs(label, places) :
               k \in Nat /\ KnownAs(label, places) = {k} /\ \E p \in Range(places) : p.label = label /\ p.id = k
         /\ \A p \in Range(places) : KnownAs(p.label, places) # {}
         /\ OneLabelEach(places) => \A p \in Range(places) : KnownAs(p.label, places) = {p.id}
         /\ KeysHold(places) => \A x, y : x # y => KnownAs(x, places) \cap KnownAs(y, places) = {}
<1> DEFINE n == Len(places)
<1>1. n \in Nat /\ DOMAIN places = 1..n /\ \A i \in 1..n : places[i] \in PlaceType
  OBVIOUS
<1> HIDE DEF n
<1>2. \A i \in 1..n : places[i].id \in Nat
  BY <1>1 DEF PlaceType
<1>3. ASSUME NEW label, \E i \in DOMAIN places : places[i].label = label
      PROVE  \E i \in DOMAIN places : places[i].label = label /\ KnownAs(label, places) = {places[i].id}
  <2> DEFINE had == {i \in DOMAIN places : places[i].label = label}
             last == CHOOSE i \in had : \A j \in had : j <= i
  <2>1. had \subseteq 1..n /\ had # {}
    BY <1>1, <1>3
  <2>2. KnownAs(label, places) = {places[last].id}
    BY <1>3 DEF KnownAs
  <2> HIDE DEF had
  <2>3. last \in had
    BY <1>1, <2>1, GreatestOf
  <2> HIDE DEF last
  <2> QED BY <2>2, <2>3 DEF had
<1>4. ASSUME NEW label, ~\E i \in DOMAIN places : places[i].label = label
      PROVE  KnownAs(label, places) = {}
  BY <1>4 DEF KnownAs
<1>5. ASSUME NEW label, NEW k \in KnownAs(label, places)
      PROVE  k \in Nat /\ KnownAs(label, places) = {k} /\ \E i \in DOMAIN places : places[i].label = label /\ places[i].id = k
  <2>1. \E i \in DOMAIN places : places[i].label = label
    BY <1>4, <1>5
  <2>2. PICK i \in DOMAIN places : places[i].label = label /\ KnownAs(label, places) = {places[i].id}
    BY <1>3, <2>1
  <2>3. k = places[i].id
    BY <1>5, <2>2
  <2> QED BY <1>1, <1>2, <2>2, <2>3
<1>6. \A label : \A k \in KnownAs(label, places) :
          k \in Nat /\ KnownAs(label, places) = {k} /\ \E p \in Range(places) : p.label = label /\ p.id = k
  <2> SUFFICES ASSUME NEW label, NEW k \in KnownAs(label, places)
               PROVE  k \in Nat /\ KnownAs(label, places) = {k} /\ \E p \in Range(places) : p.label = label /\ p.id = k
    OBVIOUS
  <2>1. k \in Nat /\ KnownAs(label, places) = {k} /\ \E i \in DOMAIN places : places[i].label = label /\ places[i].id = k
    BY <1>5
  <2> QED BY <2>1 DEF Range
<1>7. ASSUME NEW p \in Range(places)
      PROVE  /\ KnownAs(p.label, places) # {}
             /\ OneLabelEach(places) => KnownAs(p.label, places) = {p.id}
  <2>1. PICK i \in DOMAIN places : places[i] = p
    BY DEF Range
  <2>2. PICK j \in DOMAIN places : places[j].label = p.label /\ KnownAs(p.label, places) = {places[j].id}
    BY <1>3, <2>1
  <2> QED BY <2>1, <2>2 DEF OneLabelEach
<1>8. KeysHold(places) => \A x, y : x # y => KnownAs(x, places) \cap KnownAs(y, places) = {}
  <2> SUFFICES ASSUME KeysHold(places), NEW x, NEW y, x # y, NEW k \in KnownAs(x, places), k \in KnownAs(y, places)
               PROVE  FALSE
    OBVIOUS
  <2>1. /\ \E i \in DOMAIN places : places[i].label = x /\ places[i].id = k
        /\ \E i \in DOMAIN places : places[i].label = y /\ places[i].id = k
    BY <1>5
  <2> QED BY <2>1 DEF KeysHold
<1> QED BY <1>6, <1>7, <1>8

-----------------------------------------------------------------------------
(***************************************************************************)
(* The places, label by label.                                             *)
(***************************************************************************)
OnePlaceMore(l, taken, label, out) ==
    IF Here(l, label) = {} THEN out ELSE Append(out, PlaceOf(label, l, taken, out))

IsPlacing(out, l, taken, N) ==
    out = [label \in 0..N |-> IF label = 0 THEN <<>>
                              ELSE IF Here(l, label) = {} THEN out[label - 1]
                              ELSE Append(out[label - 1], PlaceOf(label, l, taken, out[label - 1]))]

\* However many labels there are, they can be gone through.
LEMMA CanPlace ==
  ASSUME NEW l, NEW taken, NEW N \in Nat
  PROVE  \E out : IsPlacing(out, l, taken, N)
<1> DEFINE T == {n \in Nat : \E out : IsPlacing(out, l, taken, n)}
<1>1. 0 \in T
  <2>1. IsPlacing([k \in 0..0 |-> <<>>], l, taken, 0)
    BY DEF IsPlacing
  <2> QED BY <2>1
<1>2. ASSUME NEW n \in Nat, n \in T PROVE n + 1 \in T
  <2>1. PICK out : IsPlacing(out, l, taken, n)
    BY <1>2
  <2> DEFINE more == [k \in 0..n + 1 |-> IF k = n + 1 THEN OnePlaceMore(l, taken, n + 1, out[n]) ELSE out[k]]
  <2>2. \A k \in 0..n : out[k] = IF k = 0 THEN <<>> ELSE OnePlaceMore(l, taken, k, out[k - 1])
    BY <2>1 DEF IsPlacing, OnePlaceMore
  <2>3. ASSUME NEW k \in 0..n + 1
        PROVE  more[k] = IF k = 0 THEN <<>> ELSE OnePlaceMore(l, taken, k, more[k - 1])
    <3>1. CASE k = n + 1
      BY <3>1
    <3>2. CASE k # n + 1
      <4>1. k \in 0..n /\ (k # 0 => k - 1 \in 0..n)
        BY <3>2
      <4>2. more[k] = out[k] /\ (k # 0 => more[k - 1] = out[k - 1])
        BY <3>2, <4>1
      <4>3. out[k] = IF k = 0 THEN <<>> ELSE OnePlaceMore(l, taken, k, out[k - 1])
        BY <2>2, <4>1
      <4> HIDE DEF more
      <4> QED BY <4>2, <4>3
    <3> QED BY <3>1, <3>2
  <2>4. more = [k \in 0..n + 1 |-> more[k]]
    OBVIOUS
  <2> HIDE DEF more
  <2>5. IsPlacing(more, l, taken, n + 1)
    <3> DEFINE loop == [k \in 0..n + 1 |-> IF k = 0 THEN <<>> ELSE OnePlaceMore(l, taken, k, more[k - 1])]
    <3>1. more = loop
      BY <2>3, <2>4
    <3> QED BY <3>1 DEF IsPlacing, OnePlaceMore
  <2>6. \E g : IsPlacing(g, l, taken, n + 1)
    BY <2>5
  <2> QED BY <2>6
<1> HIDE DEF T
<1>3. N \in T
  BY <1>1, <1>2, TurnByTurn
<1> QED BY <1>3 DEF T

\* derive_places goes through the labels in their order.
LEMMA PlacesByTurns ==
  ASSUME NEW l, NEW taken, Cardinality(Labels) \in Nat
  PROVE  \E out : /\ out[0] = <<>>
                  /\ \A n \in Nat : n < Cardinality(Labels) => out[n + 1] = OnePlaceMore(l, taken, n + 1, out[n])
                  /\ derive_places(l, taken) = out[Cardinality(Labels)]
<1> DEFINE N == Cardinality(Labels)
           out == CHOOSE out : out = [label \in 0..N |->
                      IF label = 0 THEN <<>> ELSE IF Here(l, label) = {} THEN out[label - 1]
                      ELSE Append(out[label - 1], PlaceOf(label, l, taken, out[label - 1]))]
<1>1. out = [label \in 0..N |-> IF label = 0 THEN <<>> ELSE IF Here(l, label) = {} THEN out[label - 1]
                                ELSE Append(out[label - 1], PlaceOf(label, l, taken, out[label - 1]))]
  <2> HIDE DEF N
  <2>1. N \in Nat
    BY DEF N
  <2>2. \E g : IsPlacing(g, l, taken, N)
    BY <2>1, CanPlace
  <2>3. \E g : g = [label \in 0..N |-> IF label = 0 THEN <<>> ELSE IF Here(l, label) = {} THEN g[label - 1]
                                       ELSE Append(g[label - 1], PlaceOf(label, l, taken, g[label - 1]))]
    BY <2>2, Zenon DEF IsPlacing
  <2> QED BY <2>3, Zenon
<1>2. derive_places(l, taken) = out[N]
  BY DEF derive_places
<1> HIDE DEF out, N
<1>3. N \in Nat
  BY DEF N
<1>4. \A k \in 0..N : out[k] = IF k = 0 THEN <<>> ELSE OnePlaceMore(l, taken, k, out[k - 1])
  BY <1>1 DEF OnePlaceMore
<1>5. out[0] = <<>>
  BY <1>3, <1>4
<1>6. \A n \in Nat : n < N => out[n + 1] = OnePlaceMore(l, taken, n + 1, out[n])
  <2> SUFFICES ASSUME NEW n \in Nat, n < N PROVE out[n + 1] = OnePlaceMore(l, taken, n + 1, out[n])
    OBVIOUS
  <2>1. n + 1 \in 0..N /\ n + 1 # 0 /\ (n + 1) - 1 = n
    BY <1>3
  <2> QED BY <1>4, <2>1
<1> QED BY <1>2, <1>5, <1>6 DEF N

\* A label that had a place keeps its id, and a new place has a new one.
IdKept(p, old) == \/ KnownAs(p.label, old) = {p.id}
                  \/ KnownAs(p.label, old) = {} /\ p.id \notin Ids(old)
IdsKept(places, old) == \A p \in Range(places) : IdKept(p, old)

\* What is known after the labels up to the n-th.
PlacesUpTo(n, l, places) ==
    /\ places \in Seq(PlaceType) /\ KeysHold(places) /\ OneLabelEach(places)
    /\ \A p \in Range(places) : PlaceFits(l, p) /\ p.label <= n
    /\ \A label \in Labels : label <= n /\ Here(l, label) # {} => \E p \in Range(places) : p.label = label
    /\ IdsKept(places, l.places)

NotYet(label, places) == \A p \in Range(places) : p.label # label

\* The place of a label.
LEMMA PlaceOfFits ==
  ASSUME NEW l, l \in LibType, ViewsAssumption, KeysHold(l.places), NEW taken, IsFiniteSet(taken),
         NEW out \in Seq(PlaceType), NEW label \in Labels, Here(l, label) # {}, IdsKept(out, l.places),
         NotYet(label, out), NEW p, p = PlaceOf(label, l, taken, out)
  PROVE  /\ p \in PlaceType /\ p.label = label /\ PlaceFits(l, p) /\ p.id \notin Ids(out)
         /\ IdKept(p, l.places)
<1> DEFINE known == KnownAs(label, l.places)
           others == taken \cup Ids(l.places) \cup Ids(out)
<1>1. /\ p.id = (IF known # {} THEN CHOOSE i \in known : TRUE ELSE Fresh(others))
      /\ p.label = label /\ p.assets = Here(l, label) /\ p.pins = PinsOf(l, Here(l, label))
      /\ p = [id |-> p.id, label |-> p.label, assets |-> p.assets, pins |-> p.pins]
  BY DEF PlaceOf, PinsOf
<1>2. l.places \in Seq(PlaceType) /\ l.geo \in [Assets -> GeoType] /\ l.assets \subseteq Assets
  BY DEF LibType
<1>3. PlaceFits(l, p)
  BY <1>1 DEF PlaceFits
<1>4. p.assets \subseteq Assets /\ p.pins \subseteq Coords
  <2>1. p.assets \subseteq Assets
    BY <1>1, <1>2 DEF Here
  <2>2. \A a \in Assets : visible(l.geo[a]) => l.geo[a].at \in Coords
    BY <1>2 DEF visible, GeoType, Unknown
  <2> QED BY <1>1, <2>1, <2>2 DEF PinsOf
<1>5. CASE known # {}
  <2>1. PICK k \in known : p.id = k
    BY <1>1, <1>5
  <2>2. k \in Nat /\ known = {k} /\ \E q \in Range(l.places) : q.label = label /\ q.id = k
    BY <1>2, <2>1, KeptIds
  <2>3. p.id \notin Ids(out)
    <3> SUFFICES ASSUME p.id \in Ids(out) PROVE FALSE
      OBVIOUS
    <3>1. PICK q \in Range(out) : q.id = k
      BY <2>1, IdsAreFinite
    <3>2. q.label # label
      BY <3>1 DEF NotYet
    <3>3. CASE KnownAs(q.label, l.places) = {q.id}
      BY <1>2, <2>2, <3>1, <3>2, <3>3, KeptIds
    <3>4. CASE KnownAs(q.label, l.places) = {} /\ q.id \notin Ids(l.places)
      BY <1>2, <2>2, <3>1, <3>4, IdsAreFinite
    <3> QED BY <3>1, <3>3, <3>4 DEF IdsKept, IdKept
  <2> QED BY <1>1, <1>3, <1>4, <2>1, <2>2, <2>3 DEF PlaceType, IdKept
<1>6. CASE known = {}
  <2>1. IsFiniteSet(Ids(l.places)) /\ IsFiniteSet(Ids(out))
    BY <1>2, IdsAreFinite
  <2>2. IsFiniteSet(others)
    BY <2>1, FS_Union
  <2>3. Fresh(others) \in Nat /\ Fresh(others) \notin others
    BY <2>2, FreshIsNew
  <2>4. p.id = Fresh(others)
    BY <1>1, <1>6
  <2>5. p.id \in Nat /\ p.id \notin Ids(out) /\ p.id \notin Ids(l.places)
    BY <2>3, <2>4
  <2> QED BY <1>1, <1>3, <1>4, <1>6, <2>5 DEF PlaceType, IdKept
<1> QED BY <1>5, <1>6

\* The places of the labels up to one more.
LEMMA PlacesUpToOneMore ==
  ASSUME NEW l, l \in LibType, ViewsAssumption, KeysHold(l.places), NEW taken, IsFiniteSet(taken),
         NEW n \in Nat, n < Cardinality(Labels), NEW out, PlacesUpTo(n, l, out)
  PROVE  PlacesUpTo(n + 1, l, OnePlaceMore(l, taken, n + 1, out))
<1>1. Cardinality(Labels) \in Nat /\ Labels = 1..Cardinality(Labels)
  BY FS_CardinalityType DEF ViewsAssumption
<1>2. n + 1 \in Labels /\ \A label \in Labels : label <= n + 1 => label <= n \/ label = n + 1
  BY <1>1
<1>3. out \in Seq(PlaceType) /\ \A p \in Range(out) : p.label \in Labels /\ p.label <= n /\ p.label <= n + 1 /\ p.label # n + 1
  <2>1. out \in Seq(PlaceType) /\ \A p \in Range(out) : p.label <= n
    BY DEF PlacesUpTo
  <2>2. \A p \in Range(out) : p.label \in Labels
    <3>1. \A i \in DOMAIN out : out[i] \in PlaceType
      BY <2>1
    <3> QED BY <3>1 DEF Range, PlaceType
  <2>3. \A x \in Labels : x <= n => x <= n + 1 /\ x # n + 1
    BY <1>1
  <2> QED BY <2>1, <2>2, <2>3
<1>4. CASE Here(l, n + 1) = {}
  <2>1. OnePlaceMore(l, taken, n + 1, out) = out
    BY <1>4 DEF OnePlaceMore
  <2> QED BY <1>2, <1>3, <1>4, <2>1 DEF PlacesUpTo
<1>5. CASE Here(l, n + 1) # {}
  <2> DEFINE p == PlaceOf(n + 1, l, taken, out)
             more == Append(out, p)
  <2>1. OnePlaceMore(l, taken, n + 1, out) = more
    BY <1>5 DEF OnePlaceMore
  <2>2. IdsKept(out, l.places)
    BY DEF PlacesUpTo
  <2>3. /\ p \in PlaceType /\ p.label = n + 1 /\ PlaceFits(l, p) /\ p.id \notin Ids(out)
        /\ IdKept(p, l.places)
    <3>1. NotYet(n + 1, out)
      BY <1>3 DEF NotYet
    <3>2. n + 1 \in Labels /\ out \in Seq(PlaceType)
      BY <1>2, <1>3
    <3> QED BY <1>5, <2>2, <3>1, <3>2, PlaceOfFits
  <2> HIDE DEF p
  <2>4. /\ more \in Seq(PlaceType) /\ Range(more) = Range(out) \cup {p}
        /\ KeysHold(out) /\ p.id \notin Ids(out) => KeysHold(more)
    BY <1>3, <2>3, OneViewMore
  <2>5. KeysHold(more)
    BY <2>3, <2>4 DEF PlacesUpTo
  <2>6. OneLabelEach(more)
    <3>1. OneLabelEach(out)
      BY DEF PlacesUpTo
    <3>2. /\ DOMAIN more = 1..Len(out) + 1 /\ more[Len(out) + 1] = p /\ DOMAIN out = 1..Len(out)
          /\ \A i \in 1..Len(out) : more[i] = out[i] /\ out[i] \in Range(out)
      BY <1>3, <2>3 DEF Range
    <3>3. \A i \in 1..Len(out) + 1 : i \in 1..Len(out) \/ i = Len(out) + 1
      BY <1>3
    <3> HIDE DEF more
    <3> QED BY <1>3, <2>3, <3>1, <3>2, <3>3 DEF OneLabelEach
  <2> HIDE DEF more
  <2>7. \A q \in Range(more) : PlaceFits(l, q) /\ q.label <= n + 1
    BY <1>3, <2>3, <2>4 DEF PlacesUpTo
  <2>8. \A label \in Labels : label <= n + 1 /\ Here(l, label) # {} => \E q \in Range(more) : q.label = label
    BY <1>2, <2>3, <2>4 DEF PlacesUpTo
  <2>9. IdsKept(more, l.places)
    BY <2>2, <2>3, <2>4 DEF IdsKept
  <2> QED BY <2>1, <2>4, <2>5, <2>6, <2>7, <2>8, <2>9 DEF PlacesUpTo
<1> QED BY <1>4, <1>5

\* The places that derive_places makes.
LEMMA DerivedPlaces ==
  ASSUME NEW l, l \in LibType, ViewsAssumption, KeysHold(l.places), NEW taken, IsFiniteSet(taken),
         NEW places, places = derive_places(l, taken)
  PROVE  /\ places \in Seq(PlaceType) /\ KeysHold(places) /\ PlacesTold(l, places)
         /\ IdsKept(places, l.places)
<1> DEFINE N == Cardinality(Labels)
<1>1. N \in Nat /\ Labels = 1..N
  BY FS_CardinalityType DEF ViewsAssumption
<1>2. PICK out : /\ out[0] = <<>>
                 /\ \A n \in Nat : n < N => out[n + 1] = OnePlaceMore(l, taken, n + 1, out[n])
                 /\ places = out[N]
  BY <1>1, PlacesByTurns
<1> HIDE DEF N
<1> DEFINE T == {n \in Nat : n <= N => PlacesUpTo(n, l, out[n])}
<1>3. 0 \in T
  <2>1. \A label \in Labels : ~(label <= 0)
    BY <1>1
  <2>2. Range(<<>>) = {} /\ <<>> \in Seq(PlaceType) /\ KeysHold(<<>>) /\ OneLabelEach(<<>>)
    BY DEF Range, KeysHold, OneLabelEach
  <2>3. PlacesUpTo(0, l, <<>>)
    BY <2>1, <2>2 DEF PlacesUpTo, IdsKept
  <2> QED BY <1>2, <2>3
<1>4. ASSUME NEW n \in Nat, n \in T PROVE n + 1 \in T
  <2> SUFFICES ASSUME n + 1 <= N PROVE PlacesUpTo(n + 1, l, out[n + 1])
    OBVIOUS
  <2>1. n < N /\ n <= N
    BY <1>1
  <2>2. PlacesUpTo(n, l, out[n]) /\ out[n + 1] = OnePlaceMore(l, taken, n + 1, out[n])
    BY <1>2, <1>4, <2>1
  <2> QED BY <2>1, <2>2, PlacesUpToOneMore DEF N
<1> HIDE DEF T
<1>5. N \in T
  BY <1>1, <1>3, <1>4, TurnByTurn
<1>6. PlacesUpTo(N, l, places)
  BY <1>1, <1>2, <1>5 DEF T
<1>7. \A label \in Labels : label <= N
  BY <1>1
<1> QED BY <1>6, <1>7 DEF PlacesUpTo, PlacesTold

\* Places told of one library whose ids the others had are the same places.
LEMMA SamePlaces ==
  ASSUME NEW l, NEW places \in Seq(PlaceType), NEW old \in Seq(PlaceType),
         PlacesTold(l, places), PlacesTold(l, old), IdsKept(places, old)
  PROVE  Range(places) = Range(old)
<1>1. \A p \in Range(places) : p \in PlaceType
  <2>1. \A i \in DOMAIN places : places[i] \in PlaceType
    OBVIOUS
  <2> QED BY <2>1 DEF Range
<1>2. \A p \in Range(old) : p \in PlaceType
  <2>1. \A i \in DOMAIN old : old[i] \in PlaceType
    OBVIOUS
  <2> QED BY <2>1 DEF Range
<1>3. ASSUME NEW p \in Range(places), NEW q \in Range(old), p.label = q.label PROVE p = q
  <2>1. OneLabelEach(old)
    BY DEF PlacesTold
  <2>2. KnownAs(q.label, old) = {q.id}
    BY <2>1, KeptIds
  <2>3. p.id = q.id
    BY <1>3, <2>2 DEF IdsKept, IdKept
  <2>4. p.assets = q.assets /\ p.pins = q.pins
    BY <1>3 DEF PlacesTold, PlaceFits
  <2>5. p \in PlaceType /\ q \in PlaceType
    BY <1>1, <1>2
  <2> QED BY <1>3, <2>3, <2>4, <2>5 DEF PlaceType
<1>4. ASSUME NEW p \in Range(places) PROVE p \in Range(old)
  <2>1. p.label \in Labels /\ Here(l, p.label) # {}
    BY <1>1 DEF PlacesTold, PlaceFits, PlaceType
  <2>2. PICK q \in Range(old) : q.label = p.label
    BY <2>1 DEF PlacesTold
  <2> QED BY <1>3, <2>2
<1>5. ASSUME NEW q \in Range(old) PROVE q \in Range(places)
  <2>1. q.label \in Labels /\ Here(l, q.label) # {}
    BY <1>2 DEF PlacesTold, PlaceFits, PlaceType
  <2>2. PICK p \in Range(places) : p.label = q.label
    BY <2>1 DEF PlacesTold
  <2> QED BY <1>3, <2>2
<1> QED BY <1>4, <1>5

-----------------------------------------------------------------------------
(***************************************************************************)
(* The clusters of assets, asset by asset.                                 *)
(***************************************************************************)
IsGathering(out, l, sorted, N) ==
    out = [n \in 0..N |-> IF n = 0 THEN <<>> ELSE Gathered(l, out[n - 1], sorted[n])]

\* However many assets there are, they can be gone through.
LEMMA CanGather ==
  ASSUME NEW l, NEW sorted, NEW N \in Nat
  PROVE  \E out : IsGathering(out, l, sorted, N)
<1> DEFINE T == {n \in Nat : \E out : IsGathering(out, l, sorted, n)}
<1>1. 0 \in T
  <2>1. IsGathering([k \in 0..0 |-> <<>>], l, sorted, 0)
    BY DEF IsGathering
  <2> QED BY <2>1
<1>2. ASSUME NEW n \in Nat, n \in T PROVE n + 1 \in T
  <2>1. PICK out : IsGathering(out, l, sorted, n)
    BY <1>2
  <2> DEFINE more == [k \in 0..n + 1 |-> IF k = n + 1 THEN Gathered(l, out[n], sorted[n + 1]) ELSE out[k]]
  <2>2. \A k \in 0..n : out[k] = IF k = 0 THEN <<>> ELSE Gathered(l, out[k - 1], sorted[k])
    BY <2>1 DEF IsGathering
  <2>3. ASSUME NEW k \in 0..n + 1
        PROVE  more[k] = IF k = 0 THEN <<>> ELSE Gathered(l, more[k - 1], sorted[k])
    <3>1. CASE k = n + 1
      BY <3>1
    <3>2. CASE k # n + 1
      <4>1. k \in 0..n /\ (k # 0 => k - 1 \in 0..n)
        BY <3>2
      <4>2. more[k] = out[k] /\ (k # 0 => more[k - 1] = out[k - 1])
        BY <3>2, <4>1
      <4>3. out[k] = IF k = 0 THEN <<>> ELSE Gathered(l, out[k - 1], sorted[k])
        BY <2>2, <4>1
      <4> HIDE DEF more
      <4> QED BY <4>2, <4>3
    <3> QED BY <3>1, <3>2
  <2>4. more = [k \in 0..n + 1 |-> more[k]]
    OBVIOUS
  <2> HIDE DEF more
  <2>5. IsGathering(more, l, sorted, n + 1)
    <3> DEFINE loop == [k \in 0..n + 1 |-> IF k = 0 THEN <<>> ELSE Gathered(l, more[k - 1], sorted[k])]
    <3>1. more = loop
      BY <2>3, <2>4
    <3> QED BY <3>1 DEF IsGathering
  <2>6. \E g : IsGathering(g, l, sorted, n + 1)
    BY <2>5
  <2> QED BY <2>6
<1> HIDE DEF T
<1>3. N \in T
  BY <1>1, <1>2, TurnByTurn
<1> QED BY <1>3 DEF T

\* cluster_assets goes through the assets in the order they were taken.
LEMMA ClustersByTurns ==
  ASSUME NEW l, Cardinality(l.assets) \in Nat
  PROVE  \E out : /\ out[0] = <<>>
                  /\ \A n \in Nat : n < Cardinality(l.assets) => out[n + 1] = Gathered(l, out[n], ByTime(l)[n + 1])
                  /\ cluster_assets(l) = out[Cardinality(l.assets)]
<1> DEFINE N == Cardinality(l.assets)
           sorted == ByTime(l)
           out == CHOOSE out : out = [n \in 0..N |-> IF n = 0 THEN <<>> ELSE Gathered(l, out[n - 1], sorted[n])]
<1>1. out = [n \in 0..N |-> IF n = 0 THEN <<>> ELSE Gathered(l, out[n - 1], sorted[n])]
  <2> HIDE DEF N, sorted
  <2>1. N \in Nat
    BY DEF N
  <2>2. \E g : IsGathering(g, l, sorted, N)
    BY <2>1, CanGather
  <2>3. \E g : g = [n \in 0..N |-> IF n = 0 THEN <<>> ELSE Gathered(l, g[n - 1], sorted[n])]
    BY <2>2, Zenon DEF IsGathering
  <2> QED BY <2>3, Zenon
<1>2. cluster_assets(l) = out[N]
  BY DEF cluster_assets
<1> HIDE DEF out, N, sorted
<1>3. N \in Nat
  BY DEF N
<1>4. \A k \in 0..N : out[k] = IF k = 0 THEN <<>> ELSE Gathered(l, out[k - 1], sorted[k])
  BY <1>1
<1>5. out[0] = <<>>
  BY <1>3, <1>4
<1>6. \A n \in Nat : n < N => out[n + 1] = Gathered(l, out[n], sorted[n + 1])
  <2> SUFFICES ASSUME NEW n \in Nat, n < N PROVE out[n + 1] = Gathered(l, out[n], sorted[n + 1])
    OBVIOUS
  <2>1. n + 1 \in 0..N /\ n + 1 # 0 /\ (n + 1) - 1 = n
    BY <1>3
  <2> QED BY <1>4, <2>1
<1> QED BY <1>2, <1>5, <1>6 DEF N, sorted

\* What is known of the clusters of some assets.
Clustered(seen, out) ==
    /\ out \in Seq(Seq(Assets))
    /\ \A i \in DOMAIN out : Range(out[i]) # {} /\ Range(out[i]) \subseteq seen
    /\ \A i, j \in DOMAIN out : i # j => Range(out[i]) \cap Range(out[j]) = {}

\* An asset more opens a cluster or joins the last one.
LEMMA GatheredIsClustered ==
  ASSUME NEW seen, NEW out, Clustered(seen, out), NEW a \in Assets, a \notin seen, NEW l
  PROVE  Clustered(seen \cup {a}, Gathered(l, out, a))
<1> DEFINE n == Len(out)
<1>1. out \in Seq(Seq(Assets)) /\ n \in Nat /\ DOMAIN out = 1..n
  BY DEF Clustered
<1>2. CASE Gathered(l, out, a) = Append(out, <<a>>)
  <2> DEFINE more == Append(out, <<a>>)
  <2>1. /\ more \in Seq(Seq(Assets)) /\ DOMAIN more = 1..n + 1 /\ more[n + 1] = <<a>>
        /\ \A i \in 1..n : more[i] = out[i]
    BY <1>1
  <2>2. Range(<<a>>) = {a}
    BY DEF Range
  <2> HIDE DEF more, n
  <2>3. \A i \in 1..n + 1 : i \in 1..n \/ i = n + 1
    BY <1>1
  <2>4. \A i \in 1..n : more[i] = out[i] /\ Range(out[i]) # {} /\ Range(out[i]) \subseteq seen
    BY <1>1, <2>1 DEF Clustered
  <2>5. \A i, j \in 1..n : i # j => Range(out[i]) \cap Range(out[j]) = {}
    BY <1>1 DEF Clustered
  <2>6. \A i \in DOMAIN more : Range(more[i]) # {} /\ Range(more[i]) \subseteq seen \cup {a}
    BY <2>1, <2>2, <2>3, <2>4
  <2>7. \A i, j \in DOMAIN more : i # j => Range(more[i]) \cap Range(more[j]) = {}
    <3>1. Range(more[n + 1]) = {a}
      BY <2>1, <2>2
    <3>2. \A i \in 1..n : Range(more[i]) = Range(out[i]) /\ a \notin Range(more[i])
      BY <2>4
    <3> SUFFICES ASSUME NEW i \in DOMAIN more, NEW j \in DOMAIN more, i # j
                 PROVE  Range(more[i]) \cap Range(more[j]) = {}
      OBVIOUS
    <3>3. (i \in 1..n \/ i = n + 1) /\ (j \in 1..n \/ j = n + 1)
      BY <2>1, <2>3
    <3>4. CASE i \in 1..n /\ j \in 1..n
      BY <2>5, <3>2, <3>4
    <3>5. CASE i \in 1..n /\ j = n + 1
      BY <3>1, <3>2, <3>5
    <3>6. CASE i = n + 1 /\ j \in 1..n
      BY <3>1, <3>2, <3>6
    <3> QED BY <3>3, <3>4, <3>5, <3>6
  <2> QED BY <1>2, <2>1, <2>6, <2>7 DEF Clustered, more
<1>3. CASE out # <<>> /\ Gathered(l, out, a) = [out EXCEPT ![Len(out)] = Append(@, a)]
  <2> DEFINE last == out[n]
             longer == Append(last, a)
             more == [out EXCEPT ![n] = longer]
  <2>1. n \in 1..n
    BY <1>1, <1>3
  <2>2. last \in Seq(Assets)
    BY <1>1, <2>1
  <2>3. longer \in Seq(Assets) /\ Range(longer) = Range(last) \cup {a}
    <3> HIDE DEF last
    <3>1. longer \in Seq(Assets) /\ DOMAIN longer = 1..Len(last) + 1 /\ longer[Len(last) + 1] = a
          /\ DOMAIN last = 1..Len(last) /\ Len(last) \in Nat /\ \A i \in 1..Len(last) : longer[i] = last[i]
      BY <2>2
    <3>2. \A i \in 1..Len(last) + 1 : i \in 1..Len(last) \/ i = Len(last) + 1
      BY <3>1
    <3>3. 1..Len(last) \subseteq 1..Len(last) + 1 /\ Len(last) + 1 \in 1..Len(last) + 1
      BY <3>1
    <3> HIDE DEF longer
    <3> QED BY <3>1, <3>2, <3>3 DEF Range
  <2>4. more \in Seq(Seq(Assets)) /\ DOMAIN more = 1..n /\ more[n] = longer /\ \A i \in 1..n : i # n => more[i] = out[i]
    <3> HIDE DEF longer
    <3> QED BY <1>1, <2>1, <2>3
  <2>5. \A i \in 1..n : Range(out[i]) # {} /\ Range(out[i]) \subseteq seen
    BY <1>1 DEF Clustered
  <2>6. \A i, j \in 1..n : i # j => Range(out[i]) \cap Range(out[j]) = {}
    BY <1>1 DEF Clustered
  <2>7. Gathered(l, out, a) = more
    BY <1>3
  <2>8. Range(last) = Range(out[n])
    OBVIOUS
  <2> HIDE DEF more, longer, last, n
  <2>9. \A i \in DOMAIN more : Range(more[i]) # {} /\ Range(more[i]) \subseteq seen \cup {a}
    <3> SUFFICES ASSUME NEW i \in 1..n PROVE Range(more[i]) # {} /\ Range(more[i]) \subseteq seen \cup {a}
      BY <2>4
    <3>1. CASE i = n
      BY <2>3, <2>4, <2>5, <2>8, <3>1
    <3>2. CASE i # n
      BY <2>4, <2>5, <3>2
    <3> QED BY <3>1, <3>2
  <2>10. \A i, j \in DOMAIN more : i # j => Range(more[i]) \cap Range(more[j]) = {}
    <3> SUFFICES ASSUME NEW i \in 1..n, NEW j \in 1..n, i # j PROVE Range(more[i]) \cap Range(more[j]) = {}
      BY <2>4
    <3>1. \A k \in 1..n : k # n => Range(more[k]) = Range(out[k])
      BY <2>4
    <3>2. Range(more[n]) = Range(out[n]) \cup {a}
      BY <2>3, <2>4, <2>8
    <3>3. \A k \in 1..n : a \notin Range(out[k])
      BY <2>5
    <3> QED BY <2>6, <3>1, <3>2, <3>3
  <2> QED BY <2>4, <2>7, <2>9, <2>10 DEF Clustered
<1> QED BY <1>2, <1>3 DEF Gathered

\* The clusters are of different assets of the library, and none is empty.
LEMMA ClustersAreApart ==
  ASSUME NEW l, l \in LibType, ViewsAssumption
  PROVE  Clustered(l.assets, cluster_assets(l))
<1> DEFINE N == Cardinality(l.assets)
           sorted == ByTime(l)
           number == [a \in l.assets |-> l.hour[a] * (Cardinality(Assets) + 1) + a]
<1>1. IsFiniteSet(l.assets) /\ N \in Nat /\ l.assets \subseteq Assets /\ Cardinality(Assets) \in Nat
      /\ Assets = 1..Cardinality(Assets) /\ l.hour \in [Assets -> Nat]
  <2>1. l.assets \subseteq Assets /\ l.hour \in [Assets -> Nat]
    BY DEF LibType
  <2> QED BY <2>1, FS_Subset, FS_CardinalityType DEF ViewsAssumption
<1>2. \A a \in l.assets : number[a] \in Nat
  <2> SUFFICES ASSUME NEW a \in l.assets PROVE l.hour[a] * (Cardinality(Assets) + 1) + a \in Nat
    OBVIOUS
  <2> DEFINE card == Cardinality(Assets)
             hour == l.hour[a]
  <2>1. a \in Nat /\ hour \in Nat /\ card \in Nat
    BY <1>1
  <2> HIDE DEF card, hour
  <2>2. hour * (card + 1) \in Nat
    BY <2>1
  <2>3. hour * (card + 1) + a \in Nat
    <3> DEFINE prod == hour * (card + 1)
    <3> HIDE DEF prod
    <3> QED BY <2>1, <2>2 DEF prod
  <2> QED BY <2>3 DEF card, hour
<1>3. sorted = SortedBy(l.assets, number)
  BY DEF ByTime
<1> HIDE DEF number
<1>4. /\ sorted \in [1..N -> l.assets]
      /\ \A i, j \in 1..N : sorted[i] = sorted[j] => i = j
  BY <1>1, <1>2, <1>3, SortedIsComplete
<1>5. PICK out : /\ out[0] = <<>>
                 /\ \A n \in Nat : n < N => out[n + 1] = Gathered(l, out[n], sorted[n + 1])
                 /\ cluster_assets(l) = out[N]
  BY <1>1, ClustersByTurns
<1> HIDE DEF N, sorted
<1> DEFINE Seen(n) == {sorted[k] : k \in 1..n}
           T == {n \in Nat : n <= N => Clustered(Seen(n), out[n])}
<1>6. 0 \in T
  <2>1. <<>> \in Seq(Seq(Assets)) /\ DOMAIN <<>> = {}
    OBVIOUS
  <2>2. Clustered(Seen(0), <<>>)
    <3> HIDE DEF Seen
    <3> QED BY <2>1 DEF Clustered
  <2> HIDE DEF Seen
  <2> QED BY <1>5, <2>2
<1>7. ASSUME NEW n \in Nat, n \in T PROVE n + 1 \in T
  <2> SUFFICES ASSUME n + 1 <= N PROVE Clustered(Seen(n + 1), out[n + 1])
    OBVIOUS
  <2>1. n < N /\ n <= N /\ n + 1 \in 1..N /\ n + 1 \notin 1..n /\ 1..n \subseteq 1..N
    BY <1>1
  <2>2. Clustered(Seen(n), out[n]) /\ out[n + 1] = Gathered(l, out[n], sorted[n + 1])
    BY <1>5, <1>7, <2>1
  <2>3. sorted[n + 1] \in Assets /\ sorted[n + 1] \notin Seen(n)
    BY <1>1, <1>4, <2>1
  <2>4. Seen(n + 1) = Seen(n) \cup {sorted[n + 1]}
    <3>1. \A k \in 1..n + 1 : k \in 1..n \/ k = n + 1
      OBVIOUS
    <3>2. 1..n \subseteq 1..n + 1 /\ n + 1 \in 1..n + 1
      OBVIOUS
    <3> QED BY <3>1, <3>2
  <2> HIDE DEF Seen
  <2> QED BY <2>2, <2>3, <2>4, GatheredIsClustered
<1> HIDE DEF T
<1>8. N \in T
  BY <1>1, <1>6, <1>7, TurnByTurn
<1>9. Clustered(Seen(N), out[N])
  BY <1>1, <1>8 DEF T
<1>10. Seen(N) \subseteq l.assets
  BY <1>4
<1> HIDE DEF Seen
<1> QED BY <1>5, <1>9, <1>10 DEF Clustered

-----------------------------------------------------------------------------
(***************************************************************************)
(* The events, cluster by cluster.                                         *)
(***************************************************************************)
OneEventMore(l, places, taken, out, event) == Append(out, EventOf(l, places, taken, out, event))

IsDeriving(out, l, places, taken, events, N) ==
    out = [n \in 0..N |-> IF n = 0 THEN <<>>
                          ELSE Append(out[n - 1], EventOf(l, places, taken, out[n - 1], events[n]))]

\* However many clusters there are, they can be gone through.
LEMMA CanDerive ==
  ASSUME NEW l, NEW places, NEW taken, NEW events, NEW N \in Nat
  PROVE  \E out : IsDeriving(out, l, places, taken, events, N)
<1> DEFINE T == {n \in Nat : \E out : IsDeriving(out, l, places, taken, events, n)}
<1>1. 0 \in T
  <2>1. IsDeriving([k \in 0..0 |-> <<>>], l, places, taken, events, 0)
    BY DEF IsDeriving
  <2> QED BY <2>1
<1>2. ASSUME NEW n \in Nat, n \in T PROVE n + 1 \in T
  <2>1. PICK out : IsDeriving(out, l, places, taken, events, n)
    BY <1>2
  <2> DEFINE more == [k \in 0..n + 1 |-> IF k = n + 1 THEN OneEventMore(l, places, taken, out[n], events[n + 1])
                                         ELSE out[k]]
  <2>2. \A k \in 0..n : out[k] = IF k = 0 THEN <<>> ELSE OneEventMore(l, places, taken, out[k - 1], events[k])
    BY <2>1 DEF IsDeriving, OneEventMore
  <2>3. ASSUME NEW k \in 0..n + 1
        PROVE  more[k] = IF k = 0 THEN <<>> ELSE OneEventMore(l, places, taken, more[k - 1], events[k])
    <3>1. CASE k = n + 1
      BY <3>1
    <3>2. CASE k # n + 1
      <4>1. k \in 0..n /\ (k # 0 => k - 1 \in 0..n)
        BY <3>2
      <4>2. more[k] = out[k] /\ (k # 0 => more[k - 1] = out[k - 1])
        BY <3>2, <4>1
      <4>3. out[k] = IF k = 0 THEN <<>> ELSE OneEventMore(l, places, taken, out[k - 1], events[k])
        BY <2>2, <4>1
      <4> HIDE DEF more
      <4> QED BY <4>2, <4>3
    <3> QED BY <3>1, <3>2
  <2>4. more = [k \in 0..n + 1 |-> more[k]]
    OBVIOUS
  <2> HIDE DEF more
  <2>5. IsDeriving(more, l, places, taken, events, n + 1)
    <3> DEFINE loop == [k \in 0..n + 1 |-> IF k = 0 THEN <<>>
                                           ELSE OneEventMore(l, places, taken, more[k - 1], events[k])]
    <3>1. more = loop
      BY <2>3, <2>4
    <3> QED BY <3>1 DEF IsDeriving, OneEventMore
  <2>6. \E g : IsDeriving(g, l, places, taken, events, n + 1)
    BY <2>5
  <2> QED BY <2>6
<1> HIDE DEF T
<1>3. N \in T
  BY <1>1, <1>2, TurnByTurn
<1> QED BY <1>3 DEF T

\* derive_events goes through the clusters in their order.
LEMMA EventsByTurns ==
  ASSUME NEW l, NEW places, NEW taken, Len(cluster_assets(l)) \in Nat
  PROVE  \E out : /\ out[0] = <<>>
                  /\ \A n \in Nat : n < Len(cluster_assets(l)) =>
                        out[n + 1] = OneEventMore(l, places, taken, out[n], cluster_assets(l)[n + 1])
                  /\ derive_events(l, places, taken) = out[Len(cluster_assets(l))]
<1> DEFINE events == cluster_assets(l)
           N == Len(events)
           out == CHOOSE out : out = [n \in 0..Len(events) |->
                      IF n = 0 THEN <<>> ELSE Append(out[n - 1], EventOf(l, places, taken, out[n - 1], events[n]))]
<1>1. out = [n \in 0..N |-> IF n = 0 THEN <<>> ELSE Append(out[n - 1], EventOf(l, places, taken, out[n - 1], events[n]))]
  <2> HIDE DEF events
  <2>1. N \in Nat
    BY DEF events
  <2>2. \E g : IsDeriving(g, l, places, taken, events, N)
    BY <2>1, CanDerive
  <2>3. \E g : g = [n \in 0..N |-> IF n = 0 THEN <<>> ELSE Append(g[n - 1], EventOf(l, places, taken, g[n - 1], events[n]))]
    BY <2>2, Zenon DEF IsDeriving
  <2> QED BY <2>3, Zenon
<1>2. derive_events(l, places, taken) = out[N]
  BY DEF derive_events
<1> HIDE DEF out, N, events
<1>3. N \in Nat
  BY DEF N, events
<1>4. \A k \in 0..N : out[k] = IF k = 0 THEN <<>> ELSE OneEventMore(l, places, taken, out[k - 1], events[k])
  BY <1>1 DEF OneEventMore
<1>5. out[0] = <<>>
  BY <1>3, <1>4
<1>6. \A n \in Nat : n < N => out[n + 1] = OneEventMore(l, places, taken, out[n], events[n + 1])
  <2> SUFFICES ASSUME NEW n \in Nat, n < N PROVE out[n + 1] = OneEventMore(l, places, taken, out[n], events[n + 1])
    OBVIOUS
  <2>1. n + 1 \in 0..N /\ n + 1 # 0 /\ (n + 1) - 1 = n
    BY <1>3
  <2> QED BY <1>4, <2>1
<1> QED BY <1>2, <1>5, <1>6 DEF N, events

\* An event of the same assets keeps its id and its title, any other is new.
EventKept(e, old) ==
    \/ \E f \in Range(old) : Range(f.assets) = Range(e.assets) /\ e.id = f.id /\ e.titled = f.titled
    \/ /\ \A f \in Range(old) : Range(f.assets) # Range(e.assets)
       /\ e.id \notin Ids(old) /\ e.titled = FALSE

EventFits(e, l, places, cluster) ==
    e.assets = cluster /\ e.place = EventPlace(l, places, cluster) /\ e.people = Nobody /\ EventKept(e, l.events)

\* What is known after the first n clusters.
EventsUpTo(n, l, places, events, out) ==
    /\ out \in Seq(EventType) /\ Len(out) = n /\ KeysHold(out)
    /\ \A i \in 1..n : EventFits(out[i], l, places, events[i])

\* The place of an event is one of the places, or unknown.
LEMMA EventPlaceFits ==
  ASSUME NEW l, NEW places \in Seq(PlaceType), NEW event
  PROVE  /\ EventPlace(l, places, event) \in Ids(places) \cup {Unknown}
         /\ EventPlace(l, places, event) \in Nat
<1> DEFINE hinted == {i \in DOMAIN event : l.hint[event[i]] # Unknown}
           first == CHOOSE i \in hinted : \A j \in hinted : i <= j
           found == {p \in Range(places) : hinted # {} /\ p.label = l.hint[event[first]]}
<1>1. EventPlace(l, places, event) = IF found = {} THEN Unknown ELSE (CHOOSE p \in found : TRUE).id
  BY DEF EventPlace
<1>2. found \subseteq Range(places)
  OBVIOUS
<1> HIDE DEF found
<1>3. \A p \in Range(places) : p.id \in Ids(places) /\ p.id \in Nat
  <2>1. \A i \in DOMAIN places : places[i] \in PlaceType
    OBVIOUS
  <2> QED BY <2>1 DEF Range, Ids, PlaceType
<1>4. CASE found = {}
  BY <1>1, <1>4 DEF Unknown
<1>5. CASE found # {}
  <2>1. PICK p \in found : EventPlace(l, places, event) = p.id
    BY <1>1, <1>5
  <2> QED BY <1>2, <1>3, <2>1
<1> QED BY <1>4, <1>5

\* The event of a cluster.
LEMMA EventOfFits ==
  ASSUME NEW l, l \in LibType, KeysHold(l.events), NEW taken, IsFiniteSet(taken),
         NEW places \in Seq(PlaceType), NEW out \in Seq(EventType),
         \A x \in Range(out) : EventKept(x, l.events),
         NEW event \in Seq(Assets), \A x \in Range(out) : Range(x.assets) # Range(event),
         NEW e, e = EventOf(l, places, taken, out, event)
  PROVE  e \in EventType /\ EventFits(e, l, places, event) /\ e.id \notin Ids(out)
<1> DEFINE same == {i \in DOMAIN l.events : same_asset_set(l.events[i].assets, event)}
           first == CHOOSE i \in same : \A j \in same : i <= j
           others == taken \cup Ids(l.events) \cup Ids(out)
<1>1. /\ e.id = (IF same # {} THEN l.events[first].id ELSE Fresh(others))
      /\ e.titled = (IF same # {} THEN l.events[first].titled ELSE FALSE)
      /\ e.assets = event /\ e.place = EventPlace(l, places, event) /\ e.people = Nobody
      /\ e = [id |-> e.id, assets |-> e.assets, titled |-> e.titled, place |-> e.place, people |-> e.people]
  BY DEF EventOf
<1>2. l.events \in Seq(EventType) /\ \A i \in DOMAIN l.events : l.events[i] \in EventType /\ l.events[i] \in Range(l.events)
  BY DEF LibType, Range
<1>3. e.place \in Nat /\ e.people \in SUBSET Nat
  <2>1. EventPlace(l, places, event) \in Nat
    BY EventPlaceFits
  <2>2. e.place \in Nat
    BY <1>1, <2>1
  <2>3. e.people = {}
    BY <1>1 DEF Nobody
  <2> QED BY <2>2, <2>3
<1>4. CASE same # {}
  <2>1. same \subseteq Nat
    <3>1. DOMAIN l.events = 1..Len(l.events) /\ Len(l.events) \in Nat
      BY <1>2
    <3> QED BY <3>1
  <2>2. first \in same
    <3> HIDE DEF same
    <3> QED BY <1>4, <2>1, LeastOf
  <2> DEFINE f == l.events[first]
  <2>3. f \in EventType /\ f \in Range(l.events) /\ Range(f.assets) = Range(event)
    BY <1>2, <2>2 DEF same_asset_set
  <2>4. e.id = f.id /\ e.titled = f.titled
    BY <1>1, <1>4
  <2> HIDE DEF f, first, same
  <2>5. EventKept(e, l.events)
    BY <1>1, <2>3, <2>4 DEF EventKept
  <2>6. e.id \notin Ids(out)
    <3> SUFFICES ASSUME e.id \in Ids(out) PROVE FALSE
      OBVIOUS
    <3>1. PICK x \in Range(out) : x.id = e.id
      BY IdsAreFinite
    <3>2. f.id \in Ids(l.events)
      BY <1>2, <2>3, IdsAreFinite
    <3>3. PICK g \in Range(l.events) : Range(g.assets) = Range(x.assets) /\ x.id = g.id
      BY <2>4, <3>1, <3>2 DEF EventKept
    <3>4. g = f
      <4>1. PICK i \in DOMAIN l.events : l.events[i] = f
        BY <2>3 DEF Range
      <4>2. PICK j \in DOMAIN l.events : l.events[j] = g
        BY DEF Range
      <4>3. l.events[i].id = l.events[j].id
        BY <2>4, <3>1, <3>3, <4>1, <4>2
      <4> QED BY <4>1, <4>2, <4>3 DEF KeysHold
    <3> QED BY <2>3, <3>3, <3>4
  <2> QED BY <1>1, <1>3, <2>3, <2>4, <2>5, <2>6 DEF EventType, EventFits
<1>5. CASE same = {}
  <2>1. IsFiniteSet(Ids(l.events)) /\ IsFiniteSet(Ids(out))
    BY <1>2, IdsAreFinite
  <2>2. IsFiniteSet(others)
    BY <2>1, FS_Union
  <2>3. Fresh(others) \in Nat /\ Fresh(others) \notin others
    BY <2>2, FreshIsNew
  <2>4. e.id = Fresh(others) /\ e.titled = FALSE
    BY <1>1, <1>5
  <2>5. e.id \in Nat /\ e.id \notin Ids(out) /\ e.id \notin Ids(l.events)
    BY <2>3, <2>4
  <2>6. \A f \in Range(l.events) : Range(f.assets) # Range(event)
    <3>1. \A i \in DOMAIN l.events : Range(l.events[i].assets) # Range(event)
      BY <1>5 DEF same_asset_set
    <3> SUFFICES ASSUME NEW f \in Range(l.events) PROVE Range(f.assets) # Range(event)
      OBVIOUS
    <3>2. PICK i \in DOMAIN l.events : l.events[i] = f
      BY DEF Range
    <3> QED BY <3>1, <3>2
  <2> HIDE DEF same, first, others
  <2>7. EventKept(e, l.events)
    BY <1>1, <2>4, <2>5, <2>6 DEF EventKept
  <2> QED BY <1>1, <1>3, <2>4, <2>5, <2>7 DEF EventType, EventFits
<1> QED BY <1>4, <1>5

\* The events that derive_events makes.
LEMMA DerivedEvents ==
  ASSUME NEW l, l \in LibType, ViewsAssumption, KeysHold(l.events), NEW taken, IsFiniteSet(taken),
         NEW places \in Seq(PlaceType)
  PROVE  EventsUpTo(Len(cluster_assets(l)), l, places, cluster_assets(l), derive_events(l, places, taken))
<1> DEFINE events == cluster_assets(l)
           N == Len(events)
<1>1. Clustered(l.assets, events)
  BY ClustersAreApart
<1>2. events \in Seq(Seq(Assets)) /\ N \in Nat /\ DOMAIN events = 1..N
  BY <1>1 DEF Clustered
<1>3. PICK out : /\ out[0] = <<>>
                 /\ \A n \in Nat : n < N => out[n + 1] = OneEventMore(l, places, taken, out[n], events[n + 1])
                 /\ derive_events(l, places, taken) = out[N]
  <2>1. Len(cluster_assets(l)) \in Nat
    BY <1>2
  <2> QED BY ONLY <2>1, EventsByTurns, Zenon
<1> HIDE DEF N, events
<1> DEFINE T == {n \in Nat : n <= N => EventsUpTo(n, l, places, events, out[n])}
<1>4. 0 \in T
  <2>1. <<>> \in Seq(EventType) /\ Len(<<>>) = 0 /\ DOMAIN <<>> = {}
    OBVIOUS
  <2>2. EventsUpTo(0, l, places, events, <<>>)
    BY <2>1 DEF EventsUpTo, KeysHold
  <2> QED BY <1>3, <2>2
<1>5. ASSUME NEW n \in Nat, n \in T PROVE n + 1 \in T
  <2> SUFFICES ASSUME n + 1 <= N PROVE EventsUpTo(n + 1, l, places, events, out[n + 1])
    OBVIOUS
  <2>1. n < N /\ n <= N /\ n + 1 \in 1..N /\ n + 1 \notin 1..n /\ 1..n \subseteq 1..N
    BY <1>2
  <2> DEFINE before == out[n]
             event == events[n + 1]
             e == EventOf(l, places, taken, before, event)
             more == Append(before, e)
  <2>2. EventsUpTo(n, l, places, events, before) /\ out[n + 1] = more
    BY <1>3, <1>5, <2>1 DEF OneEventMore
  <2> HIDE DEF T
  <2>3. before \in Seq(EventType) /\ DOMAIN before = 1..n /\ Len(before) = n /\ KeysHold(before)
        /\ \A i \in 1..n : EventFits(before[i], l, places, events[i])
    <3> HIDE DEF before
    <3>1. before \in Seq(EventType) /\ Len(before) = n /\ KeysHold(before)
          /\ \A i \in 1..n : EventFits(before[i], l, places, events[i])
      BY <2>2 DEF EventsUpTo
    <3>2. DOMAIN before = 1..Len(before)
      BY <3>1
    <3> QED BY <3>1, <3>2
  <2>4. event \in Seq(Assets)
    BY <1>2, <2>1
  <2> HIDE DEF before
  <2>5. \A x \in Range(before) : EventKept(x, l.events)
    BY <2>3 DEF Range, EventFits
  <2>6. \A x \in Range(before) : Range(x.assets) # Range(event)
    <3> SUFFICES ASSUME NEW x \in Range(before) PROVE Range(x.assets) # Range(event)
      OBVIOUS
    <3>0. PICK i \in 1..n : before[i] = x
      BY <2>3 DEF Range
    <3>1. before[i].assets = events[i] /\ i # n + 1 /\ i \in 1..N
      BY <2>1, <2>3 DEF EventFits
    <3>2. Range(events[i]) \cap Range(events[n + 1]) = {} /\ Range(events[i]) # {}
      BY <1>1, <1>2, <2>1, <3>1 DEF Clustered
    <3> QED BY <3>0, <3>1, <3>2 DEF event
  <2> HIDE DEF event
  <2>7. e \in EventType /\ EventFits(e, l, places, event) /\ e.id \notin Ids(before)
    <3> HIDE DEF e
    <3>1. e = EventOf(l, places, taken, before, event)
      BY DEF e
    <3> QED BY <2>3, <2>4, <2>5, <2>6, <3>1, EventOfFits
  <2> HIDE DEF e
  <2>8. more \in Seq(EventType) /\ KeysHold(more)
    BY <2>3, <2>7, OneViewMore
  <2>9. Len(more) = n + 1 /\ more[n + 1] = e /\ \A i \in 1..n : more[i] = before[i]
    BY <2>3, <2>7
  <2> HIDE DEF more
  <2>10. \A i \in 1..n + 1 : EventFits(more[i], l, places, events[i])
    <3>1. \A i \in 1..n + 1 : i \in 1..n \/ i = n + 1
      OBVIOUS
    <3> QED BY <2>3, <2>7, <2>9, <3>1 DEF event
  <2> QED BY <2>2, <2>8, <2>9, <2>10 DEF EventsUpTo
<1> HIDE DEF T
<1>6. N \in T
  BY <1>2, <1>4, <1>5, TurnByTurn
<1>7. EventsUpTo(N, l, places, events, out[N])
  BY <1>2, <1>6 DEF T
<1> QED BY <1>3, <1>7 DEF N, events

PeopleIds(l) == {p.id : p \in l.people}

\* There is one event for every cluster, of its assets and at the place of the first that has one.
EventsTold(l, places, events) ==
    /\ \A e \in Range(events) : /\ \E c \in Range(cluster_assets(l)) :
                                      Range(c) = Range(e.assets) /\ e.place = EventPlace(l, places, c)
                                /\ e.people \subseteq PeopleIds(l)
    /\ \A c \in Range(cluster_assets(l)) : \E e \in Range(events) : Range(e.assets) = Range(c)

\* No label is left that a hidden position gave.
HiddenSettled(l) == \A a \in Assets : l.geo[a].hidden => l.hint[a] # gps_place_hint(l.geo[a].at)

Derived(l) ==
    Base(l) /\ PlacesTold(l, l.places) /\ EventsTold(l, l.places, l.events) /\ HiddenSettled(l)

AllKept(events, old) == \A e \in Range(events) : EventKept(e, old)

\* What derive_events makes of a library.
LEMMA EventsAreTold ==
  ASSUME NEW l, l \in LibType, ViewsAssumption, KeysHold(l.events), NEW taken, IsFiniteSet(taken),
         NEW places \in Seq(PlaceType), NEW events, events = derive_events(l, places, taken)
  PROVE  /\ events \in Seq(EventType) /\ KeysHold(events) /\ Apart(events)
         /\ EventsTold(l, places, events) /\ AllKept(events, l.events)
<1> DEFINE cs == cluster_assets(l)
           n == Len(cs)
<1>1. EventsUpTo(n, l, places, cs, events)
  BY DerivedEvents
<1>2. Clustered(l.assets, cs)
  BY ClustersAreApart
<1>3. cs \in Seq(Seq(Assets)) /\ DOMAIN cs = 1..n
  BY <1>2 DEF Clustered
<1> HIDE DEF n, cs
<1>4. events \in Seq(EventType) /\ KeysHold(events) /\ Len(events) = n
      /\ \A i \in 1..n : EventFits(events[i], l, places, cs[i])
  BY <1>1 DEF EventsUpTo
<1>5. DOMAIN events = 1..n
  <2>1. DOMAIN events = 1..Len(events)
    BY <1>4
  <2> QED BY <1>4, <2>1
<1>6. Apart(events)
  <2> SUFFICES ASSUME NEW i \in 1..n, NEW j \in 1..n, Range(events[i].assets) = Range(events[j].assets), i # j
               PROVE  FALSE
    BY <1>5 DEF Apart
  <2>1. events[i].assets = cs[i] /\ events[j].assets = cs[j]
    BY <1>4 DEF EventFits
  <2>2. Range(cs[i]) \cap Range(cs[j]) = {} /\ Range(cs[i]) # {}
    BY <1>2, <1>3 DEF Clustered
  <2> QED BY <2>1, <2>2
<1>7. AllKept(events, l.events)
  <2> SUFFICES ASSUME NEW e \in Range(events) PROVE EventKept(e, l.events)
    BY DEF AllKept
  <2>1. PICK i \in 1..n : events[i] = e
    BY <1>5 DEF Range
  <2> QED BY <1>4, <2>1 DEF EventFits
<1>8. EventsTold(l, places, events)
  <2>1. ASSUME NEW e \in Range(events)
        PROVE  /\ \E c \in Range(cs) : Range(c) = Range(e.assets) /\ e.place = EventPlace(l, places, c)
               /\ e.people \subseteq PeopleIds(l)
    <3>1. PICK i \in 1..n : events[i] = e
      BY <1>5 DEF Range
    <3>2. e.assets = cs[i] /\ e.place = EventPlace(l, places, cs[i]) /\ e.people = {}
      BY <1>4, <3>1 DEF EventFits, Nobody
    <3>3. cs[i] \in Range(cs)
      BY <1>3 DEF Range
    <3> QED BY <3>2, <3>3
  <2>2. ASSUME NEW c \in Range(cs) PROVE \E e \in Range(events) : Range(e.assets) = Range(c)
    <3>1. PICK i \in 1..n : cs[i] = c
      BY <1>3 DEF Range
    <3>2. events[i] \in Range(events) /\ events[i].assets = c
      <4>1. events[i] \in Range(events)
        BY <1>5 DEF Range
      <4> QED BY <1>4, <3>1, <4>1 DEF EventFits
    <3> QED BY <3>2
  <2> QED BY <2>1, <2>2 DEF EventsTold, cs
<1> QED BY <1>4, <1>6, <1>7, <1>8

\* The title of an event that is kept stays.
TitlesHold(old, events) ==
    \A e \in Range(old) : e.titled =>
        \A f \in Range(events) : Range(f.assets) = Range(e.assets) => f.id = e.id /\ f.titled

\* When every event keeps what an event of the same assets had, titles hold.
LEMMA KeptTitles ==
  ASSUME NEW old, NEW events, Apart(old), AllKept(events, old)
  PROVE  TitlesHold(old, events)
<1> SUFFICES ASSUME NEW e \in Range(old), e.titled, NEW f \in Range(events), Range(f.assets) = Range(e.assets)
             PROVE  f.id = e.id /\ f.titled
  BY DEF TitlesHold
<1>1. EventKept(f, old)
  BY DEF AllKept
<1>2. PICK g \in Range(old) : Range(g.assets) = Range(f.assets) /\ f.id = g.id /\ f.titled = g.titled
  BY <1>1 DEF EventKept
<1>3. g = e
  <2>1. PICK i \in DOMAIN old : old[i] = e
    BY DEF Range
  <2>2. PICK j \in DOMAIN old : old[j] = g
    BY DEF Range
  <2> QED BY <1>2, <2>1, <2>2 DEF Apart
<1> QED BY <1>2, <1>3

-----------------------------------------------------------------------------
(***************************************************************************)
(* What the views of two libraries with the same assets have in common.    *)
(***************************************************************************)
Agree(k, l) == k.assets = l.assets /\ k.hour = l.hour /\ k.hint = l.hint /\ k.geo = l.geo /\ k.people = l.people

ClustersIn(assets, hour, hint) ==
    LET sorted == SortedBy(assets, [a \in assets |-> hour[a] * (Cardinality(Assets) + 1) + a])
        Parted(event, a) ==
            LET gap == hour[a] - hour[event[Len(event)]]
            IN gap > 8 \/ (gap > 2 /\ hint[a] # hint[event[1]])
        out[n \in 0..Cardinality(assets)] ==
            IF n = 0 THEN <<>>
            ELSE IF out[n - 1] = <<>> \/ Parted(out[n - 1][Len(out[n - 1])], sorted[n])
                 THEN Append(out[n - 1], <<sorted[n]>>)
            ELSE [out[n - 1] EXCEPT ![Len(out[n - 1])] = Append(@, sorted[n])]
    IN out[Cardinality(assets)]

\* The clusters follow from the assets, their hours and their hints.
LEMMA ClustersFollow ==
  ASSUME NEW l
  PROVE  cluster_assets(l) = ClustersIn(l.assets, l.hour, l.hint)
BY Zenon DEF ClustersIn, cluster_assets, Gathered, Splits, ByTime

EventPlaceIn(hint, places, event) ==
    LET hinted == {i \in DOMAIN event : hint[event[i]] # Unknown}
        first == CHOOSE i \in hinted : \A j \in hinted : i <= j
        found == {p \in places : hinted # {} /\ p.label = hint[event[first]]}
    IN IF found = {} THEN Unknown ELSE (CHOOSE p \in found : TRUE).id

\* The place of an event follows from the hints and the places, whatever their order.
LEMMA EventPlaceFollows ==
  ASSUME NEW l, NEW places, NEW event
  PROVE  EventPlace(l, places, event) = EventPlaceIn(l.hint, Range(places), event)
BY Zenon DEF EventPlaceIn, EventPlace

\* What is told of the one is told of the other.
LEMMA AgreementTells ==
  ASSUME NEW k, NEW l, Agree(k, l), NEW p, NEW q, Range(p) = Range(q), NEW events
  PROVE  /\ cluster_assets(k) = cluster_assets(l) /\ \A label : Here(k, label) = Here(l, label)
         /\ \A e : EventPlace(k, p, e) = EventPlace(l, q, e)
         /\ HiddenSettled(l) => HiddenSettled(k)
         /\ OneLabelEach(p) /\ PlacesTold(l, q) => PlacesTold(k, p)
         /\ EventsTold(l, q, events) => EventsTold(k, p, events)
<1>1. k.assets = l.assets /\ k.hour = l.hour /\ k.hint = l.hint /\ k.geo = l.geo /\ k.people = l.people
  BY DEF Agree
<1>2. cluster_assets(k) = cluster_assets(l)
  BY <1>1, ClustersFollow
<1>3. \A label : Here(k, label) = Here(l, label)
  BY <1>1 DEF Here, Hint
<1>4. \A e : EventPlace(k, p, e) = EventPlace(l, q, e)
  BY <1>1, EventPlaceFollows
<1>5. HiddenSettled(l) => HiddenSettled(k)
  BY <1>1 DEF HiddenSettled
<1>6. OneLabelEach(p) /\ PlacesTold(l, q) => PlacesTold(k, p)
  <2>1. \A S : PinsOf(k, S) = PinsOf(l, S)
    BY <1>1 DEF PinsOf
  <2>2. \A x : PlaceFits(l, x) => PlaceFits(k, x)
    BY <1>3, <2>1 DEF PlaceFits
  <2> QED BY <1>3, <2>2 DEF PlacesTold
<1>7. EventsTold(l, q, events) => EventsTold(k, p, events)
  BY <1>1, <1>2, <1>4 DEF EventsTold, PeopleIds
<1> QED BY <1>2, <1>3, <1>4, <1>5, <1>6, <1>7

-----------------------------------------------------------------------------
(***************************************************************************)
(* What is derived again.                                                  *)
(***************************************************************************)
StoreIsFinite == IsFiniteSet(StoredPlaces) /\ IsFiniteSet(StoredEvents)

\* Places derived again (rebuilt_places): each label's place, under the id it had.
LEMMA PlacesRebuilt ==
  ASSUME NEW l, Base(l), ViewsAssumption, StoreIsFinite, NEW k, k = rebuilt_places(l)
  PROVE  /\ Base(k) /\ Agree(k, l) /\ k.events = l.events
         /\ PlacesTold(k, k.places) /\ IdsKept(k.places, l.places)
<1>1. l \in LibType /\ KeysHold(l.places)
  BY DEF Base
<1> DEFINE places == derive_places(l, StoredPlaces)
<1>2. /\ places \in Seq(PlaceType) /\ KeysHold(places) /\ PlacesTold(l, places)
      /\ IdsKept(places, l.places)
  BY <1>1, DerivedPlaces DEF StoreIsFinite
<1>3. k = [l EXCEPT !.places = places]
  BY DEF rebuilt_places
<1> HIDE DEF places
<1>4. Agree(k, l) /\ k.events = l.events /\ k.places = places /\ k \in LibType
  BY <1>1, <1>2, <1>3 DEF LibType, Agree
<1>5. Base(k)
  BY <1>2, <1>4 DEF Base, Agree
<1>6. PlacesTold(k, k.places)
  <2>1. OneLabelEach(places)
    BY <1>2 DEF PlacesTold
  <2> QED BY <1>2, <1>4, <2>1, AgreementTells
<1> QED BY <1>2, <1>4, <1>5, <1>6

\* Events derived again (rebuilt_events): each cluster's event, with what it kept.
LEMMA EventsRebuilt ==
  ASSUME NEW l, Base(l), ViewsAssumption, StoreIsFinite, NEW k, k = rebuilt_events(l)
  PROVE  /\ Base(k) /\ Agree(k, l) /\ k.places = l.places
         /\ EventsTold(k, k.places, k.events) /\ AllKept(k.events, l.events)
<1>1. l \in LibType /\ KeysHold(l.events) /\ l.places \in Seq(PlaceType)
  BY DEF Base, LibType
<1> DEFINE events == derive_events(l, l.places, StoredEvents)
<1>2. /\ events \in Seq(EventType) /\ KeysHold(events) /\ Apart(events)
      /\ EventsTold(l, l.places, events) /\ AllKept(events, l.events)
  BY <1>1, EventsAreTold DEF StoreIsFinite
<1>3. k = [l EXCEPT !.events = events]
  BY DEF rebuilt_events
<1> HIDE DEF events
<1>4. Agree(k, l) /\ k.places = l.places /\ k.events = events /\ k \in LibType
  BY <1>1, <1>2, <1>3 DEF LibType, Agree
<1>5. Base(k)
  BY <1>2, <1>4 DEF Base, Agree
<1>6. EventsTold(k, k.places, k.events)
  BY <1>2, <1>4, AgreementTells
<1> QED BY <1>2, <1>4, <1>5, <1>6

Rehinted(l) == [l EXCEPT !.hint = HintsOf(l)]

\* Labels that hidden positions gave are dropped.
LEMMA HintsSettle ==
  ASSUME NEW l, Base(l), ViewsAssumption, NEW k, k = Rehinted(l)
  PROVE  /\ Base(k) /\ HiddenSettled(k) /\ k.geo = l.geo /\ k.people = l.people
         /\ k.places = l.places /\ k.events = l.events /\ k.assets = l.assets
         /\ HiddenSettled(l) => Agree(k, l)
<1>1. l \in LibType /\ \A a \in Assets : /\ a \notin l.assets => l.hour[a] = 0 /\ l.hint[a] = Unknown /\ l.geo[a] = NoGeo
                                         /\ l.geo[a].hidden => l.geo[a].at # Unknown
  BY DEF Base
<1>2. l.hint \in [Assets -> Labels \cup {Unknown}]
  BY <1>1 DEF LibType
<1>3. HintsOf(l) \in [Assets -> Labels \cup {Unknown}]
  BY <1>2 DEF HintsOf
<1>4. /\ \A a \in Assets : l.geo[a].hidden => HintsOf(l)[a] # gps_place_hint(l.geo[a].at)
      /\ \A a \in Assets : a \notin l.assets => HintsOf(l)[a] = Unknown
  BY <1>1 DEF HintsOf, gps_place_hint
<1>5. HiddenSettled(l) => HintsOf(l) = l.hint
  BY <1>2 DEF HintsOf, HiddenSettled
<1> DEFINE hints == HintsOf(l)
<1>6. k = [l EXCEPT !.hint = hints]
  BY DEF Rehinted
<1> HIDE DEF hints
<1>7. /\ k \in LibType /\ k.hint = hints /\ k.geo = l.geo /\ k.people = l.people /\ k.hour = l.hour
      /\ k.places = l.places /\ k.events = l.events /\ k.assets = l.assets
  <2>1. hints \in [Assets -> Labels \cup {Unknown}]
    BY <1>3 DEF hints
  <2> QED BY <1>1, <1>6, <2>1 DEF LibType
<1>8. Base(k)
  BY <1>1, <1>4, <1>7 DEF Base, hints
<1>9. HiddenSettled(k)
  BY <1>4, <1>7 DEF HiddenSettled, hints
<1> QED BY <1>5, <1>7, <1>8, <1>9 DEF Agree, hints

\* After refresh_derived_views everything derived is as it should be.
LEMMA Refreshed ==
  ASSUME NEW l, Base(l), ViewsAssumption, StoreIsFinite, NEW k, k = refresh_derived_views(l)
  PROVE  /\ Derived(k) /\ k.geo = l.geo /\ AllKept(k.events, l.events)
         /\ Derived(l) => /\ Range(k.places) = Range(l.places)
                          /\ \A e \in Range(k.events) : \E c \in Range(cluster_assets(l)) :
                                Range(c) = Range(e.assets) /\ e.place = EventPlace(l, l.places, c)
                          /\ cluster_assets(k) = cluster_assets(l)
<1> DEFINE h == Rehinted(l)
           m == rebuilt_places(h)
<1>1. k = rebuilt_events(m)
  BY DEF refresh_derived_views, Rehinted
<1>2. /\ Base(h) /\ HiddenSettled(h) /\ h.geo = l.geo /\ h.people = l.people
      /\ h.places = l.places /\ h.events = l.events /\ h.assets = l.assets
      /\ HiddenSettled(l) => Agree(h, l)
  BY HintsSettle
<1> HIDE DEF h
<1>3. /\ Base(m) /\ Agree(m, h) /\ m.events = h.events
      /\ PlacesTold(m, m.places) /\ IdsKept(m.places, h.places)
  BY <1>2, PlacesRebuilt
<1> HIDE DEF m
<1>4. /\ Base(k) /\ Agree(k, m) /\ k.places = m.places
      /\ EventsTold(k, k.places, k.events) /\ AllKept(k.events, m.events)
  BY <1>1, <1>3, EventsRebuilt
<1>5. PlacesTold(k, k.places)
  <2>1. OneLabelEach(m.places)
    BY <1>3 DEF PlacesTold
  <2> QED BY <1>3, <1>4, <2>1, AgreementTells
<1>6. HiddenSettled(k) /\ k.geo = l.geo
  <2>1. HiddenSettled(m)
    BY <1>2, <1>3, AgreementTells
  <2> QED BY <1>2, <1>3, <1>4, <2>1, AgreementTells DEF Agree
<1>7. ASSUME Derived(l)
      PROVE  /\ Range(k.places) = Range(l.places)
             /\ \A e \in Range(k.events) : \E c \in Range(cluster_assets(l)) :
                   Range(c) = Range(e.assets) /\ e.place = EventPlace(l, l.places, c)
             /\ cluster_assets(k) = cluster_assets(l)
  <2>1. Agree(k, l)
    BY <1>2, <1>3, <1>4, <1>7 DEF Derived, Agree
  <2>2. k.places \in Seq(PlaceType) /\ l.places \in Seq(PlaceType)
    BY <1>4 DEF Base, LibType
  <2>3. PlacesTold(l, k.places)
    <3>1. OneLabelEach(k.places) /\ Agree(l, k)
      BY <1>5, <2>1 DEF PlacesTold, Agree
    <3> QED BY <1>5, <3>1, AgreementTells
  <2>4. Range(k.places) = Range(l.places)
    BY <1>2, <1>3, <1>4, <1>7, <2>2, <2>3, SamePlaces DEF Derived
  <2>5. cluster_assets(k) = cluster_assets(l) /\ \A e : EventPlace(k, k.places, e) = EventPlace(l, l.places, e)
    BY <2>1, <2>4, AgreementTells
  <2> QED BY <1>4, <2>4, <2>5 DEF EventsTold
<1> QED BY <1>2, <1>3, <1>4, <1>5, <1>6, <1>7 DEF Derived

-----------------------------------------------------------------------------
(***************************************************************************)
(* What a start finds of what was saved.                                   *)
(***************************************************************************)
SameEvent(f, e) == f.id = e.id /\ f.titled = e.titled /\ f.place = e.place /\ f.people = e.people
                   /\ Range(f.assets) = Range(e.assets)

SameEvents(events, old) ==
    /\ \A f \in Range(events) : \E e \in Range(old) : SameEvent(f, e)
    /\ \A e \in Range(old) : \E f \in Range(events) : SameEvent(f, e)

\* A list in which a key stands once has one entry of every key.
LEMMA OneOfAKey ==
  ASSUME NEW views, KeysHold(views), NEW x \in Range(views), NEW y \in Range(views), x.id = y.id
  PROVE  x = y
<1>1. PICK i \in DOMAIN views : views[i] = x
  BY DEF Range
<1>2. PICK j \in DOMAIN views : views[j] = y
  BY DEF Range
<1> QED BY <1>1, <1>2 DEF KeysHold

\* The rows of the assets give back what is known of each.
LEMMA LoadedAssets ==
  ASSUME NEW t, Base(t), NEW s, s = load_state(SavedRows(t))
  PROVE  Agree(s, t)
<1>1. t \in LibType /\ \A a \in Assets : a \notin t.assets => t.hour[a] = 0 /\ t.hint[a] = Unknown /\ t.geo[a] = NoGeo
  BY DEF Base
<1>2. t.assets \subseteq Assets /\ t.hour \in [Assets -> Nat] /\ t.hint \in [Assets -> Labels \cup {Unknown}]
      /\ t.geo \in [Assets -> GeoType]
  BY <1>1 DEF LibType
<1> DEFINE rows == {[id |-> a, hour |-> t.hour[a], hint |-> t.hint[a]] : a \in t.assets}
           meta == {[id |-> a, geo |-> t.geo[a]] : a \in t.assets}
<1>3. /\ SavedRows(t).assets = rows /\ SavedRows(t).asset_metadata = meta
      /\ SavedRows(t).person_clusters = t.people
  BY DEF SavedRows
<1>4. /\ s.assets = {row.id : row \in rows} /\ s.people = t.people
      /\ s.hour = [a \in Assets |-> IF \E row \in rows : row.id = a THEN (CHOOSE row \in rows : row.id = a).hour ELSE 0]
      /\ s.hint = [a \in Assets |-> IF \E row \in rows : row.id = a THEN (CHOOSE row \in rows : row.id = a).hint ELSE Unknown]
      /\ s.geo = [a \in Assets |-> IF \E row \in meta : row.id = a THEN (CHOOSE row \in meta : row.id = a).geo ELSE NoGeo]
  <2>1. /\ s.assets = LoadAssets(SavedRows(t)) /\ s.people = load_people(SavedRows(t))
        /\ s.hour = Column(SavedRows(t).assets, LAMBDA row : row.hour, 0)
        /\ s.hint = Column(SavedRows(t).assets, LAMBDA row : row.hint, Unknown)
        /\ s.geo = LoadMetadata(SavedRows(t))
    BY DEF load_state
  <2> HIDE DEF rows, meta
  <2> QED BY <1>3, <2>1 DEF LoadAssets, load_people, LoadMetadata, Column, NoGeo
<1>5. ASSUME NEW a \in Assets, a \in t.assets
      PROVE  /\ \E row \in rows : row.id = a
             /\ (CHOOSE row \in rows : row.id = a).hour = t.hour[a] /\ (CHOOSE row \in rows : row.id = a).hint = t.hint[a]
             /\ \E row \in meta : row.id = a
             /\ (CHOOSE row \in meta : row.id = a).geo = t.geo[a]
  <2>1. [id |-> a, hour |-> t.hour[a], hint |-> t.hint[a]] \in rows /\ [id |-> a, geo |-> t.geo[a]] \in meta
    BY <1>5
  <2>2. \A row \in rows : row.id = a => row.hour = t.hour[a] /\ row.hint = t.hint[a]
    OBVIOUS
  <2>3. \A row \in meta : row.id = a => row.geo = t.geo[a]
    OBVIOUS
  <2>4. (\E row \in rows : row.id = a) /\ (\E row \in meta : row.id = a)
    BY <2>1
  <2> HIDE DEF rows, meta
  <2> QED BY <2>2, <2>3, <2>4
<1>6. ASSUME NEW a \in Assets, a \notin t.assets
      PROVE  ~(\E row \in rows : row.id = a) /\ ~(\E row \in meta : row.id = a)
  BY <1>6
<1>7. {row.id : row \in rows} = t.assets
  <2>1. \A row \in rows : row.id \in t.assets
    OBVIOUS
  <2>2. \A a \in t.assets : \E row \in rows : row.id = a
    BY <1>2, <1>5
  <2> HIDE DEF rows, meta
  <2> QED BY <2>1, <2>2
<1> HIDE DEF rows, meta
<1>8. s.hour = t.hour
  <2>1. \A a \in Assets : s.hour[a] = t.hour[a]
    <3> SUFFICES ASSUME NEW a \in Assets PROVE s.hour[a] = t.hour[a]
      OBVIOUS
    <3> QED BY <1>1, <1>4, <1>5, <1>6
  <2>2. s.hour = [a \in Assets |-> s.hour[a]] /\ t.hour = [a \in Assets |-> t.hour[a]]
    BY <1>2, <1>4
  <2> QED BY <2>1, <2>2
<1>9. s.hint = t.hint
  <2>1. \A a \in Assets : s.hint[a] = t.hint[a]
    <3> SUFFICES ASSUME NEW a \in Assets PROVE s.hint[a] = t.hint[a]
      OBVIOUS
    <3> QED BY <1>1, <1>4, <1>5, <1>6
  <2>2. s.hint = [a \in Assets |-> s.hint[a]] /\ t.hint = [a \in Assets |-> t.hint[a]]
    BY <1>2, <1>4
  <2> QED BY <2>1, <2>2
<1>10. s.geo = t.geo
  <2>1. \A a \in Assets : s.geo[a] = t.geo[a]
    <3> SUFFICES ASSUME NEW a \in Assets PROVE s.geo[a] = t.geo[a]
      OBVIOUS
    <3> QED BY <1>1, <1>4, <1>5, <1>6
  <2>2. s.geo = [a \in Assets |-> s.geo[a]] /\ t.geo = [a \in Assets |-> t.geo[a]]
    BY <1>2, <1>4
  <2> QED BY <2>1, <2>2
<1> QED BY <1>4, <1>7, <1>8, <1>9, <1>10 DEF Agree

\* The rows of the members give back what each place or event consists of.
LEMMA MembersOfPlaces ==
  ASSUME NEW places, KeysHold(places), NEW x \in Range(places)
  PROVE  {m[2] : m \in {n \in UNION {{p.id} \X p.assets : p \in Range(places)} : n[1] = x.id}} = x.assets
<1> DEFINE All == UNION {{p.id} \X p.assets : p \in Range(places)}
<1>1. ASSUME NEW a \in x.assets PROVE <<x.id, a>> \in All
  OBVIOUS
<1>2. ASSUME NEW m \in All, m[1] = x.id PROVE m[2] \in x.assets
  <2>1. PICK p \in Range(places) : m \in {p.id} \X p.assets
    OBVIOUS
  <2>2. m[1] = p.id /\ m[2] \in p.assets
    BY <2>1
  <2>3. p = x
    BY <1>2, <2>2, OneOfAKey
  <2> QED BY <2>2, <2>3
<1> HIDE DEF All
<1>3. {m[2] : m \in {n \in All : n[1] = x.id}} = x.assets
  <2>1. ASSUME NEW a \in x.assets PROVE \E m \in All : m[1] = x.id /\ m[2] = a
    <3>1. <<x.id, a>> \in All /\ <<x.id, a>>[1] = x.id /\ <<x.id, a>>[2] = a
      BY <1>1
    <3> QED BY <3>1, Zenon
  <2> DEFINE mine == x.assets
  <2>2. \A a \in mine : \E m \in All : m[1] = x.id /\ m[2] = a
    BY <2>1
  <2>3. \A m \in All : m[1] = x.id => m[2] \in mine
    BY <1>2
  <2> HIDE DEF mine
  <2>4. {m[2] : m \in {n \in All : n[1] = x.id}} = mine
    BY <2>2, <2>3
  <2> QED BY <2>4 DEF mine
<1> QED BY <1>3 DEF All

\* The membership rows of an event are of its assets.
LEMMA MembersOfEvents ==
  ASSUME NEW events, KeysHold(events), NEW x \in Range(events)
  PROVE  {m[2] : m \in {n \in UNION {{e.id} \X Range(e.assets) : e \in Range(events)} : n[1] = x.id}} = Range(x.assets)
<1> DEFINE All == UNION {{e.id} \X Range(e.assets) : e \in Range(events)}
<1>1. ASSUME NEW a \in Range(x.assets) PROVE <<x.id, a>> \in All
  OBVIOUS
<1>2. ASSUME NEW m \in All, m[1] = x.id PROVE m[2] \in Range(x.assets)
  <2>1. PICK e \in Range(events) : m \in {e.id} \X Range(e.assets)
    OBVIOUS
  <2>2. m[1] = e.id /\ m[2] \in Range(e.assets)
    BY <2>1
  <2>3. e = x
    BY <1>2, <2>2, OneOfAKey
  <2> QED BY <2>2, <2>3
<1> HIDE DEF All
<1>3. {m[2] : m \in {n \in All : n[1] = x.id}} = Range(x.assets)
  <2>1. ASSUME NEW a \in Range(x.assets) PROVE \E m \in All : m[1] = x.id /\ m[2] = a
    <3>1. <<x.id, a>> \in All /\ <<x.id, a>>[1] = x.id /\ <<x.id, a>>[2] = a
      BY <1>1
    <3> QED BY <3>1, Zenon
  <2> DEFINE mine == Range(x.assets)
  <2>2. \A a \in mine : \E m \in All : m[1] = x.id /\ m[2] = a
    BY <2>1
  <2>3. \A m \in All : m[1] = x.id => m[2] \in mine
    BY <1>2
  <2> HIDE DEF mine
  <2>4. {m[2] : m \in {n \in All : n[1] = x.id}} = mine
    BY <2>2, <2>3
  <2> QED BY <2>4 DEF mine
<1> QED BY <1>3 DEF All

\* The clusters' rows in the order of their numbers.
LEMMA RowsInOrder ==
  ASSUME NEW S, IsFiniteSet(S), NEW number, \A x \in S : number[x] \in Nat, NEW rows, rows = SortedBy(S, number)
  PROVE  \E n \in Nat : /\ DOMAIN rows = 1..n
                        /\ \A i \in 1..n : rows[i] \in S
                        /\ \A i, j \in 1..n : rows[i] = rows[j] => i = j
                        /\ \A x \in S : \E i \in 1..n : rows[i] = x
<1> DEFINE n == Cardinality(S)
<1>1. n \in Nat
  BY FS_CardinalityType
<1>2. /\ rows \in [1..n -> S]
      /\ \A i, j \in 1..n : rows[i] = rows[j] => i = j
      /\ \A x \in S : \E i \in 1..n : rows[i] = x
  BY SortedIsComplete
<1> HIDE DEF n
<1> QED BY <1>1, <1>2

\* The places are the same, in the order of their labels.
LEMMA LoadedPlaces ==
  ASSUME NEW t, Base(t), ViewsAssumption, NEW s, s = load_state(SavedRows(t))
  PROVE  /\ s.places \in Seq(PlaceType) /\ Range(s.places) = Range(t.places) /\ KeysHold(s.places)
         /\ OneLabelEach(t.places) => OneLabelEach(s.places)
<1>1. t.places \in Seq(PlaceType) /\ KeysHold(t.places)
  BY DEF Base, LibType
<1>2. \A p \in Range(t.places) : p \in PlaceType
  <2>1. \A i \in DOMAIN t.places : t.places[i] \in PlaceType
    BY <1>1
  <2> QED BY <2>1 DEF Range
<1> DEFINE Row(p) == [id |-> p.id, label |-> p.label, pins |-> p.pins]
           rows == {Row(p) : p \in Range(t.places)}
           number == [row \in rows |-> row.label]
           sorted == SortedBy(rows, number)
           RowsUnder(id) == {m[2] : m \in {n \in SavedRows(t).place_assets : n[1] = id}}
           Loaded(row) == [id |-> row.id, label |-> row.label, pins |-> row.pins, assets |-> RowsUnder(row.id)]
<1>3. s.places = [i \in DOMAIN sorted |-> Loaded(sorted[i])]
  <2>1. SavedRows(t).place_clusters = rows
    BY DEF SavedRows, SavePlaces
  <2>2. s.places = LoadPlaces(SavedRows(t))
    BY DEF load_state
  <2> HIDE DEF rows
  <2> QED BY <2>1, <2>2, Zenon DEF LoadPlaces
<1>4. \A p \in Range(t.places) : RowsUnder(p.id) = p.assets
  <2>1. SavedRows(t).place_assets = UNION {{p.id} \X p.assets : p \in Range(t.places)}
    BY DEF SavedRows, SavePlaces
  <2> QED BY <1>1, <2>1, MembersOfPlaces
<1>5. \A p \in Range(t.places) : Loaded(Row(p)) = p
  <2> SUFFICES ASSUME NEW p \in Range(t.places) PROVE Loaded(Row(p)) = p
    OBVIOUS
  <2>1. RowsUnder(p.id) = p.assets /\ p \in PlaceType
    BY <1>2, <1>4
  <2> HIDE DEF RowsUnder
  <2> QED BY <2>1 DEF PlaceType
<1>6. IsFiniteSet(rows)
  <2>1. IsFiniteSet(Range(t.places))
    BY <1>1, IdsAreFinite
  <2> DEFINE pick == [p \in Range(t.places) |-> Row(p)]
  <2>2. pick \in Surjection(Range(t.places), rows)
    BY DEF Surjection
  <2> QED BY <2>1, <2>2, FS_Surjection
<1>7. \A row \in rows : number[row] \in Nat
  <2>1. Labels \subseteq Nat
    BY FS_CardinalityType DEF ViewsAssumption
  <2> SUFFICES ASSUME NEW p \in Range(t.places) PROVE number[Row(p)] \in Nat
    OBVIOUS
  <2>2. p.label \in Nat
    BY <1>2, <2>1 DEF PlaceType
  <2>3. Row(p).label = p.label /\ Row(p) \in rows
    OBVIOUS
  <2> HIDE DEF rows, Row
  <2> QED BY <2>2, <2>3
<1> HIDE DEF RowsUnder, Loaded, Row
<1>8. \A row \in rows : \E p \in Range(t.places) : row = Row(p)
  OBVIOUS
<1>9. \A p \in Range(t.places) : Row(p) \in rows
  OBVIOUS
<1> HIDE DEF rows, number
<1>10. PICK n \in Nat : /\ DOMAIN sorted = 1..n
                        /\ \A i \in 1..n : sorted[i] \in rows
                        /\ \A i, j \in 1..n : sorted[i] = sorted[j] => i = j
                        /\ \A x \in rows : \E i \in 1..n : sorted[i] = x
  BY <1>6, <1>7, RowsInOrder
<1> HIDE DEF sorted
<1>11. \A i \in 1..n : s.places[i] \in Range(t.places) /\ sorted[i] = Row(s.places[i])
  <2> SUFFICES ASSUME NEW i \in 1..n PROVE s.places[i] \in Range(t.places) /\ sorted[i] = Row(s.places[i])
    OBVIOUS
  <2>1. PICK p \in Range(t.places) : sorted[i] = Row(p)
    BY <1>8, <1>10
  <2>2. s.places[i] = Loaded(sorted[i])
    BY <1>3, <1>10
  <2> QED BY <1>5, <2>1, <2>2
<1>12. DOMAIN s.places = 1..n /\ s.places = [i \in 1..n |-> s.places[i]]
  BY <1>3, <1>10
<1>13. s.places \in Seq(PlaceType)
  <2>1. \A i \in 1..n : s.places[i] \in PlaceType
    BY <1>2, <1>11
  <2> QED BY <1>12, <2>1
<1>14. \A p \in Range(t.places) : \E i \in 1..n : s.places[i] = p
  <2> SUFFICES ASSUME NEW p \in Range(t.places) PROVE \E i \in 1..n : s.places[i] = p
    OBVIOUS
  <2>1. PICK i \in 1..n : sorted[i] = Row(p)
    BY <1>9, <1>10
  <2>2. s.places[i] = Loaded(sorted[i])
    BY <1>3, <1>10
  <2> QED BY <1>5, <2>1, <2>2
<1>15. Range(s.places) = Range(t.places)
  <2> DEFINE all == Range(t.places)
  <2>1. (\A i \in 1..n : s.places[i] \in all) /\ \A p \in all : \E i \in 1..n : s.places[i] = p
    BY <1>11, <1>14
  <2> HIDE DEF all
  <2>2. Range(s.places) = all
    BY <1>12, <2>1 DEF Range
  <2> QED BY <2>2 DEF all
<1>16. ASSUME NEW i \in 1..n, NEW j \in 1..n, s.places[i] = s.places[j] PROVE i = j
  BY <1>10, <1>11, <1>16
<1>17. KeysHold(s.places)
  <2> SUFFICES ASSUME NEW i \in 1..n, NEW j \in 1..n, s.places[i].id = s.places[j].id PROVE i = j
    BY <1>12 DEF KeysHold
  <2>1. s.places[i] = s.places[j]
    BY <1>1, <1>11, OneOfAKey
  <2> QED BY <1>16, <2>1
<1>18. OneLabelEach(t.places) => OneLabelEach(s.places)
  <2> SUFFICES ASSUME OneLabelEach(t.places), NEW i \in 1..n, NEW j \in 1..n, s.places[i].label = s.places[j].label
               PROVE  i = j
    BY <1>12 DEF OneLabelEach
  <2>1. PICK x \in DOMAIN t.places : t.places[x] = s.places[i]
    BY <1>11 DEF Range
  <2>2. PICK y \in DOMAIN t.places : t.places[y] = s.places[j]
    BY <1>11 DEF Range
  <2>3. s.places[i] = s.places[j]
    BY <2>1, <2>2 DEF OneLabelEach
  <2> QED BY <1>16, <2>3
<1> QED BY <1>13, <1>15, <1>17, <1>18

\* A set of assets as the list that is loaded.
LEMMA AscendingLists ==
  ASSUME NEW S, S \subseteq Assets, ViewsAssumption
  PROVE  Ascending(S) \in Seq(Assets) /\ Range(Ascending(S)) = S
<1> DEFINE number == [n \in S |-> n]
           N == Cardinality(S)
<1>1. IsFiniteSet(S) /\ N \in Nat
  BY FS_Subset, FS_CardinalityType DEF ViewsAssumption
<1>2. \A x \in S : number[x] \in Nat
  BY FS_CardinalityType DEF ViewsAssumption
<1>3. Ascending(S) = SortedBy(S, number)
  BY DEF Ascending
<1> HIDE DEF number
<1>4. /\ Ascending(S) \in [1..N -> S]
      /\ \A x \in S : \E i \in 1..N : Ascending(S)[i] = x
  BY <1>1, <1>2, <1>3, SortedIsComplete
<1> DEFINE list == Ascending(S)
<1> HIDE DEF list, N
<1>5. list \in [1..N -> S] /\ \A x \in S : \E i \in 1..N : list[i] = x
  BY <1>4 DEF list
<1>6. list \in Seq(Assets)
  <2>1. list \in [1..N -> Assets]
    BY <1>5
  <2> QED BY <1>1, <2>1
<1>7. Range(list) = S
  BY <1>5 DEF Range
<1> QED BY <1>6, <1>7 DEF list

\* The events are the same but for the order of their assets.
LEMMA LoadedEvents ==
  ASSUME NEW t, Base(t), ViewsAssumption, NEW s, s = load_state(SavedRows(t))
  PROVE  /\ s.events \in Seq(EventType) /\ KeysHold(s.events) /\ Apart(s.events)
         /\ SameEvents(s.events, t.events)
<1>1. t.events \in Seq(EventType) /\ KeysHold(t.events) /\ Apart(t.events)
  BY DEF Base, LibType
<1>2. \A e \in Range(t.events) : e \in EventType /\ Range(e.assets) \subseteq Assets
  <2>1. \A i \in DOMAIN t.events : t.events[i] \in EventType
    BY <1>1
  <2>2. \A e \in Range(t.events) : e \in EventType
    BY <2>1 DEF Range
  <2>3. \A list \in Seq(Assets) : Range(list) \subseteq Assets
    BY DEF Range
  <2> QED BY <2>2, <2>3 DEF EventType
<1> DEFINE Row(e) == [id |-> e.id, titled |-> e.titled, place |-> e.place, people |-> e.people]
           rows == {Row(e) : e \in Range(t.events)}
           number == [row \in rows |-> row.id]
           sorted == SortedBy(rows, number)
           RowsUnder(id) == {m[2] : m \in {n \in SavedRows(t).event_assets : n[1] = id}}
           Loaded(row) == [id |-> row.id, titled |-> row.titled, place |-> row.place, people |-> row.people,
                           assets |-> Ascending(RowsUnder(row.id))]
<1>3. s.events = [i \in DOMAIN sorted |-> Loaded(sorted[i])]
  <2>1. SavedRows(t).event_clusters = rows
    BY DEF SavedRows, SaveEvents
  <2>2. s.events = LoadEvents(SavedRows(t))
    BY DEF load_state
  <2> HIDE DEF rows
  <2> QED BY <2>1, <2>2, Zenon DEF LoadEvents
<1>4. \A e \in Range(t.events) : RowsUnder(e.id) = Range(e.assets)
  <2>1. SavedRows(t).event_assets = UNION {{e.id} \X Range(e.assets) : e \in Range(t.events)}
    BY DEF SavedRows, SaveEvents
  <2> QED BY <1>1, <2>1, MembersOfEvents
<1>5. \A e \in Range(t.events) : Loaded(Row(e)) \in EventType /\ SameEvent(Loaded(Row(e)), e)
  <2> SUFFICES ASSUME NEW e \in Range(t.events)
               PROVE  Loaded(Row(e)) \in EventType /\ SameEvent(Loaded(Row(e)), e)
    OBVIOUS
  <2>1. RowsUnder(e.id) = Range(e.assets) /\ e \in EventType
    BY <1>2, <1>4
  <2>2. Ascending(RowsUnder(e.id)) \in Seq(Assets) /\ Range(Ascending(RowsUnder(e.id))) = Range(e.assets)
    BY <1>2, <2>1, AscendingLists
  <2> DEFINE list == Ascending(RowsUnder(e.id))
  <2>3. Loaded(Row(e)) = [id |-> e.id, titled |-> e.titled, place |-> e.place, people |-> e.people, assets |-> list]
    OBVIOUS
  <2> HIDE DEF Loaded, Row, list, RowsUnder
  <2> QED BY <2>1, <2>2, <2>3 DEF EventType, SameEvent, list
<1>6. IsFiniteSet(rows)
  <2>1. IsFiniteSet(Range(t.events))
    BY <1>1, IdsAreFinite
  <2> DEFINE pick == [e \in Range(t.events) |-> Row(e)]
  <2>2. pick \in Surjection(Range(t.events), rows)
    BY DEF Surjection
  <2> QED BY <2>1, <2>2, FS_Surjection
<1>7. \A row \in rows : number[row] \in Nat
  <2> SUFFICES ASSUME NEW e \in Range(t.events) PROVE number[Row(e)] \in Nat
    OBVIOUS
  <2>1. e.id \in Nat
    BY <1>2 DEF EventType
  <2>2. Row(e).id = e.id /\ Row(e) \in rows
    OBVIOUS
  <2> HIDE DEF rows, Row
  <2> QED BY <2>1, <2>2
<1> HIDE DEF RowsUnder, Loaded, Row
<1>8. \A row \in rows : \E e \in Range(t.events) : row = Row(e)
  OBVIOUS
<1>9. \A e \in Range(t.events) : Row(e) \in rows
  OBVIOUS
<1> HIDE DEF rows, number
<1>10. PICK n \in Nat : /\ DOMAIN sorted = 1..n
                        /\ \A i \in 1..n : sorted[i] \in rows
                        /\ \A i, j \in 1..n : sorted[i] = sorted[j] => i = j
                        /\ \A x \in rows : \E i \in 1..n : sorted[i] = x
  BY <1>6, <1>7, RowsInOrder
<1> HIDE DEF sorted
<1>11. \A i \in 1..n : s.events[i] \in EventType /\ \E e \in Range(t.events) : SameEvent(s.events[i], e) /\ sorted[i] = Row(e)
  <2> SUFFICES ASSUME NEW i \in 1..n
               PROVE  s.events[i] \in EventType /\ \E e \in Range(t.events) : SameEvent(s.events[i], e) /\ sorted[i] = Row(e)
    OBVIOUS
  <2>1. PICK e \in Range(t.events) : sorted[i] = Row(e)
    BY <1>8, <1>10
  <2>2. s.events[i] = Loaded(sorted[i])
    BY <1>3, <1>10
  <2> QED BY <1>5, <2>1, <2>2
<1>12. DOMAIN s.events = 1..n /\ s.events = [i \in 1..n |-> s.events[i]]
  BY <1>3, <1>10
<1>13. s.events \in Seq(EventType)
  <2>1. \A i \in 1..n : s.events[i] \in EventType
    BY <1>11
  <2> QED BY <1>12, <2>1
<1>14. \A e \in Range(t.events) : \E i \in 1..n : SameEvent(s.events[i], e)
  <2> SUFFICES ASSUME NEW e \in Range(t.events) PROVE \E i \in 1..n : SameEvent(s.events[i], e)
    OBVIOUS
  <2>1. PICK i \in 1..n : sorted[i] = Row(e)
    BY <1>9, <1>10
  <2>2. s.events[i] = Loaded(sorted[i])
    BY <1>3, <1>10
  <2> QED BY <1>5, <2>1, <2>2
<1>15. SameEvents(s.events, t.events)
  <2>1. \A f \in Range(s.events) : \E i \in 1..n : s.events[i] = f
    BY <1>12 DEF Range
  <2>2. \A i \in 1..n : s.events[i] \in Range(s.events)
    BY <1>12 DEF Range
  <2> QED BY <1>11, <1>14, <2>1, <2>2 DEF SameEvents
<1>16. KeysHold(s.events)
  <2> SUFFICES ASSUME NEW i \in 1..n, NEW j \in 1..n, s.events[i].id = s.events[j].id PROVE i = j
    BY <1>12 DEF KeysHold
  <2>1. PICK e \in Range(t.events) : SameEvent(s.events[i], e) /\ sorted[i] = Row(e)
    BY <1>11
  <2>2. PICK f \in Range(t.events) : SameEvent(s.events[j], f) /\ sorted[j] = Row(f)
    BY <1>11
  <2>3. e = f
    <3>1. e.id = f.id
      BY <2>1, <2>2 DEF SameEvent
    <3> QED BY <1>1, <3>1, OneOfAKey
  <2> QED BY <1>10, <2>1, <2>2, <2>3
<1>17. Apart(s.events)
  <2> SUFFICES ASSUME NEW i \in 1..n, NEW j \in 1..n, Range(s.events[i].assets) = Range(s.events[j].assets) PROVE i = j
    BY <1>12 DEF Apart
  <2>1. PICK e \in Range(t.events) : SameEvent(s.events[i], e) /\ sorted[i] = Row(e)
    BY <1>11
  <2>2. PICK f \in Range(t.events) : SameEvent(s.events[j], f) /\ sorted[j] = Row(f)
    BY <1>11
  <2>3. Range(e.assets) = Range(f.assets)
    BY <2>1, <2>2 DEF SameEvent
  <2>4. PICK x \in DOMAIN t.events : t.events[x] = e
    BY DEF Range
  <2>5. PICK y \in DOMAIN t.events : t.events[y] = f
    BY DEF Range
  <2>6. e = f
    BY <1>1, <2>3, <2>4, <2>5 DEF Apart
  <2> QED BY <1>10, <2>1, <2>2, <2>6
<1> QED BY <1>13, <1>15, <1>16, <1>17

\* What is loaded is as what was saved.
LEMMA LoadedIsDerived ==
  ASSUME NEW t, Derived(t), ViewsAssumption, NEW s, s = load_state(SavedRows(t))
  PROVE  /\ Derived(s) /\ Agree(s, t) /\ Range(s.places) = Range(t.places) /\ SameEvents(s.events, t.events)
<1>1. Base(t) /\ PlacesTold(t, t.places) /\ EventsTold(t, t.places, t.events) /\ HiddenSettled(t)
  BY DEF Derived
<1>2. Agree(s, t)
  BY <1>1, LoadedAssets
<1>3. /\ s.places \in Seq(PlaceType) /\ Range(s.places) = Range(t.places) /\ KeysHold(s.places)
      /\ OneLabelEach(t.places) => OneLabelEach(s.places)
  BY <1>1, LoadedPlaces
<1>4. /\ s.events \in Seq(EventType) /\ KeysHold(s.events) /\ Apart(s.events)
      /\ SameEvents(s.events, t.events)
  BY <1>1, LoadedEvents
<1>5. s \in LibType
  <2>1. s = [assets |-> s.assets, hour |-> s.hour, hint |-> s.hint, geo |-> s.geo,
             places |-> s.places, events |-> s.events, people |-> s.people]
    BY DEF load_state
  <2> QED BY <1>1, <1>2, <1>3, <1>4, <2>1 DEF Base, LibType, Agree
<1>6. Base(s)
  BY <1>1, <1>2, <1>3, <1>4, <1>5 DEF Base, Agree
<1>7. OneLabelEach(s.places)
  BY <1>1, <1>3 DEF PlacesTold
<1>8. PlacesTold(s, s.places) /\ HiddenSettled(s) /\ EventsTold(s, s.places, t.events)
  BY <1>1, <1>2, <1>3, <1>7, AgreementTells
<1>9. EventsTold(s, s.places, s.events)
  BY <1>4, <1>8 DEF EventsTold, SameEvents, SameEvent
<1> QED BY <1>2, <1>3, <1>4, <1>6, <1>8, <1>9 DEF Derived

-----------------------------------------------------------------------------
(***************************************************************************)
(* The invariant, and what a handler has to show for it.                   *)
(***************************************************************************)
ViewsInv ==
    /\ Derived(lib) /\ viewCalls \in Nat /\ viewFaults \in Nat
    /\ hidden \subseteq Assets /\ \A a \in hidden : lib.geo[a].hidden
    /\ \E t : Derived(t) /\ store = SavedRows(t) /\ \A a \in hidden : t.geo[a].hidden

\* A library that a handler may leave.
Sound(l, ask) ==
    /\ Derived(l) /\ TitlesHold(lib.events, l.events)
    /\ ask \subseteq Assets /\ \A a \in ask : l.geo[a].hidden

\* What was saved is finite.
LEMMA SavedIsFinite ==
  ASSUME ViewsInv
  PROVE  StoreIsFinite
<1>1. PICK t : Derived(t) /\ store = SavedRows(t)
  BY DEF ViewsInv
<1>2. t.places \in Seq(PlaceType) /\ t.events \in Seq(EventType)
  BY <1>1 DEF Derived, Base, LibType
<1>3. IsFiniteSet(Ids(t.places)) /\ IsFiniteSet(Ids(t.events))
      /\ Ids(t.places) = {p.id : p \in Range(t.places)} /\ Ids(t.events) = {e.id : e \in Range(t.events)}
  BY <1>2, IdsAreFinite
<1>4. StoredPlaces = {p.id : p \in Range(t.places)}
  <2> DEFINE rows == {[id |-> p.id, label |-> p.label, pins |-> p.pins] : p \in Range(t.places)}
  <2>1. store.place_clusters = rows
    BY <1>1 DEF SavedRows, SavePlaces
  <2>2. \A row \in rows : \E p \in Range(t.places) : row.id = p.id
    <3> DEFINE all == Range(t.places)
    <3> HIDE DEF all
    <3> QED OBVIOUS
  <2>3. \A p \in Range(t.places) : \E row \in rows : row.id = p.id
    <3> SUFFICES ASSUME NEW p \in Range(t.places) PROVE \E row \in rows : row.id = p.id
      OBVIOUS
    <3> DEFINE mine == [id |-> p.id, label |-> p.label, pins |-> p.pins]
    <3>1. mine \in rows /\ mine.id = p.id
      OBVIOUS
    <3> HIDE DEF rows, mine
    <3> QED BY <3>1
  <2> HIDE DEF rows
  <2>4. {row.id : row \in rows} = {p.id : p \in Range(t.places)}
    BY <2>2, <2>3
  <2> QED BY <2>1, <2>4 DEF StoredPlaces
<1>5. StoredEvents = {e.id : e \in Range(t.events)}
  <2> DEFINE rows == {[id |-> e.id, titled |-> e.titled, place |-> e.place, people |-> e.people] : e \in Range(t.events)}
  <2>1. store.event_clusters = rows
    BY <1>1 DEF SavedRows, SaveEvents
  <2>2. \A row \in rows : \E e \in Range(t.events) : row.id = e.id
    <3> DEFINE all == Range(t.events)
    <3> HIDE DEF all
    <3> QED OBVIOUS
  <2>3. \A e \in Range(t.events) : \E row \in rows : row.id = e.id
    <3> SUFFICES ASSUME NEW e \in Range(t.events) PROVE \E row \in rows : row.id = e.id
      OBVIOUS
    <3> DEFINE mine == [id |-> e.id, titled |-> e.titled, place |-> e.place, people |-> e.people]
    <3>1. mine \in rows /\ mine.id = e.id
      OBVIOUS
    <3> HIDE DEF rows, mine
    <3> QED BY <3>1
  <2> HIDE DEF rows
  <2>4. {row.id : row \in rows} = {e.id : e \in Range(t.events)}
    BY <2>2, <2>3
  <2> QED BY <2>1, <2>4 DEF StoredEvents
<1> QED BY <1>3, <1>4, <1>5 DEF StoreIsFinite

\* The end of a handler, whether the save succeeds or not.
LEMMA Answered ==
  ASSUME ViewsInv, NEW l, NEW ask, Sound(l, ask), Answer(l, ask) \/ Unsaved(l, ask)
  PROVE  ViewsInv' /\ TitlesHold(lib.events, lib'.events) /\ viewCalls' # viewCalls
<1>1. lib' = l /\ viewCalls' = viewCalls + 1 /\ viewFaults' \in Nat
  BY DEF Answer, Unsaved, ViewsInv
<1>2. \/ store' = SavedRows(l) /\ hidden' = ask
      \/ store' = store /\ hidden' = hidden \cap ask
  BY DEF Answer, Unsaved
<1>3. /\ Derived(l) /\ TitlesHold(lib.events, l.events) /\ ask \subseteq Assets /\ \A a \in ask : l.geo[a].hidden
  BY DEF Sound
<1>4. \E t : Derived(t) /\ store' = SavedRows(t) /\ \A a \in hidden' : t.geo[a].hidden
  <2>1. CASE store' = SavedRows(l) /\ hidden' = ask
    BY <1>3, <2>1
  <2>2. CASE store' = store /\ hidden' = hidden \cap ask
    BY <2>2 DEF ViewsInv
  <2> QED BY <1>2, <2>1, <2>2
<1>5. hidden' \subseteq Assets /\ \A a \in hidden' : lib'.geo[a].hidden
  BY <1>1, <1>2, <1>3
<1>6. viewCalls \in Nat
  BY DEF ViewsInv
<1>7. Derived(lib)' = Derived(l)
  BY <1>1 DEF Derived, Base, PlacesTold, EventsTold, HiddenSettled, PeopleIds
<1> QED BY <1>1, <1>3, <1>4, <1>5, <1>6 DEF ViewsInv

\* A handler that derives the views again.
LEMMA DerivedAgainIsSound ==
  ASSUME ViewsInv, ViewsAssumption, NEW l, Base(l), l.events = lib.events,
         NEW ask, ask \subseteq Assets, \A a \in ask : l.geo[a].hidden
  PROVE  Sound(refresh_derived_views(l), ask)
<1> DEFINE k == refresh_derived_views(l)
<1>1. Derived(k) /\ k.geo = l.geo /\ AllKept(k.events, l.events)
  BY SavedIsFinite, Refreshed
<1> HIDE DEF k
<1>2. TitlesHold(lib.events, k.events)
  <2>1. Apart(lib.events)
    BY DEF ViewsInv, Derived, Base
  <2> QED BY <1>1, <2>1, KeptTitles
<1>3. Sound(k, ask)
  BY <1>1, <1>2 DEF Sound
<1> QED BY <1>3 DEF k

\* A handler that changes titles and the people that events link, and no more.
Relinked(k, l) ==
    /\ k.assets = l.assets /\ k.hour = l.hour /\ k.hint = l.hint /\ k.geo = l.geo /\ k.places = l.places
    /\ k.people \subseteq PersonType /\ IsFiniteSet(k.people)
    /\ k.events \in Seq(EventType) /\ DOMAIN k.events = DOMAIN l.events
    /\ \A i \in DOMAIN l.events :
          /\ k.events[i].id = l.events[i].id /\ k.events[i].assets = l.events[i].assets
          /\ k.events[i].place = l.events[i].place
          /\ l.events[i].titled => k.events[i].titled
          /\ k.events[i].people \subseteq PeopleIds(k)

\* A library whose events only change people and gain titles stays derived.
LEMMA RelinkedIsDerived ==
  ASSUME NEW l, Derived(l), NEW k, k \in LibType, Relinked(k, l)
  PROVE  Derived(k) /\ TitlesHold(l.events, k.events)
<1>1. /\ k.assets = l.assets /\ k.hour = l.hour /\ k.hint = l.hint /\ k.geo = l.geo /\ k.places = l.places
      /\ IsFiniteSet(k.people) /\ k.events \in Seq(EventType) /\ DOMAIN k.events = DOMAIN l.events
      /\ \A i \in DOMAIN l.events :
            /\ k.events[i].id = l.events[i].id /\ k.events[i].assets = l.events[i].assets
            /\ k.events[i].place = l.events[i].place
            /\ l.events[i].titled => k.events[i].titled
            /\ k.events[i].people \subseteq PeopleIds(k)
  BY DEF Relinked
<1>2. Base(l) /\ PlacesTold(l, l.places) /\ EventsTold(l, l.places, l.events) /\ HiddenSettled(l)
  BY DEF Derived
<1>3. KeysHold(k.events) /\ Apart(k.events)
  BY <1>1, <1>2 DEF Base, KeysHold, Apart
<1>4. Base(k)
  BY <1>1, <1>2, <1>3 DEF Base
<1>5. PlacesTold(k, k.places)
  <2>1. \A label : Here(k, label) = Here(l, label)
    BY <1>1 DEF Here, Hint
  <2>2. \A S : PinsOf(k, S) = PinsOf(l, S)
    BY <1>1 DEF PinsOf
  <2>3. \A x : PlaceFits(l, x) => PlaceFits(k, x)
    BY <2>1, <2>2 DEF PlaceFits
  <2> QED BY <1>1, <1>2, <2>1, <2>3 DEF PlacesTold
<1>6. EventsTold(k, k.places, k.events)
  <2>1. cluster_assets(k) = cluster_assets(l)
    BY <1>1, ClustersFollow
  <2>2. \A c : EventPlace(k, k.places, c) = EventPlace(l, l.places, c)
    BY <1>1, EventPlaceFollows
  <2>3. ASSUME NEW e \in Range(k.events)
        PROVE  /\ \E c \in Range(cluster_assets(k)) : Range(c) = Range(e.assets) /\ e.place = EventPlace(k, k.places, c)
               /\ e.people \subseteq PeopleIds(k)
    <3>1. PICK i \in DOMAIN l.events : k.events[i] = e
      BY <1>1 DEF Range
    <3>2. l.events[i] \in Range(l.events)
      BY DEF Range
    <3>3. PICK c \in Range(cluster_assets(l)) :
             Range(c) = Range(l.events[i].assets) /\ l.events[i].place = EventPlace(l, l.places, c)
      BY <1>2, <3>2 DEF EventsTold
    <3>4. e.assets = l.events[i].assets /\ e.place = l.events[i].place /\ e.people \subseteq PeopleIds(k)
      BY <1>1, <3>1
    <3> QED BY <2>1, <2>2, <3>3, <3>4
  <2>4. ASSUME NEW c \in Range(cluster_assets(k)) PROVE \E e \in Range(k.events) : Range(e.assets) = Range(c)
    <3>1. PICK e \in Range(l.events) : Range(e.assets) = Range(c)
      BY <1>2, <2>1 DEF EventsTold
    <3>2. PICK i \in DOMAIN l.events : l.events[i] = e
      BY DEF Range
    <3>3. k.events[i] \in Range(k.events)
      BY <1>1 DEF Range
    <3>4. k.events[i].assets = e.assets
      BY <1>1, <3>2
    <3> QED BY <3>1, <3>3, <3>4
  <2> QED BY <2>3, <2>4 DEF EventsTold
<1>7. HiddenSettled(k)
  BY <1>1, <1>2 DEF HiddenSettled
<1>8. TitlesHold(l.events, k.events)
  <2> SUFFICES ASSUME NEW e \in Range(l.events), e.titled, NEW f \in Range(k.events), Range(f.assets) = Range(e.assets)
               PROVE  f.id = e.id /\ f.titled
    BY DEF TitlesHold
  <2>1. PICK i \in DOMAIN l.events : l.events[i] = e
    BY DEF Range
  <2>2. PICK j \in DOMAIN l.events : k.events[j] = f
    BY <1>1 DEF Range
  <2>3. Range(l.events[j].assets) = Range(l.events[i].assets)
    BY <1>1, <2>1, <2>2
  <2>4. i = j
    BY <1>2, <2>3 DEF Base, Apart
  <2> QED BY <1>1, <2>1, <2>2, <2>4
<1> QED BY <1>4, <1>5, <1>6, <1>7, <1>8 DEF Derived

-----------------------------------------------------------------------------
(***************************************************************************)
(* The handlers, one by one.                                               *)
(***************************************************************************)

\* What the invariant says of the library in memory.
LEMMA LibIsBase ==
  ASSUME ViewsInv
  PROVE  /\ Base(lib) /\ Derived(lib) /\ lib \in LibType
         /\ lib.assets \subseteq Assets /\ lib.hour \in [Assets -> Nat] /\ lib.hint \in [Assets -> Labels \cup {Unknown}]
         /\ lib.geo \in [Assets -> GeoType] /\ lib.places \in Seq(PlaceType) /\ lib.events \in Seq(EventType)
         /\ lib.people \subseteq PersonType /\ IsFiniteSet(lib.people)
         /\ hidden \subseteq Assets /\ \A a \in hidden : lib.geo[a].hidden
<1>1. Base(lib) /\ Derived(lib) /\ hidden \subseteq Assets /\ \A a \in hidden : lib.geo[a].hidden
  BY DEF ViewsInv, Derived
<1>2. lib \in LibType /\ IsFiniteSet(lib.people)
  BY <1>1 DEF Base
<1> QED BY <1>1, <1>2 DEF LibType

ArrivedWith(l, a, hour, geo) ==
    [l EXCEPT !.assets = @ \cup {a}, !.hour[a] = hour, !.geo[a] = [at |-> geo, hidden |-> FALSE],
              !.hint[a] = IF geo = Unknown THEN Unknown ELSE gps_place_hint(geo)]

\* An import (import_paths and its refresh of the views).
LEMMA ImportKeeps ==
  ASSUME ViewsInv, ViewsAssumption, NEW a \in Assets, NEW hour \in Hours, NEW geo \in Coords \cup {Unknown},
         ImportAsset(a, hour, geo)
  PROVE  ViewsInv' /\ TitlesHold(lib.events, lib'.events) /\ viewCalls' # viewCalls
<1> DEFINE l == ArrivedWith(lib, a, hour, geo)
           place == IF geo = Unknown THEN Unknown ELSE gps_place_hint(geo)
           at == [at |-> geo, hidden |-> FALSE]
<1>1. a \notin lib.assets /\ Answer(refresh_derived_views(l), hidden)
  BY DEF ImportAsset, ArrivedWith
<1>2. /\ l.assets = lib.assets \cup {a} /\ l.hour = [lib.hour EXCEPT ![a] = hour]
      /\ l.geo = [lib.geo EXCEPT ![a] = at] /\ l.hint = [lib.hint EXCEPT ![a] = place]
      /\ l.places = lib.places /\ l.events = lib.events /\ l.people = lib.people
      /\ l = [assets |-> l.assets, hour |-> l.hour, hint |-> l.hint, geo |-> l.geo,
              places |-> l.places, events |-> l.events, people |-> l.people]
  <2>1. lib \in LibType
    BY LibIsBase
  <2>2. l = [lib EXCEPT !.assets = @ \cup {a}, !.hour[a] = hour, !.geo[a] = at, !.hint[a] = place]
    BY DEF ArrivedWith
  <2> HIDE DEF l, place, at
  <2> QED BY ONLY <2>1, <2>2 DEF LibType
<1>3. place \in Labels \cup {Unknown} /\ hour \in Nat /\ at \in GeoType /\ ~at.hidden
  BY DEF ViewsAssumption, gps_place_hint, GeoType
<1> HIDE DEF l, place, at
<1>4. l \in LibType
  <2>1. l.assets \subseteq Assets /\ l.hour \in [Assets -> Nat] /\ l.hint \in [Assets -> Labels \cup {Unknown}]
    BY <1>2, <1>3, LibIsBase
  <2>2. l.geo \in [Assets -> GeoType] /\ l.places \in Seq(PlaceType) /\ l.events \in Seq(EventType)
        /\ l.people \subseteq PersonType
    BY <1>2, <1>3, LibIsBase
  <2> QED BY <1>2, <2>1, <2>2 DEF LibType
<1>5. Base(l)
  BY <1>2, <1>3, <1>4, LibIsBase DEF Base
<1>6. \A x \in hidden : l.geo[x].hidden
  <2>1. lib.geo[a] = NoGeo
    BY <1>1, LibIsBase DEF Base
  <2> QED BY <1>2, <2>1, LibIsBase DEF NoGeo
<1>7. Sound(refresh_derived_views(l), hidden)
  BY <1>2, <1>5, <1>6, LibIsBase, DerivedAgainIsSound
<1> QED BY <1>1, <1>7, Answered

DatedAt(l, a, hour) == [l EXCEPT !.hour[a] = hour]

\* A corrected date (correct_asset_date).
LEMMA DateKeeps ==
  ASSUME ViewsInv, ViewsAssumption, NEW a \in Assets, NEW hour \in Hours, correct_asset_date(a, hour)
  PROVE  ViewsInv' /\ TitlesHold(lib.events, lib'.events) /\ viewCalls' # viewCalls
<1> DEFINE l == DatedAt(lib, a, hour)
<1>1. a \in lib.assets /\ Answer(refresh_derived_views(l), hidden)
  BY DEF correct_asset_date, DatedAt
<1>2. /\ l.assets = lib.assets /\ l.hour = [lib.hour EXCEPT ![a] = hour]
      /\ l.geo = lib.geo /\ l.hint = lib.hint
      /\ l.places = lib.places /\ l.events = lib.events /\ l.people = lib.people
      /\ l = [assets |-> l.assets, hour |-> l.hour, hint |-> l.hint, geo |-> l.geo,
              places |-> l.places, events |-> l.events, people |-> l.people]
  <2>1. lib \in LibType
    BY LibIsBase
  <2>2. l = [lib EXCEPT !.hour[a] = hour]
    BY DEF DatedAt
  <2> HIDE DEF l
  <2> QED BY ONLY <2>1, <2>2 DEF LibType
<1> HIDE DEF l
<1>3. hour \in Nat
  BY DEF ViewsAssumption
<1>4. l \in LibType
  <2>1. /\ lib.assets \subseteq Assets /\ lib.hour \in [Assets -> Nat] /\ lib.hint \in [Assets -> Labels \cup {Unknown}]
        /\ lib.geo \in [Assets -> GeoType] /\ lib.places \in Seq(PlaceType) /\ lib.events \in Seq(EventType)
        /\ lib.people \subseteq PersonType
    BY LibIsBase
  <2>2. l.hour \in [Assets -> Nat]
    BY <1>2, <1>3, <2>1
  <2> QED BY <1>2, <2>1, <2>2 DEF LibType
<1>5. Base(l)
  BY <1>1, <1>2, <1>3, <1>4, LibIsBase DEF Base
<1>6. Sound(refresh_derived_views(l), hidden)
  BY <1>2, <1>5, LibIsBase, DerivedAgainIsSound
<1> QED BY <1>1, <1>6, Answered

ReadAgain ==
    [lib EXCEPT !.hour = [a \in Assets |-> IF a \in lib.assets /\ Exif(a, ExifHour) # Unknown
                                           THEN ExifHour[a] ELSE lib.hour[a]],
                !.hint = [a \in Assets |-> IF a \in lib.assets THEN RebuiltHint(a) ELSE @[a]],
                !.geo = [a \in Assets |-> IF a \in lib.assets
                             THEN preserve_hidden_geo(@[a], Exif(a, ExifGeo)) ELSE @[a]]]

\* Metadata read again from the originals (rebuild_metadata).
LEMMA MetadataKeeps ==
  ASSUME ViewsInv, ViewsAssumption, rebuild_metadata
  PROVE  ViewsInv' /\ TitlesHold(lib.events, lib'.events) /\ viewCalls' # viewCalls
<1> DEFINE l == ReadAgain
           hour == [a \in Assets |-> IF a \in lib.assets /\ Exif(a, ExifHour) # Unknown THEN ExifHour[a] ELSE lib.hour[a]]
           hint == [a \in Assets |-> IF a \in lib.assets THEN RebuiltHint(a) ELSE lib.hint[a]]
           geo == [a \in Assets |-> IF a \in lib.assets THEN preserve_hidden_geo(lib.geo[a], Exif(a, ExifGeo)) ELSE lib.geo[a]]
<1>1. Answer(refresh_derived_views(l), hidden)
  BY DEF rebuild_metadata, ReadAgain
<1>2. /\ l.assets = lib.assets /\ l.hour = hour /\ l.hint = hint /\ l.geo = geo
      /\ l.places = lib.places /\ l.events = lib.events /\ l.people = lib.people
      /\ l = [assets |-> l.assets, hour |-> l.hour, hint |-> l.hint, geo |-> l.geo,
              places |-> l.places, events |-> l.events, people |-> l.people]
  <2>1. lib \in LibType
    BY LibIsBase
  <2>2. l = [lib EXCEPT !.hour = hour, !.hint = hint, !.geo = geo]
    BY DEF ReadAgain
  <2> HIDE DEF l, hour, hint, geo
  <2> QED BY ONLY <2>1, <2>2 DEF LibType
<1> HIDE DEF l
<1>3. \A a \in Assets : Exif(a, ExifGeo) \in Coords \cup {Unknown} /\ ExifHour[a] \in Nat
  <2>1. \A a \in Assets : ExifGeo[a] \in Coords \cup {0} /\ ExifHour[a] \in Hours \cup {0} /\ Hours \subseteq Nat
    BY DEF ViewsAssumption
  <2> SUFFICES ASSUME NEW a \in Assets PROVE Exif(a, ExifGeo) \in Coords \cup {Unknown} /\ ExifHour[a] \in Nat
    OBVIOUS
  <2>2. ExifGeo[a] \in Coords \cup {Unknown} /\ ExifHour[a] \in Nat
    <3>1. ExifGeo[a] \in Coords \cup {0}
      BY <2>1
    <3>2. ExifHour[a] \in Hours \cup {0} /\ Hours \subseteq Nat
      BY <2>1
    <3>3. ExifHour[a] \in Nat
      <4> DEFINE said == ExifHour[a]
      <4>1. said \in Hours \cup {0} /\ Hours \subseteq Nat
        BY <3>2
      <4>2. {0} \subseteq Nat
        OBVIOUS
      <4> HIDE DEF said
      <4>3. said \in Nat
        BY <4>1, <4>2, Zenon
      <4> QED BY <4>3 DEF said
    <3>4. ExifGeo[a] \in Coords \cup {Unknown}
      BY <3>1 DEF Unknown
    <3> QED BY <3>3, <3>4
  <2>3. Exif(a, ExifGeo) = ExifGeo[a] \/ Exif(a, ExifGeo) = Unknown
    BY DEF Exif
  <2> QED BY <2>2, <2>3
<1>4. hour \in [Assets -> Nat]
  BY <1>3, LibIsBase
<1>5. hint \in [Assets -> Labels \cup {Unknown}]
  <2>1. \A a \in Assets : RebuiltHint(a) \in Labels \cup {Unknown}
    BY <1>3, LibIsBase DEF RebuiltHint, gps_place_hint, ViewsAssumption
  <2> QED BY <2>1, LibIsBase
<1>6. /\ geo \in [Assets -> GeoType]
      /\ \A a \in Assets : geo[a].hidden => geo[a].at # Unknown
      /\ \A a \in Assets : lib.geo[a].hidden => geo[a].hidden
  <2>1. ASSUME NEW a \in Assets, NEW g \in Coords \cup {Unknown}
        PROVE  /\ preserve_hidden_geo(lib.geo[a], g) \in GeoType
               /\ preserve_hidden_geo(lib.geo[a], g).hidden => preserve_hidden_geo(lib.geo[a], g).at # Unknown
               /\ lib.geo[a].hidden => preserve_hidden_geo(lib.geo[a], g).hidden
    <3>1. lib.geo[a] \in GeoType /\ (lib.geo[a].hidden => lib.geo[a].at # Unknown)
      BY LibIsBase DEF Base
    <3> QED BY <3>1 DEF preserve_hidden_geo, GeoType
  <2>2. \A a \in Assets : lib.geo[a] \in GeoType /\ (lib.geo[a].hidden => lib.geo[a].at # Unknown)
    BY LibIsBase DEF Base
  <2> QED BY <1>3, <2>1, <2>2
<1>7. \A a \in Assets : a \notin lib.assets => hour[a] = lib.hour[a] /\ hint[a] = lib.hint[a] /\ geo[a] = lib.geo[a]
  OBVIOUS
<1> HIDE DEF hour, hint, geo
<1>8. l \in LibType
  BY <1>2, <1>4, <1>5, <1>6, LibIsBase DEF LibType
<1>9. Base(l)
  BY <1>2, <1>6, <1>7, <1>8, LibIsBase DEF Base
<1>10. Sound(refresh_derived_views(l), hidden)
  BY <1>2, <1>6, <1>9, LibIsBase, DerivedAgainIsSound
<1> QED BY <1>1, <1>10, Answered

\* Places derived on demand (rebuild_places).
LEMMA PlacesKeep ==
  ASSUME ViewsInv, ViewsAssumption, rebuild_places
  PROVE  ViewsInv' /\ TitlesHold(lib.events, lib'.events) /\ viewCalls' # viewCalls
<1> DEFINE k == rebuilt_places(lib)
<1>1. Answer(k, hidden)
  BY DEF rebuild_places
<1>2. Base(k) /\ Agree(k, lib) /\ k.events = lib.events /\ PlacesTold(k, k.places) /\ IdsKept(k.places, lib.places)
  BY LibIsBase, SavedIsFinite, PlacesRebuilt
<1> HIDE DEF k
<1>3. PlacesTold(lib, lib.places) /\ EventsTold(lib, lib.places, lib.events) /\ HiddenSettled(lib)
  BY LibIsBase DEF Derived
<1>4. Range(k.places) = Range(lib.places)
  <2>1. OneLabelEach(k.places) /\ Agree(lib, k)
    BY <1>2 DEF PlacesTold, Agree
  <2>2. PlacesTold(lib, k.places)
    BY <1>2, <2>1, AgreementTells
  <2>3. k.places \in Seq(PlaceType)
    BY <1>2 DEF Base, LibType
  <2> QED BY <1>2, <1>3, <2>2, <2>3, LibIsBase, SamePlaces
<1>5. EventsTold(k, k.places, k.events) /\ HiddenSettled(k)
  BY <1>2, <1>3, <1>4, AgreementTells
<1>6. TitlesHold(lib.events, lib.events)
  <2> SUFFICES ASSUME NEW e \in Range(lib.events), e.titled, NEW f \in Range(lib.events), Range(f.assets) = Range(e.assets)
               PROVE  f.id = e.id /\ f.titled
    BY DEF TitlesHold
  <2>1. PICK i \in DOMAIN lib.events : lib.events[i] = e
    BY DEF Range
  <2>2. PICK j \in DOMAIN lib.events : lib.events[j] = f
    BY DEF Range
  <2> QED BY <2>1, <2>2, LibIsBase DEF Base, Apart
<1>7. Sound(k, hidden)
  BY <1>2, <1>5, <1>6, LibIsBase DEF Sound, Derived, Agree
<1> QED BY <1>1, <1>7, Answered

\* Events derived on demand (rebuild_events).
LEMMA EventsKeep ==
  ASSUME ViewsInv, ViewsAssumption, rebuild_events
  PROVE  ViewsInv' /\ TitlesHold(lib.events, lib'.events) /\ viewCalls' # viewCalls
<1> DEFINE k == rebuilt_events(lib)
<1>1. Answer(k, hidden)
  BY DEF rebuild_events
<1>2. Base(k) /\ Agree(k, lib) /\ k.places = lib.places /\ EventsTold(k, k.places, k.events) /\ AllKept(k.events, lib.events)
  BY LibIsBase, SavedIsFinite, EventsRebuilt
<1> HIDE DEF k
<1>3. PlacesTold(lib, lib.places) /\ HiddenSettled(lib)
  BY LibIsBase DEF Derived
<1>4. PlacesTold(k, k.places) /\ HiddenSettled(k)
  <2>1. OneLabelEach(k.places)
    BY <1>2, <1>3 DEF PlacesTold
  <2> QED BY <1>2, <1>3, <2>1, AgreementTells
<1>5. TitlesHold(lib.events, k.events)
  BY <1>2, LibIsBase, KeptTitles DEF Base
<1>6. Sound(k, hidden)
  BY <1>2, <1>4, <1>5, LibIsBase DEF Sound, Derived, Agree
<1> QED BY <1>1, <1>6, Answered

\* An item of a list of places.
LEMMA APlace ==
  ASSUME NEW places \in Seq(PlaceType), NEW i \in DOMAIN places
  PROVE  places[i] \in PlaceType /\ places[i] \in Range(places)
<1>1. places[i] \in PlaceType
  OBVIOUS
<1> QED BY <1>1 DEF Range

\* Another place under the same id.
LEMMA APlaceElse ==
  ASSUME NEW old \in Seq(PlaceType), KeysHold(old), NEW i \in DOMAIN old, NEW place \in PlaceType, place.id = old[i].id,
         NEW places, places = [old EXCEPT ![i] = place]
  PROVE  places \in Seq(PlaceType) /\ KeysHold(places)
<1> DEFINE n == Len(old)
<1>1. DOMAIN old = 1..n /\ n \in Nat /\ DOMAIN places = 1..n
  OBVIOUS
<1>2. places \in Seq(PlaceType)
  BY <1>1
<1>3. \A j \in 1..n : places[j].id = old[j].id
  BY <1>1
<1> QED BY <1>1, <1>2, <1>3 DEF KeysHold

\* What correct_place makes of the library before the views are derived again.
CorrectedTo(i, label, at, hide) ==
    [lib EXCEPT !.places[i].label = label,
                !.hint = [a \in Assets |-> IF a \in lib.places[i].assets THEN label ELSE @[a]],
                !.geo = [a \in Assets |-> IF a \in lib.places[i].assets THEN Corrected(@[a], at, hide) ELSE @[a]]]

\* A corrected place (correct_place): the label, the coordinates, or whether it is shown.
LEMMA CorrectionKeeps ==
  ASSUME ViewsInv, ViewsAssumption, NEW i \in DOMAIN lib.places, NEW label \in Labels,
         NEW at \in Coords \cup {Unknown}, NEW hide \in {"", "hide", "show"}, correct_place(i, label, at, hide)
  PROVE  ViewsInv' /\ TitlesHold(lib.events, lib'.events) /\ viewCalls' # viewCalls
<1> DEFINE l == CorrectedTo(i, label, at, hide)
           after == refresh_derived_views(l)
           members == lib.places[i].assets
           place == [lib.places[i] EXCEPT !.label = label]
           places == [lib.places EXCEPT ![i] = place]
           hint == [a \in Assets |-> IF a \in members THEN label ELSE lib.hint[a]]
           geo == [a \in Assets |-> IF a \in members THEN Corrected(lib.geo[a], at, hide) ELSE lib.geo[a]]
<1>1. Answer(after, Asked(after, members)) \/ Unsaved(after, Asked(after, members))
  BY DEF correct_place, CorrectedTo
<1>2. lib.places[i] \in PlaceType /\ members \subseteq lib.assets
  <2>1. lib.places[i] \in PlaceType /\ lib.places[i] \in Range(lib.places)
    BY LibIsBase, APlace
  <2>2. PlaceFits(lib, lib.places[i])
    BY <2>1, LibIsBase DEF Derived, PlacesTold
  <2> QED BY <2>1, <2>2 DEF PlaceFits, Here
<1>3. place \in PlaceType /\ place.id = lib.places[i].id
  BY <1>2 DEF PlaceType
<1>4. /\ l.assets = lib.assets /\ l.hour = lib.hour /\ l.hint = hint /\ l.geo = geo
      /\ l.places = places /\ l.events = lib.events /\ l.people = lib.people
      /\ l = [assets |-> l.assets, hour |-> l.hour, hint |-> l.hint, geo |-> l.geo,
              places |-> l.places, events |-> l.events, people |-> l.people]
  <2>1. lib \in LibType
    BY LibIsBase
  <2>2. l = [lib EXCEPT !.hint = hint, !.geo = geo, !.places = places]
    BY <2>1 DEF CorrectedTo, LibType
  <2> HIDE DEF l, hint, geo, places
  <2> QED BY ONLY <2>1, <2>2 DEF LibType
<1> HIDE DEF l, place
<1>5. places \in Seq(PlaceType) /\ KeysHold(places)
  <2>1. places = [lib.places EXCEPT ![i] = place]
    OBVIOUS
  <2>2. KeysHold(lib.places)
    BY LibIsBase DEF Base
  <2> HIDE DEF places
  <2> QED BY <1>3, <2>1, <2>2, LibIsBase, APlaceElse
<1>6. hint \in [Assets -> Labels \cup {Unknown}]
  BY LibIsBase
<1>7. geo \in [Assets -> GeoType] /\ \A a \in Assets : geo[a].hidden => geo[a].at # Unknown
  <2>1. ASSUME NEW a \in Assets
        PROVE  /\ Corrected(lib.geo[a], at, hide) \in GeoType
               /\ Corrected(lib.geo[a], at, hide).hidden => Corrected(lib.geo[a], at, hide).at # Unknown
    <3>1. lib.geo[a] \in GeoType /\ (lib.geo[a].hidden => lib.geo[a].at # Unknown)
      BY LibIsBase DEF Base
    <3>2. (hide # "show") \in BOOLEAN /\ (hide = "hide") \in BOOLEAN
      OBVIOUS
    <3> QED BY <3>1, <3>2 DEF Corrected, GeoType
  <2>2. \A a \in Assets : lib.geo[a] \in GeoType /\ (lib.geo[a].hidden => lib.geo[a].at # Unknown)
    BY LibIsBase DEF Base
  <2> QED BY <2>1, <2>2
<1>8. \A a \in Assets : a \notin lib.assets => hint[a] = lib.hint[a] /\ geo[a] = lib.geo[a]
  BY <1>2
<1>9. \A a \in Assets : a \notin members => geo[a] = lib.geo[a]
  OBVIOUS
<1> HIDE DEF hint, geo, places
<1>10. l \in LibType
  BY <1>4, <1>5, <1>6, <1>7, LibIsBase DEF LibType
<1>11. Base(l)
  <2>1. Base(lib)
    BY LibIsBase
  <2>2. IsFiniteSet(l.people) /\ KeysHold(l.places) /\ KeysHold(l.events) /\ Apart(l.events)
    BY <1>4, <1>5, <2>1 DEF Base
  <2>3. ASSUME NEW a \in Assets
        PROVE  /\ a \notin l.assets => l.hour[a] = 0 /\ l.hint[a] = Unknown /\ l.geo[a] = NoGeo
               /\ l.geo[a].hidden => l.geo[a].at # Unknown
    BY <1>4, <1>7, <1>8, <2>1 DEF Base
  <2> QED BY <1>10, <2>2, <2>3 DEF Base
<1>12. after.geo = geo
  BY <1>4, <1>11, SavedIsFinite, Refreshed
<1>13. Asked(after, members) \subseteq Assets /\ \A a \in Asked(after, members) : l.geo[a].hidden
  <2>1. members \subseteq Assets
    BY <1>2, LibIsBase
  <2> HIDE DEF after, members
  <2> QED BY <1>4, <1>9, <1>12, <2>1, LibIsBase DEF Asked
<1>14. Sound(after, Asked(after, members))
  BY <1>4, <1>11, <1>13, DerivedAgainIsSound
<1> HIDE DEF after, members
<1> QED BY <1>1, <1>14, Answered

\* A handler that changes titles and links only.
LEMMA RelinkedIsSound ==
  ASSUME ViewsInv, NEW k, k \in LibType, Relinked(k, lib), Answer(k, hidden)
  PROVE  ViewsInv' /\ TitlesHold(lib.events, lib'.events) /\ viewCalls' # viewCalls
<1>1. Derived(k) /\ TitlesHold(lib.events, k.events)
  BY LibIsBase, RelinkedIsDerived
<1>2. k.geo = lib.geo
  BY DEF Relinked
<1>3. Sound(k, hidden)
  BY <1>1, <1>2, LibIsBase DEF Sound
<1> QED BY <1>3, Answered

\* The links of an event in memory.
LEMMA LinksOf ==
  ASSUME ViewsInv
  PROVE  \A i \in DOMAIN lib.events : lib.events[i] \in EventType /\ lib.events[i].people \subseteq PeopleIds(lib)
<1> SUFFICES ASSUME NEW i \in DOMAIN lib.events
             PROVE  lib.events[i] \in EventType /\ lib.events[i].people \subseteq PeopleIds(lib)
  OBVIOUS
<1>1. lib.events[i] \in EventType /\ lib.events[i] \in Range(lib.events)
  BY LibIsBase DEF Range
<1>2. EventsTold(lib, lib.places, lib.events)
  BY LibIsBase DEF Derived
<1> QED BY <1>1, <1>2 DEF EventsTold

WithOthers(people, events) == [lib EXCEPT !.people = people, !.events = events]

\* A library with other events and people.
LEMMA Repeopled ==
  ASSUME ViewsInv, NEW people, people \subseteq PersonType, NEW events, events \in Seq(EventType),
         NEW k, k = WithOthers(people, events)
  PROVE  /\ k \in LibType /\ k.people = people /\ k.events = events
         /\ k.assets = lib.assets /\ k.hour = lib.hour /\ k.hint = lib.hint /\ k.geo = lib.geo /\ k.places = lib.places
<1>1. lib \in LibType
  BY LibIsBase
<1> QED BY <1>1 DEF LibType, WithOthers

\* A list of events with other links.
LEMMA EventsOver ==
  ASSUME NEW old \in Seq(EventType), NEW events, DOMAIN events = DOMAIN old, events = [i \in DOMAIN old |-> events[i]],
         \A i \in DOMAIN old : events[i] \in EventType
  PROVE  events \in Seq(EventType)
<1>1. DOMAIN old = 1..Len(old) /\ Len(old) \in Nat
  OBVIOUS
<1> QED BY <1>1

\* A title (title_event).
LEMMA TitleKeeps ==
  ASSUME ViewsInv, NEW i \in DOMAIN lib.events, title_event(i)
  PROVE  ViewsInv' /\ TitlesHold(lib.events, lib'.events) /\ viewCalls' # viewCalls
<1> DEFINE e == [lib.events[i] EXCEPT !.titled = TRUE]
           events == [lib.events EXCEPT ![i] = e]
           k == WithOthers(lib.people, events)
<1>1. Answer(k, hidden)
  <2>1. k = [lib EXCEPT !.events[i].titled = TRUE]
    BY LibIsBase DEF LibType, WithOthers
  <2> QED BY <2>1 DEF title_event
<1>2. e \in EventType /\ e.id = lib.events[i].id /\ e.assets = lib.events[i].assets
      /\ e.place = lib.events[i].place /\ e.people = lib.events[i].people /\ e.titled
  BY LinksOf DEF EventType
<1> HIDE DEF e
<1>3. DOMAIN events = DOMAIN lib.events /\ events = [j \in DOMAIN lib.events |-> events[j]]
      /\ \A j \in DOMAIN lib.events : events[j] = IF j = i THEN e ELSE lib.events[j]
  OBVIOUS
<1> HIDE DEF events
<1>4. events \in Seq(EventType)
  BY <1>2, <1>3, LibIsBase, LinksOf, EventsOver
<1>5. /\ k \in LibType /\ k.people = lib.people /\ k.events = events
      /\ k.assets = lib.assets /\ k.hour = lib.hour /\ k.hint = lib.hint /\ k.geo = lib.geo /\ k.places = lib.places
  <2>1. lib.people \subseteq PersonType
    BY LibIsBase
  <2>2. k = WithOthers(lib.people, events)
    OBVIOUS
  <2> HIDE DEF k
  <2> QED BY <1>4, <2>1, <2>2, Repeopled
<1> HIDE DEF k
<1>6. Relinked(k, lib)
  BY <1>2, <1>3, <1>4, <1>5, LibIsBase, LinksOf DEF Relinked, PeopleIds
<1> QED BY <1>1, <1>5, <1>6, RelinkedIsSound

\* What refresh_event_people_from_people makes of the events.
LinkedTo(people) ==
    [i \in DOMAIN lib.events |-> [lib.events[i] EXCEPT !.people =
        {p.id : p \in {q \in people : ~q.hidden /\ q.assets \cap Range(lib.events[i].assets) # {}}}]]

\* People replaced, and the events linked to the new ones.
LEMMA WithPeopleKeeps ==
  ASSUME ViewsInv, NEW people, people \subseteq PersonType, IsFiniteSet(people), WithPeople(people)
  PROVE  ViewsInv' /\ TitlesHold(lib.events, lib'.events) /\ viewCalls' # viewCalls
<1> DEFINE events == LinkedTo(people)
           k == WithOthers(people, events)
           Links(i) == {p.id : p \in {q \in people : ~q.hidden /\ q.assets \cap Range(lib.events[i].assets) # {}}}
<1>1. Answer(k, hidden)
  <2> DEFINE l == [lib EXCEPT !.people = people]
  <2>1. lib \in LibType
    BY LibIsBase
  <2>2. l.people = people /\ l.events = lib.events
    BY <2>1 DEF LibType
  <2>3. refresh_event_people_from_people(l) = [l EXCEPT !.events = events]
    BY <2>2 DEF refresh_event_people_from_people, LinkedTo
  <2> HIDE DEF events
  <2>4. k = [l EXCEPT !.events = events]
    BY <2>1 DEF LibType, WithOthers
  <2> QED BY <2>3, <2>4 DEF WithPeople
<1>2. \A i \in DOMAIN lib.events : events[i] = [lib.events[i] EXCEPT !.people = Links(i)]
  BY DEF LinkedTo
<1>3. DOMAIN events = DOMAIN lib.events /\ events = [i \in DOMAIN lib.events |-> events[i]]
  BY DEF LinkedTo
<1>4. \A i : Links(i) \subseteq Nat /\ Links(i) \subseteq {p.id : p \in people}
  BY DEF PersonType
<1> HIDE DEF events, Links
<1>5. \A i \in DOMAIN lib.events :
         /\ events[i] \in EventType /\ events[i].id = lib.events[i].id /\ events[i].assets = lib.events[i].assets
         /\ events[i].place = lib.events[i].place /\ events[i].titled = lib.events[i].titled
         /\ events[i].people \subseteq {p.id : p \in people}
  <2> SUFFICES ASSUME NEW i \in DOMAIN lib.events
               PROVE  /\ events[i] \in EventType /\ events[i].id = lib.events[i].id /\ events[i].assets = lib.events[i].assets
                      /\ events[i].place = lib.events[i].place /\ events[i].titled = lib.events[i].titled
                      /\ events[i].people \subseteq {p.id : p \in people}
    OBVIOUS
  <2> DEFINE e == lib.events[i]
             links == Links(i)
             ids == {p.id : p \in people}
  <2>1. e \in EventType /\ events[i] = [e EXCEPT !.people = links] /\ links \subseteq Nat /\ links \subseteq ids
    BY <1>2, <1>4, LinksOf
  <2> HIDE DEF e, links, ids
  <2>2. /\ events[i] \in EventType /\ events[i].id = e.id /\ events[i].assets = e.assets
        /\ events[i].place = e.place /\ events[i].titled = e.titled
        /\ events[i].people \subseteq ids
    BY <2>1 DEF EventType
  <2> QED BY <2>2 DEF e, ids
<1>6. events \in Seq(EventType)
  BY <1>3, <1>5, LibIsBase, EventsOver
<1>7. /\ k \in LibType /\ k.people = people /\ k.events = events
      /\ k.assets = lib.assets /\ k.hour = lib.hour /\ k.hint = lib.hint /\ k.geo = lib.geo /\ k.places = lib.places
  BY <1>6, Repeopled
<1> HIDE DEF k
<1>8. Relinked(k, lib)
  BY <1>3, <1>5, <1>6, <1>7 DEF Relinked, PeopleIds
<1> QED BY <1>1, <1>7, <1>8, RelinkedIsSound

\* One person in place of another, or a new one.
LEMMA OnePersonElse ==
  ASSUME ViewsInv, NEW gone, NEW p \in PersonType
  PROVE  (lib.people \ gone) \cup {p} \subseteq PersonType /\ IsFiniteSet((lib.people \ gone) \cup {p})
<1>1. lib.people \subseteq PersonType /\ IsFiniteSet(lib.people)
  BY LibIsBase
<1>2. IsFiniteSet(lib.people \ gone)
  BY <1>1, FS_Subset
<1>3. IsFiniteSet({p})
  BY FS_Singleton
<1> QED BY <1>1, <1>2, <1>3, FS_Union

NewPerson(chosen) ==
    [id |-> Fresh({p.id : p \in lib.people \cup store.person_clusters}), assets |-> chosen, hidden |-> FALSE]

\* A person made by hand (create_manual_person).
LEMMA CreateKeeps ==
  ASSUME ViewsInv, NEW chosen, create_manual_person(chosen)
  PROVE  ViewsInv' /\ TitlesHold(lib.events, lib'.events) /\ viewCalls' # viewCalls
<1> DEFINE all == lib.people \cup store.person_clusters
           taken == {p.id : p \in all}
<1>1. chosen \subseteq lib.assets /\ WithPeople(lib.people \cup {NewPerson(chosen)})
  BY DEF create_manual_person, NewPerson
<1>2. IsFiniteSet(taken)
  <2>1. PICK t : Derived(t) /\ store = SavedRows(t)
    BY DEF ViewsInv
  <2>2. IsFiniteSet(store.person_clusters)
    BY <2>1 DEF Derived, Base, SavedRows
  <2>3. IsFiniteSet(all)
    BY <2>2, LibIsBase, FS_Union
  <2> HIDE DEF all
  <2> DEFINE pick == [p \in all |-> p.id]
  <2>4. pick \in Surjection(all, taken)
    BY DEF Surjection
  <2> QED BY <2>3, <2>4, FS_Surjection
<1>3. NewPerson(chosen) \in PersonType
  <2>1. Fresh(taken) \in Nat
    BY <1>2, FreshIsNew
  <2>2. NewPerson(chosen) = [id |-> Fresh(taken), assets |-> chosen, hidden |-> FALSE]
    BY DEF NewPerson
  <2> HIDE DEF taken
  <2> QED BY <1>1, <2>1, <2>2, LibIsBase DEF PersonType
<1>4. lib.people \cup {NewPerson(chosen)} = (lib.people \ {}) \cup {NewPerson(chosen)}
  OBVIOUS
<1>5. lib.people \cup {NewPerson(chosen)} \subseteq PersonType /\ IsFiniteSet(lib.people \cup {NewPerson(chosen)})
  BY <1>3, <1>4, OnePersonElse
<1> QED BY <1>1, <1>5, WithPeopleKeeps

WithAssets(p, assets) == [p EXCEPT !.assets = assets]

\* Assets given to a person or taken away (add_person_assets, remove_person_assets).
LEMMA AssetsKeep ==
  ASSUME ViewsInv, NEW p \in lib.people, NEW chosen,
         add_person_assets(p, chosen) \/ remove_person_assets(p, chosen)
  PROVE  ViewsInv' /\ TitlesHold(lib.events, lib'.events) /\ viewCalls' # viewCalls
<1>1. p \in PersonType
  BY LibIsBase
<1>2. PICK assets : assets \subseteq Assets /\ WithPeople((lib.people \ {p}) \cup {WithAssets(p, assets)})
  <2>1. CASE add_person_assets(p, chosen)
    <3>1. p.assets \cup chosen \subseteq Assets
      BY <1>1, <2>1, LibIsBase DEF add_person_assets, PersonType
    <3> QED BY <2>1, <3>1 DEF add_person_assets, WithAssets
  <2>2. CASE remove_person_assets(p, chosen)
    <3>1. p.assets \ chosen \subseteq Assets
      BY <1>1 DEF PersonType
    <3> QED BY <2>2, <3>1 DEF remove_person_assets, WithAssets
  <2> QED BY <2>1, <2>2
<1>3. WithAssets(p, assets) \in PersonType
  BY <1>1, <1>2 DEF WithAssets, PersonType
<1> QED BY <1>2, <1>3, OnePersonElse, WithPeopleKeeps

\* The same events, and other people.
LEMMA OthersRelinked ==
  ASSUME ViewsInv, NEW people, people \subseteq PersonType, IsFiniteSet(people),
         NEW links, \A i \in DOMAIN lib.events : links[i] \subseteq {p.id : p \in people},
         NEW events, events = [i \in DOMAIN lib.events |-> [lib.events[i] EXCEPT !.people = links[i]]],
         Answer(WithOthers(people, events), hidden)
  PROVE  ViewsInv' /\ TitlesHold(lib.events, lib'.events) /\ viewCalls' # viewCalls
<1> DEFINE k == WithOthers(people, events)
<1>1. DOMAIN events = DOMAIN lib.events /\ events = [i \in DOMAIN lib.events |-> events[i]]
      /\ \A i \in DOMAIN lib.events : events[i] = [lib.events[i] EXCEPT !.people = links[i]]
  OBVIOUS
<1>2. {p.id : p \in people} \subseteq Nat
  BY DEF PersonType
<1>3. ASSUME NEW i \in DOMAIN lib.events
      PROVE  /\ events[i] \in EventType /\ events[i].id = lib.events[i].id /\ events[i].assets = lib.events[i].assets
             /\ events[i].place = lib.events[i].place /\ events[i].titled = lib.events[i].titled
             /\ events[i].people \subseteq {p.id : p \in people}
  <2> DEFINE e == lib.events[i]
             mine == links[i]
             ids == {p.id : p \in people}
  <2>1. e \in EventType /\ events[i] = [e EXCEPT !.people = mine] /\ mine \subseteq Nat /\ mine \subseteq ids
    BY <1>1, <1>2, LinksOf
  <2> HIDE DEF e, mine, ids
  <2>2. /\ events[i] \in EventType /\ events[i].id = e.id /\ events[i].assets = e.assets
        /\ events[i].place = e.place /\ events[i].titled = e.titled
        /\ events[i].people \subseteq ids
    BY <2>1 DEF EventType
  <2> QED BY <2>2 DEF e, ids
<1>4. events \in Seq(EventType)
  <2>1. lib.events \in Seq(EventType) /\ \A i \in DOMAIN lib.events : events[i] \in EventType
    BY <1>3, LibIsBase
  <2> QED BY <1>1, <2>1, EventsOver
<1>5. /\ k \in LibType /\ k.people = people /\ k.events = events
      /\ k.assets = lib.assets /\ k.hour = lib.hour /\ k.hint = lib.hint /\ k.geo = lib.geo /\ k.places = lib.places
  BY <1>4, Repeopled
<1> HIDE DEF k
<1>6. Relinked(k, lib)
  <2>1. PeopleIds(k) = {p.id : p \in people}
    BY <1>5 DEF PeopleIds
  <2>2. /\ k.people \subseteq PersonType /\ IsFiniteSet(k.people)
        /\ k.events \in Seq(EventType) /\ DOMAIN k.events = DOMAIN lib.events
    BY <1>1, <1>4, <1>5
  <2>3. ASSUME NEW i \in DOMAIN lib.events
        PROVE  /\ k.events[i].id = lib.events[i].id /\ k.events[i].assets = lib.events[i].assets
               /\ k.events[i].place = lib.events[i].place
               /\ lib.events[i].titled => k.events[i].titled
               /\ k.events[i].people \subseteq PeopleIds(k)
    BY <1>3, <1>5, <2>1
  <2> QED BY <1>5, <2>2, <2>3 DEF Relinked
<1> QED BY <1>5, <1>6, RelinkedIsSound DEF k

Unveiled(p, hide) == [p EXCEPT !.hidden = hide]

\* A person hidden or shown (hide_person).
LEMMA HidingKeeps ==
  ASSUME ViewsInv, NEW p \in lib.people, NEW hide \in BOOLEAN, hide_person(p, hide)
  PROVE  ViewsInv' /\ TitlesHold(lib.events, lib'.events) /\ viewCalls' # viewCalls
<1> DEFINE people == (lib.people \ {p}) \cup {Unveiled(p, hide)}
           links == [i \in DOMAIN lib.events |-> lib.events[i].people]
           events == [i \in DOMAIN lib.events |-> [lib.events[i] EXCEPT !.people = links[i]]]
<1>1. p \in PersonType
  BY LibIsBase
<1>2. Unveiled(p, hide) \in PersonType /\ Unveiled(p, hide).id = p.id
  BY <1>1 DEF Unveiled, PersonType
<1>3. people \subseteq PersonType /\ IsFiniteSet(people)
  BY <1>2, OnePersonElse
<1>4. {q.id : q \in people} = PeopleIds(lib)
  <2>1. \A q \in people : \E r \in lib.people : r.id = q.id
    BY <1>2
  <2>2. \A r \in lib.people : \E q \in people : q.id = r.id
    BY <1>2
  <2> HIDE DEF people
  <2> QED BY <2>1, <2>2 DEF PeopleIds
<1>5. \A i \in DOMAIN lib.events : links[i] \subseteq {q.id : q \in people}
  BY <1>4, LinksOf
<1>6. events = lib.events
  <2>1. \A i \in DOMAIN lib.events : [lib.events[i] EXCEPT !.people = lib.events[i].people] = lib.events[i]
    BY LinksOf DEF EventType
  <2>2. lib.events = [i \in DOMAIN lib.events |-> lib.events[i]]
    BY LibIsBase
  <2> QED BY <2>1, <2>2
<1>7. Answer(WithOthers(people, events), hidden)
  <2> DEFINE k == [lib EXCEPT !.people = people]
  <2>1. Answer(k, hidden)
    BY DEF hide_person, Unveiled
  <2> HIDE DEF people, events
  <2>2. k = WithOthers(people, events)
    BY <1>6, LibIsBase DEF WithOthers, LibType
  <2> QED BY <2>1, <2>2
<1>8. events = [i \in DOMAIN lib.events |-> [lib.events[i] EXCEPT !.people = links[i]]]
  OBVIOUS
<1> HIDE DEF people, links, events
<1> QED BY <1>3, <1>5, <1>7, <1>8, OthersRelinked

\* Two people made one (merge_person).
LEMMA MergeKeeps ==
  ASSUME ViewsInv, NEW target \in lib.people, NEW source \in lib.people, merge_person(target, source)
  PROVE  ViewsInv' /\ TitlesHold(lib.events, lib'.events) /\ viewCalls' # viewCalls
<1> DEFINE merged == MergedInto(target, source)
           people == (lib.people \ {source, target}) \cup {merged}
           links == [i \in DOMAIN lib.events |-> MergedLinks(lib.events[i].people, target, source)]
           events == [i \in DOMAIN lib.events |-> [lib.events[i] EXCEPT !.people = links[i]]]
<1>1. target \in PersonType /\ source \in PersonType
  BY LibIsBase
<1>2. merged \in PersonType /\ merged.id = target.id
  BY <1>1 DEF MergedInto, PersonType
<1>3. people \subseteq PersonType /\ IsFiniteSet(people)
  BY <1>2, OnePersonElse
<1>4. Answer(WithOthers(people, events), hidden)
  <2>1. lib \in LibType
    BY LibIsBase
  <2>2. [lib EXCEPT !.people = (@ \ {source, target}) \cup {merged},
                    !.events = [i \in DOMAIN lib.events |->
                                  [lib.events[i] EXCEPT !.people = MergedLinks(@, target, source)]]]
          = WithOthers(people, events)
    BY <2>1 DEF WithOthers, LibType
  <2> QED BY <2>2 DEF merge_person
<1>5. \A x \in PeopleIds(lib) : x # source.id => x \in {p.id : p \in people}
  <2> SUFFICES ASSUME NEW q \in lib.people, q.id # source.id PROVE \E p \in people : p.id = q.id
    BY DEF PeopleIds
  <2>1. CASE q = target
    BY <1>2, <2>1
  <2>2. CASE q # target
    BY <2>2
  <2> QED BY <2>1, <2>2
<1>6. target.id \in {p.id : p \in people}
  BY <1>2
<1>7. target.id \in PeopleIds(lib)
  BY DEF PeopleIds
<1>8. \A i \in DOMAIN lib.events : links[i] \subseteq {p.id : p \in people}
  <2> SUFFICES ASSUME NEW i \in DOMAIN lib.events PROVE links[i] \subseteq {p.id : p \in people}
    OBVIOUS
  <2> DEFINE had == lib.events[i].people
             ids == {p.id : p \in people}
  <2>1. had \subseteq PeopleIds(lib) /\ links[i] = MergedLinks(had, target, source)
    BY LinksOf
  <2>2. \A x \in had : x # source.id => x \in ids
    BY <1>5, <2>1
  <2>3. target.id \in ids
    BY <1>6
  <2> HIDE DEF had, ids, links
  <2>4. links[i] \subseteq ids
    BY <2>1, <2>2, <2>3 DEF MergedLinks
  <2> QED BY <2>4 DEF ids
<1>9. events = [i \in DOMAIN lib.events |-> [lib.events[i] EXCEPT !.people = links[i]]]
  OBVIOUS
<1> HIDE DEF people, links, events
<1> QED BY <1>3, <1>4, <1>8, <1>9, OthersRelinked

\* People forgotten (reset_people).
LEMMA ResetKeeps ==
  ASSUME ViewsInv, reset_people
  PROVE  ViewsInv' /\ TitlesHold(lib.events, lib'.events) /\ viewCalls' # viewCalls
<1> DEFINE people == {}
           links == [i \in DOMAIN lib.events |-> {}]
           events == [i \in DOMAIN lib.events |-> [lib.events[i] EXCEPT !.people = links[i]]]
<1>1. people \subseteq PersonType /\ IsFiniteSet(people)
  BY FS_EmptySet
<1>2. Answer(WithOthers(people, events), hidden)
  <2>1. lib \in LibType
    BY LibIsBase
  <2>2. [lib EXCEPT !.people = {},
                    !.events = [i \in DOMAIN lib.events |-> [lib.events[i] EXCEPT !.people = Nobody]]]
          = WithOthers(people, events)
    BY <2>1 DEF WithOthers, LibType, Nobody
  <2> QED BY <2>2 DEF reset_people
<1>3. \A i \in DOMAIN lib.events : links[i] \subseteq {p.id : p \in people}
  OBVIOUS
<1>4. events = [i \in DOMAIN lib.events |-> [lib.events[i] EXCEPT !.people = links[i]]]
  OBVIOUS
<1> HIDE DEF people, links, events
<1> QED BY <1>1, <1>2, <1>3, <1>4, OthersRelinked

-----------------------------------------------------------------------------
(***************************************************************************)
(* A start.                                                                *)
(***************************************************************************)
SameView(f, e) == f.id = e.id /\ f.titled = e.titled /\ f.place = e.place /\ Range(f.assets) = Range(e.assets)

SameViews(events, old) ==
    /\ \A f \in Range(events) : \E e \in Range(old) : SameView(f, e)
    /\ \A e \in Range(old) : \E f \in Range(events) : SameView(f, e)

\* Of events apart, no two consist of the same assets.
LEMMA OneOfTheAssets ==
  ASSUME NEW events, Apart(events), NEW e \in Range(events), NEW f \in Range(events), Range(e.assets) = Range(f.assets)
  PROVE  e = f
<1>1. PICK i \in DOMAIN events : events[i] = e
  BY DEF Range
<1>2. PICK j \in DOMAIN events : events[j] = f
  BY DEF Range
<1> QED BY <1>1, <1>2 DEF Apart

\* No two clusters consist of the same assets.
LEMMA OneOfTheClusters ==
  ASSUME NEW l, l \in LibType, ViewsAssumption, NEW c \in Range(cluster_assets(l)), NEW d \in Range(cluster_assets(l)),
         Range(c) = Range(d)
  PROVE  c = d
<1> DEFINE cs == cluster_assets(l)
<1>1. Clustered(l.assets, cs)
  BY ClustersAreApart
<1> HIDE DEF cs
<1>2. PICK i \in DOMAIN cs : cs[i] = c
  BY DEF Range, cs
<1>3. PICK j \in DOMAIN cs : cs[j] = d
  BY DEF Range, cs
<1>4. Range(cs[i]) # {} /\ (i # j => Range(cs[i]) \cap Range(cs[j]) = {})
  BY <1>1, <1>2, <1>3 DEF Clustered
<1>5. Range(cs[i]) = Range(cs[j])
  BY <1>2, <1>3
<1>6. i = j
  BY <1>4, <1>5
<1> QED BY <1>2, <1>3, <1>6

\* Views that are derived again of sound ones are the same.
LEMMA DerivedAgainIsSame ==
  ASSUME NEW s, Derived(s), ViewsAssumption, StoreIsFinite, NEW k, k = refresh_derived_views(s)
  PROVE  /\ Derived(k) /\ k.geo = s.geo /\ Range(k.places) = Range(s.places)
         /\ SameViews(k.events, s.events) /\ TitlesHold(s.events, k.events)
<1>1. Base(s) /\ s \in LibType /\ EventsTold(s, s.places, s.events) /\ Apart(s.events)
  BY DEF Derived, Base
<1>2. /\ Derived(k) /\ k.geo = s.geo /\ AllKept(k.events, s.events)
      /\ Range(k.places) = Range(s.places)
      /\ \A e \in Range(k.events) : \E c \in Range(cluster_assets(s)) :
            Range(c) = Range(e.assets) /\ e.place = EventPlace(s, s.places, c)
      /\ cluster_assets(k) = cluster_assets(s)
  BY <1>1, Refreshed
<1>3. ASSUME NEW f \in Range(k.events) PROVE \E e \in Range(s.events) : SameView(f, e)
  <2>1. PICK c \in Range(cluster_assets(s)) : Range(c) = Range(f.assets) /\ f.place = EventPlace(s, s.places, c)
    BY <1>2
  <2>2. PICK e \in Range(s.events) : Range(e.assets) = Range(c)
    BY <1>1 DEF EventsTold
  <2>3. PICK d \in Range(cluster_assets(s)) : Range(d) = Range(e.assets) /\ e.place = EventPlace(s, s.places, d)
    BY <1>1 DEF EventsTold
  <2>4. c = d
    BY <1>1, <2>2, <2>3, OneOfTheClusters
  <2>5. PICK g \in Range(s.events) : Range(g.assets) = Range(f.assets) /\ f.id = g.id /\ f.titled = g.titled
    BY <1>2, <2>1, <2>2 DEF AllKept, EventKept
  <2>6. g = e
    BY <1>1, <2>1, <2>2, <2>5, OneOfTheAssets
  <2> QED BY <2>1, <2>2, <2>3, <2>4, <2>5, <2>6 DEF SameView
<1>4. ASSUME NEW e \in Range(s.events) PROVE \E f \in Range(k.events) : SameView(f, e)
  <2>1. PICK c \in Range(cluster_assets(s)) : Range(c) = Range(e.assets)
    BY <1>1 DEF EventsTold
  <2>2. PICK f \in Range(k.events) : Range(f.assets) = Range(c)
    BY <1>2, <2>1 DEF Derived, EventsTold
  <2>3. PICK g \in Range(s.events) : SameView(f, g)
    BY <1>3
  <2>4. g = e
    BY <1>1, <2>1, <2>2, <2>3, OneOfTheAssets DEF SameView
  <2> QED BY <2>3, <2>4
<1>5. TitlesHold(s.events, k.events)
  BY <1>1, <1>2, KeptTitles
<1> QED BY <1>2, <1>3, <1>4, <1>5 DEF SameViews

\* What a start shows of what was saved.
LEMMA StartShows ==
  ASSUME NEW t, Derived(t), ViewsAssumption, StoreIsFinite,
         NEW k, k = refresh_missing_derived_views(load_state(SavedRows(t)))
  PROVE  /\ Derived(k) /\ k.geo = t.geo /\ Range(k.places) = Range(t.places)
         /\ SameViews(k.events, t.events) /\ TitlesHold(t.events, k.events)
<1> DEFINE s == load_state(SavedRows(t))
<1>1. Derived(s) /\ Agree(s, t) /\ Range(s.places) = Range(t.places) /\ SameEvents(s.events, t.events)
  BY LoadedIsDerived
<1>2. k = s \/ k = refresh_derived_views(s)
  BY DEF refresh_missing_derived_views
<1> HIDE DEF s
<1>3. Apart(s.events) /\ Apart(t.events)
  BY <1>1 DEF Derived, Base
<1>4. /\ Derived(k) /\ k.geo = s.geo /\ Range(k.places) = Range(s.places)
      /\ SameViews(k.events, s.events) /\ TitlesHold(s.events, k.events)
  <2>1. CASE k = s
    <3>1. SameViews(s.events, s.events)
      BY DEF SameViews, SameView
    <3>2. TitlesHold(s.events, s.events)
      <4> SUFFICES ASSUME NEW e \in Range(s.events), e.titled, NEW f \in Range(s.events), Range(f.assets) = Range(e.assets)
                   PROVE  f.id = e.id /\ f.titled
        BY DEF TitlesHold
      <4>1. e = f
        BY <1>3, OneOfTheAssets
      <4> QED BY <4>1
    <3> QED BY <1>1, <2>1, <3>1, <3>2
  <2>2. CASE k = refresh_derived_views(s)
    BY <1>1, <2>2, DerivedAgainIsSame
  <2> QED BY <1>2, <2>1, <2>2
<1>5. SameViews(k.events, t.events)
  <2>1. SameViews(s.events, t.events)
    BY <1>1 DEF SameEvents, SameEvent, SameViews, SameView
  <2>2. \A x, y, z : SameView(x, y) /\ SameView(y, z) => SameView(x, z)
    BY DEF SameView
  <2> QED BY <1>4, <2>1, <2>2 DEF SameViews
<1>6. TitlesHold(t.events, k.events)
  <2> SUFFICES ASSUME NEW e \in Range(t.events), e.titled, NEW f \in Range(k.events), Range(f.assets) = Range(e.assets)
               PROVE  f.id = e.id /\ f.titled
    BY DEF TitlesHold
  <2>1. PICK g \in Range(s.events) : SameEvent(g, e)
    BY <1>1 DEF SameEvents
  <2>2. g.id = e.id /\ g.titled /\ Range(g.assets) = Range(e.assets)
    BY <2>1 DEF SameEvent
  <2> QED BY <1>4, <2>2 DEF TitlesHold
<1> QED BY <1>1, <1>4, <1>5, <1>6 DEF Agree

\* The libraries of which the invariant speaks of no other variable.
LEMMA SameLibrary ==
  ASSUME NEW l, lib' = l
  PROVE  Derived(lib)' = Derived(l)
BY DEF Derived, Base, PlacesTold, EventsTold, HiddenSettled, PeopleIds

\* A restart derives what is missing from what was saved; the views that were saved last come back.
LEMMA RestartKeeps ==
  ASSUME ViewsInv, ViewsAssumption, Restart
  PROVE  /\ ViewsInv' /\ lib' = refresh_missing_derived_views(load_state(store)) /\ store' = store
         /\ store = SavedRows(lib) => /\ TitlesHold(lib.events, lib'.events)
                                      /\ Range(lib'.places) = Range(lib.places)
                                      /\ SameViews(lib'.events, lib.events)
<1>1. /\ lib' = refresh_missing_derived_views(load_state(store)) /\ viewFaults' = viewFaults + 1
      /\ store' = store /\ hidden' = hidden /\ viewCalls' = viewCalls
  BY DEF Restart
<1>2. PICK t : Derived(t) /\ store = SavedRows(t) /\ \A a \in hidden : t.geo[a].hidden
  BY DEF ViewsInv
<1>3. ASSUME NEW x, Derived(x), store = SavedRows(x)
      PROVE  /\ Derived(lib') /\ lib'.geo = x.geo /\ Range(lib'.places) = Range(x.places)
             /\ SameViews(lib'.events, x.events) /\ TitlesHold(x.events, lib'.events)
  <2>1. lib' = refresh_missing_derived_views(load_state(SavedRows(x)))
    BY <1>1, <1>3
  <2> DEFINE k == refresh_missing_derived_views(load_state(SavedRows(x)))
  <2>2. /\ Derived(k) /\ k.geo = x.geo /\ Range(k.places) = Range(x.places)
        /\ SameViews(k.events, x.events) /\ TitlesHold(x.events, k.events)
    BY <1>3, SavedIsFinite, StartShows
  <2> HIDE DEF k
  <2>3. lib' = k
    BY <2>1 DEF k
  <2> QED BY <2>2, <2>3
<1>4. Derived(lib') /\ lib'.geo = t.geo
  BY <1>2, <1>3
<1>5. Derived(lib)'
  BY <1>4, SameLibrary
<1>6. hidden' \subseteq Assets /\ (\A a \in hidden' : lib'.geo[a].hidden) /\ viewCalls' \in Nat /\ viewFaults' \in Nat
  <2>1. hidden \subseteq Assets /\ viewCalls \in Nat /\ viewFaults \in Nat
    BY DEF ViewsInv
  <2> QED BY <1>1, <1>2, <1>4, <2>1
<1>7. \E u : Derived(u) /\ store' = SavedRows(u) /\ \A a \in hidden' : u.geo[a].hidden
  BY <1>1, <1>2
<1>8. ViewsInv'
  BY <1>5, <1>6, <1>7 DEF ViewsInv
<1>9. store = SavedRows(lib) => /\ TitlesHold(lib.events, lib'.events)
                                /\ Range(lib'.places) = Range(lib.places)
                                /\ SameViews(lib'.events, lib.events)
  BY <1>3, LibIsBase
<1> QED BY <1>1, <1>8, <1>9

\* What changes no library keeps everything.
LEMMA NothingChanges ==
  ASSUME ViewsInv, lib' = lib, store' = store, hidden' = hidden, viewCalls' = viewCalls, viewFaults' = viewFaults
  PROVE  ViewsInv' /\ TitlesHold(lib.events, lib'.events)
<1>1. Derived(lib)'
  BY SameLibrary DEF ViewsInv
<1>2. TitlesHold(lib.events, lib.events)
  <2> SUFFICES ASSUME NEW e \in Range(lib.events), e.titled, NEW f \in Range(lib.events), Range(f.assets) = Range(e.assets)
               PROVE  f.id = e.id /\ f.titled
    BY DEF TitlesHold
  <2>1. Apart(lib.events)
    BY LibIsBase DEF Base
  <2>2. e = f
    BY <2>1, OneOfTheAssets
  <2> QED BY <2>2
<1> QED BY <1>1, <1>2 DEF ViewsInv

\* Every step but a start keeps the titles of the moments in memory, and a
\* handler counts itself.
LEMMA ViewsStep ==
  ASSUME ViewsInv, ViewsAssumption, [ViewsNext]_viewVars
  PROVE  /\ ViewsInv'
         /\ \/ TitlesHold(lib.events, lib'.events) /\ (viewCalls' # viewCalls \/ viewFaults' = viewFaults)
            \/ Restart
<1>1. ASSUME NEW a \in Assets, NEW hour \in Hours, NEW geo \in Coords \cup {Unknown}, ImportAsset(a, hour, geo)
      PROVE  ViewsInv' /\ TitlesHold(lib.events, lib'.events) /\ viewCalls' # viewCalls
  BY <1>1, ImportKeeps
<1>2. ASSUME NEW a \in Assets, Seal(a)
      PROVE  ViewsInv' /\ TitlesHold(lib.events, lib'.events) /\ viewFaults' = viewFaults
  BY <1>2, NothingChanges DEF Seal
<1>3. ASSUME NEW a \in Assets, NEW hour \in Hours, correct_asset_date(a, hour)
      PROVE  ViewsInv' /\ TitlesHold(lib.events, lib'.events) /\ viewCalls' # viewCalls
  BY <1>3, DateKeeps
<1>4. ASSUME rebuild_metadata \/ rebuild_places \/ rebuild_events
      PROVE  ViewsInv' /\ TitlesHold(lib.events, lib'.events) /\ viewCalls' # viewCalls
  BY <1>4, MetadataKeeps, PlacesKeep, EventsKeep
<1>5. ASSUME NEW i \in DOMAIN lib.places, NEW label \in Labels, NEW at \in Coords \cup {Unknown},
             NEW hide \in {"", "hide", "show"}, correct_place(i, label, at, hide)
      PROVE  ViewsInv' /\ TitlesHold(lib.events, lib'.events) /\ viewCalls' # viewCalls
  BY <1>5, CorrectionKeeps
<1>6. ASSUME NEW i \in DOMAIN lib.events, title_event(i)
      PROVE  ViewsInv' /\ TitlesHold(lib.events, lib'.events) /\ viewCalls' # viewCalls
  BY <1>6, TitleKeeps
<1>7. ASSUME PeopleCalls
      PROVE  ViewsInv' /\ TitlesHold(lib.events, lib'.events) /\ viewCalls' # viewCalls
  BY <1>7, CreateKeeps, AssetsKeep, HidingKeeps, MergeKeeps, ResetKeeps DEF PeopleCalls
<1>8. ASSUME Restart
      PROVE  ViewsInv'
  BY <1>8, RestartKeeps
<1>9. ASSUME UNCHANGED viewVars
      PROVE  ViewsInv' /\ TitlesHold(lib.events, lib'.events) /\ viewFaults' = viewFaults
  BY <1>9, NothingChanges DEF viewVars
<1> QED BY <1>1, <1>2, <1>3, <1>4, <1>5, <1>6, <1>7, <1>8, <1>9 DEF ViewsNext

\* The empty library.
LEMMA ViewsStart ==
  ASSUME ViewsInit, ViewsAssumption
  PROVE  ViewsInv
<1>1. Empty \in LibType
  BY DEF Empty, LibType, GeoType, Unknown
<1>2. Base(Empty)
  <2>1. KeysHold(<<>>) /\ Apart(<<>>)
    BY DEF KeysHold, Apart
  <2> QED BY <1>1, <2>1, FS_EmptySet DEF Base, Empty, NoGeo
<1>3. PlacesTold(Empty, <<>>)
  <2>1. Range(<<>>) = {} /\ OneLabelEach(<<>>) /\ \A label : Here(Empty, label) = {}
    BY DEF Range, OneLabelEach, Here, Empty
  <2> QED BY <2>1 DEF PlacesTold
<1>4. EventsTold(Empty, <<>>, <<>>)
  <2>1. Clustered({}, cluster_assets(Empty))
    BY <1>1, ClustersAreApart DEF Empty
  <2>2. Range(cluster_assets(Empty)) = {}
    <3> SUFFICES ASSUME NEW i \in DOMAIN cluster_assets(Empty) PROVE FALSE
      BY DEF Range
    <3> QED BY <2>1 DEF Clustered
  <2>3. Range(<<>>) = {}
    BY DEF Range
  <2> QED BY <2>2, <2>3 DEF EventsTold
<1>5. HiddenSettled(Empty)
  BY DEF HiddenSettled, Empty
<1>6. Derived(Empty)
  BY <1>2, <1>3, <1>4, <1>5 DEF Derived, Empty
<1>7. lib = Empty /\ store = SavedRows(Empty) /\ hidden = {} /\ viewCalls = 0 /\ viewFaults = 0
  BY DEF ViewsInit
<1>8. \E t : Derived(t) /\ store = SavedRows(t) /\ \A a \in hidden : t.geo[a].hidden
  BY <1>6, <1>7
<1> QED BY <1>6, <1>7, <1>8 DEF ViewsInv

-----------------------------------------------------------------------------
\* The views derived in memory and in the store are those of their assets,
\* whatever handlers answered, failed to save or were loaded.
THEOREM ViewsInvariance == ViewsSpec => []ViewsInv
<1>1. ViewsInit => ViewsInv
  BY ViewsStart, ViewsAssumption
<1>2. ViewsInv /\ [ViewsNext]_viewVars => ViewsInv'
  BY ViewsStep, ViewsAssumption
<1> QED BY <1>1, <1>2, PTL DEF ViewsSpec

\* Derived views never point at what is gone nor show what is hidden (save_state's
\* foreign keys; GeoTag::visible, preserve_hidden_geo, refresh_derived_views).
THEOREM ViewsStaySound == ViewsSpec => []ViewsAreSound
<1>1. ViewsInv => ViewsAreSound
  <2> SUFFICES ASSUME ViewsInv PROVE LinksResolve /\ HiddenIsNotShown
    BY DEF ViewsAreSound
  <2>1. /\ Base(lib) /\ PlacesTold(lib, lib.places) /\ EventsTold(lib, lib.places, lib.events) /\ HiddenSettled(lib)
        /\ lib.places \in Seq(PlaceType) /\ lib.geo \in [Assets -> GeoType] /\ lib.assets \subseteq Assets
        /\ hidden \subseteq Assets /\ \A a \in hidden : lib.geo[a].hidden
    BY LibIsBase DEF Derived
  <2>2. LinksResolve
    <3>1. KeysHold(lib.places) /\ KeysHold(lib.events)
      BY <2>1 DEF Base
    <3>2. \A e \in Range(lib.events) : e.place \in Ids(lib.places) \cup {Unknown} /\ e.people \subseteq PeopleIds(lib)
      <4> SUFFICES ASSUME NEW e \in Range(lib.events)
                   PROVE  e.place \in Ids(lib.places) \cup {Unknown} /\ e.people \subseteq PeopleIds(lib)
        OBVIOUS
      <4>1. PICK c \in Range(cluster_assets(lib)) : e.place = EventPlace(lib, lib.places, c)
        BY <2>1 DEF EventsTold
      <4>2. e.people \subseteq PeopleIds(lib)
        BY <2>1 DEF EventsTold
      <4> QED BY <2>1, <4>1, <4>2, EventPlaceFits
    <3> QED BY <3>1, <3>2 DEF LinksResolve, Fits, PeopleIds
  <2>3. HiddenIsNotShown
    <3> SUFFICES ASSUME NEW a \in hidden
                 PROVE  /\ lib.geo[a].hidden /\ lib.hint[a] # gps_place_hint(lib.geo[a].at)
                        /\ \A p \in Range(lib.places) : a \in p.assets =>
                              /\ p.label # gps_place_hint(lib.geo[a].at)
                              /\ p.pins = {lib.geo[b].at : b \in {c \in p.assets : visible(lib.geo[c])}}
      BY DEF HiddenIsNotShown
    <3>1. lib.geo[a].hidden /\ lib.hint[a] # gps_place_hint(lib.geo[a].at)
      BY <2>1 DEF HiddenSettled
    <3>2. ASSUME NEW p \in Range(lib.places), a \in p.assets
          PROVE  /\ p.label # gps_place_hint(lib.geo[a].at)
                 /\ p.pins = {lib.geo[b].at : b \in {c \in p.assets : visible(lib.geo[c])}}
      <4>1. PlaceFits(lib, p)
        BY <2>1 DEF PlacesTold
      <4>2. p.label \in Labels
        <5>1. PICK i \in DOMAIN lib.places : lib.places[i] = p
          BY DEF Range
        <5>2. p \in PlaceType
          BY <2>1, <5>1
        <5> QED BY <5>2 DEF PlaceType
      <4>3. Unknown \notin Labels
        BY ViewsAssumption, FS_CardinalityType DEF ViewsAssumption, Unknown
      <4>4. Hint(a, lib) = p.label
        BY <3>2, <4>1 DEF PlaceFits, Here
      <4>5. p.label = lib.hint[a]
        BY <3>1, <4>2, <4>3, <4>4 DEF Hint, visible
      <4> QED BY <3>1, <4>1, <4>5 DEF PlaceFits, PinsOf
    <3> QED BY <3>1, <3>2
  <2> QED BY <2>2, <2>3
<1> QED BY <1>1, ViewsInvariance, PTL

EventView(e) == [e EXCEPT !.people = Nobody, !.assets = Range(@)]

\* An event without its people and with its assets replaced, field by field.
LEMMA ViewOfEvent ==
  ASSUME NEW f \in EventType, NEW list
  PROVE [f EXCEPT !.people = Nobody, !.assets = list]
          = [id |-> f.id, assets |-> list, titled |-> f.titled, place |-> f.place, people |-> Nobody]
<1> DEFINE g == [f EXCEPT !.people = Nobody]
<1>1. g \in EventType /\ g = [id |-> f.id, assets |-> f.assets, titled |-> f.titled, place |-> f.place, people |-> Nobody]
  <2> Nobody \in SUBSET Nat
    BY DEF Nobody
  <2>1. g = [id |-> f.id, assets |-> f.assets, titled |-> f.titled, place |-> f.place, people |-> Nobody]
    BY DEF EventType
  <2> QED BY <2>1 DEF EventType
<1>2. [f EXCEPT !.people = Nobody, !.assets = list] = [g EXCEPT !.assets = list]
  BY DEF EventType
<1> HIDE DEF g
<1>3. [g EXCEPT !.assets = list] = [id |-> g.id, assets |-> list, titled |-> g.titled, place |-> g.place, people |-> g.people]
  BY <1>1 DEF EventType
<1>4. g.id = f.id /\ g.titled = f.titled /\ g.place = f.place /\ g.people = Nobody
  BY <1>1
<1> QED BY <1>2, <1>3, <1>4

\* Events that are the same but for their people and the order of their assets.
LEMMA SameViewsLook ==
  ASSUME NEW events \in Seq(EventType), NEW old \in Seq(EventType), SameViews(events, old)
  PROVE  {EventView(e) : e \in Range(events)} = {EventView(e) : e \in Range(old)}
<1>1. \A e \in Range(events) : e \in EventType
  <2>1. \A i \in DOMAIN events : events[i] \in EventType
    OBVIOUS
  <2> QED BY <2>1 DEF Range
<1>2. \A e \in Range(old) : e \in EventType
  <2>1. \A i \in DOMAIN old : old[i] \in EventType
    OBVIOUS
  <2> QED BY <2>1 DEF Range
<1>3. ASSUME NEW f \in EventType, NEW e \in EventType, SameView(f, e) PROVE EventView(f) = EventView(e)
  <2> DEFINE listf == Range(f.assets)
             liste == Range(e.assets)
  <2>1. listf = liste /\ f.id = e.id /\ f.titled = e.titled /\ f.place = e.place
    BY <1>3 DEF SameView
  <2>2. EventView(f) = [f EXCEPT !.people = Nobody, !.assets = listf] /\ EventView(e) = [e EXCEPT !.people = Nobody, !.assets = liste]
    BY DEF EventView
  <2> HIDE DEF listf, liste
  <2>3. /\ EventView(f) = [id |-> f.id, assets |-> listf, titled |-> f.titled, place |-> f.place, people |-> Nobody]
        /\ EventView(e) = [id |-> e.id, assets |-> liste, titled |-> e.titled, place |-> e.place, people |-> Nobody]
    BY <2>2, ViewOfEvent
  <2> QED BY <2>1, <2>3
<1> QED BY <1>1, <1>2, <1>3 DEF SameViews

\* What the user corrected outlives derivations and restarts (derive_events,
\* derive_places, load_state, refresh_missing_derived_views).
THEOREM CorrectionsOutlive == ViewsSpec => CorrectionsLast
<1>1. ASSUME ViewsInv, [ViewsNext]_viewVars
      PROVE  (store' # store \/ lib' # refresh_missing_derived_views(load_state(store)) \/ store = SavedRows(lib)) =>
                \A e \in Range(lib.events) : e.titled =>
                    \A f \in Range(lib'.events) : Range(f.assets) = Range(e.assets) => f.id = e.id /\ f.titled
  BY <1>1, ViewsAssumption, ViewsStep, RestartKeeps DEF TitlesHold
<1>2. ASSUME ViewsInv, [ViewsNext]_viewVars
      PROVE  (viewCalls' = viewCalls /\ viewFaults' # viewFaults /\ store = SavedRows(lib)) =>
                /\ Range(lib'.places) = Range(lib.places)
                /\ {[e EXCEPT !.people = Nobody, !.assets = Range(@)] : e \in Range(lib'.events)}
                     = {[e EXCEPT !.people = Nobody, !.assets = Range(@)] : e \in Range(lib.events)}
  <2> SUFFICES ASSUME viewCalls' = viewCalls, viewFaults' # viewFaults, store = SavedRows(lib)
               PROVE  /\ Range(lib'.places) = Range(lib.places)
                      /\ {EventView(e) : e \in Range(lib'.events)} = {EventView(e) : e \in Range(lib.events)}
    BY DEF EventView
  <2>1. ViewsInv' /\ Restart
    BY <1>2, ViewsAssumption, ViewsStep
  <2>2. Range(lib'.places) = Range(lib.places) /\ SameViews(lib'.events, lib.events)
    BY <1>2, <2>1, ViewsAssumption, RestartKeeps
  <2>3. lib.events \in Seq(EventType)
    BY <1>2, LibIsBase
  <2>4. lib'.events \in Seq(EventType)
    <3>1. lib' \in LibType
      BY <2>1 DEF ViewsInv, Derived, Base
    <3> QED BY <3>1 DEF LibType
  <2> QED BY <2>2, <2>3, <2>4, SameViewsLook
<1>3. ViewsInv /\ [ViewsNext]_viewVars => [(store' # store \/ lib' # refresh_missing_derived_views(load_state(store)) \/ store = SavedRows(lib)) =>
        \A e \in Range(lib.events) : e.titled =>
            \A f \in Range(lib'.events) :
                Range(f.assets) = Range(e.assets) => f.id = e.id /\ f.titled]_viewVars
  BY <1>1
<1>4. ViewsInv /\ [ViewsNext]_viewVars => [(viewCalls' = viewCalls /\ viewFaults' # viewFaults /\ store = SavedRows(lib)) =>
        /\ Range(lib'.places) = Range(lib.places)
        /\ {[e EXCEPT !.people = Nobody, !.assets = Range(@)] : e \in Range(lib'.events)}
             = {[e EXCEPT !.people = Nobody, !.assets = Range(@)] : e \in Range(lib.events)}]_viewVars
  BY <1>2
<1>5. ViewsSpec => TitlesStay
  BY <1>3, ViewsInvariance, PTL DEF ViewsSpec, TitlesStay
<1>6. ViewsSpec => RestartKeepsViews
  BY <1>4, ViewsInvariance, PTL DEF ViewsSpec, RestartKeepsViews
<1> QED BY <1>5, <1>6 DEF CorrectionsLast
==============================================================================
