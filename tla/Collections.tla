---------------------------- MODULE Collections ----------------------------
(***************************************************************************)
(* What the user arranges by hand: flags and tags of assets, albums with   *)
(* their cover, saved searches.  Every change but those of saved searches  *)
(* leaves a feedback record, in the same transaction as the change.  A     *)
(* client may post records too: whatever kind they say they are, they      *)
(* change nothing else, and each is stored under the id its client gave it. *)
(***************************************************************************)
EXTENDS FiniteSets, Integers, Sequences, Functions, Sorting

CONSTANTS
    Items,        \* assets that exist; a request may also name Stranger
    Stranger, AlbumIds, TagNames,
    Posted,       \* feedback records that clients post, with their ids
    MaxChanges, MaxChangeFaults

Drawn == 0        \* a fresh id, for a record the service makes

ASSUME CollectionsAssumption ==
    /\ \A f \in Posted : f.id # Drawn
    /\ IsFiniteSet(Items) /\ Items \subseteq Nat \ {0} /\ Stranger \notin Items
    /\ IsFiniteSet(AlbumIds) /\ MaxChanges \in Nat /\ MaxChangeFaults \in Nat

VARIABLES
    shelf,       \* flags, tags, albums, saved searches and feedback in memory
    shelfRows,   \* the same in the database
    changes, changeFaults

shelfVars == <<shelf, shelfRows, changes, changeFaults>>

Flags == {"favorite", "archived"}
NoCover == 0

(* schema.sql: an album has its assets once each, in their positions, and  *)
(* no two feedback records have one id.                                    *)
ShelfFits(s) ==
    /\ \A id \in DOMAIN s.albums : IsInjective(s.albums[id].items)
    /\ \A m, n \in DOMAIN s.feedback :
          s.feedback[m].id = s.feedback[n].id => m = n \/ s.feedback[m].id = Drawn

(* The assets of an album in the order of their positions.                 *)
load_positioned_memberships(rows, id) ==
    LET members == {m \in rows.album_assets : m.album = id}
    IN [p \in 1..Cardinality(members) |-> (CHOOSE m \in members : m.position = p).asset]

load_albums(rows) ==
    [id \in {a.id : a \in rows.albums} |->
        [cover |-> (CHOOSE a \in rows.albums : a.id = id).cover,
         items |-> load_positioned_memberships(rows, id)]]

SavedShelf(s) ==
    [albums |-> {[id |-> id, cover |-> s.albums[id].cover] : id \in DOMAIN s.albums},
     album_assets |-> UNION {{[album |-> id, asset |-> s.albums[id].items[p], position |-> p] :
                                 p \in DOMAIN s.albums[id].items} : id \in DOMAIN s.albums},
     flags |-> s.flags,
     tags |-> {at \in Items \X TagNames : at[2] \in s.tags[at[1]]},
     searches |-> s.searches, feedback |-> s.feedback]

load_asset_manual_tags(rows) == [a \in Items |-> {t \in TagNames : <<a, t>> \in rows.tags}]

(* Records come back in the order of their times: those of the service in  *)
(* the order it made them, a posted one among them at a time of its        *)
(* client's choice, which nothing here depends on.                         *)
load_shelf(rows) ==
    [flags |-> rows.flags, tags |-> load_asset_manual_tags(rows), albums |-> load_albums(rows),
     searches |-> rows.searches, feedback |-> rows.feedback]

ShelfInit ==
    /\ shelf = [flags |-> [a \in Items |-> {}], tags |-> [a \in Items |-> {}],
                albums |-> [id \in {} |-> 0], searches |-> 0, feedback |-> <<>>]
    /\ shelfRows = SavedShelf(shelf) /\ changes = 0 /\ changeFaults = 0

(* A shelf that does not fit is refused by the tables, then and by every   *)
(* later save, until a restart forgets it.                                 *)
SaveShelf(s) ==
    /\ changes < MaxChanges /\ changes' = changes + 1 /\ shelf' = s
    /\ \/ ShelfFits(s) /\ shelfRows' = SavedShelf(s) /\ UNCHANGED changeFaults
       \/ ~ShelfFits(s) /\ UNCHANGED <<shelfRows, changeFaults>>
       \/ changeFaults < MaxChangeFaults /\ changeFaults' = changeFaults + 1 /\ UNCHANGED shelfRows

RefusedChange == changes < MaxChanges /\ changes' = changes + 1
                 /\ UNCHANGED <<shelf, shelfRows, changeFaults>>

Recorded(s, f) == SaveShelf([s EXCEPT !.feedback = Append(@, f)])

Changed(s, record) == Recorded(s, [id |-> Drawn, event |-> record])

(* validate_asset_ids: all of them are known, or the request is refused;   *)
(* what is known comes back sorted, once each.                             *)
\* Fault: unknown assets are let through.
KnownOnly(chosen) == TRUE
validate_asset_ids(chosen) == chosen \subseteq Items
Sorted(chosen) == Ascending(chosen)

update_assets_flags(chosen, set, clear) ==
    IF ~validate_asset_ids(chosen) THEN RefusedChange
    ELSE Changed([shelf EXCEPT !.flags = [a \in Items |->
                     IF a \in chosen THEN (@[a] \cup set) \ clear ELSE @[a]]],
                 [kind |-> "flags", assets |-> chosen, set |-> set, clear |-> clear])

update_asset_tags(a, tags) ==
    Changed([shelf EXCEPT !.tags[a] = tags], [kind |-> "tags", assets |-> {a}, tags |-> tags])

FirstOf(items) == IF items = <<>> THEN NoCover ELSE items[1]

create_album(id, chosen) ==
    IF ~validate_asset_ids(chosen) THEN RefusedChange
    ELSE /\ id \notin DOMAIN shelf.albums \cup {a.id : a \in shelfRows.albums}
         /\ LET album == [items |-> Sorted(chosen), cover |-> FirstOf(Sorted(chosen))]
            IN Changed([shelf EXCEPT !.albums = [k \in DOMAIN @ \cup {id} |->
                                                    IF k = id THEN album ELSE @[k]]],
                       [kind |-> "create", album |-> id, assets |-> chosen])

add_album_assets(id, chosen) ==
    IF ~validate_asset_ids(chosen) THEN RefusedChange
    ELSE LET old == shelf.albums[id]
             items == old.items \o Sorted(chosen \ Range(old.items))
         IN Changed([shelf EXCEPT !.albums[id] =
                        [items |-> items, cover |-> IF old.cover = NoCover THEN FirstOf(items) ELSE old.cover]],
                    [kind |-> "add", album |-> id, assets |-> chosen])

(* What an album keeps, in its order.                                      *)
Without(items, chosen) ==
    LET kept == Ascending({p \in DOMAIN items : items[p] \notin chosen})
    IN [i \in DOMAIN kept |-> items[kept[i]]]

CoverAfter(old, items, chosen) == IF old.cover \in chosen THEN FirstOf(items) ELSE old.cover

remove_album_assets(id, chosen) ==
    LET old == shelf.albums[id]
        items == Without(old.items, chosen)
    IN Changed([shelf EXCEPT !.albums[id] = [items |-> items, cover |-> CoverAfter(old, items, chosen)]],
               [kind |-> "remove", album |-> id, assets |-> chosen])

delete_album(id) ==
    Changed([shelf EXCEPT !.albums = [k \in DOMAIN @ \ {id} |-> @[k]]], [kind |-> "delete", album |-> id])

rename_album(id) == Changed(shelf, [kind |-> "rename", album |-> id])

\* What a client posts is stored as it is, its id and kind included, and changes nothing else.
record_feedback(f) == Recorded(shelf, f)

create_smart_folder == SaveShelf([shelf EXCEPT !.searches = @ + 1])
delete_smart_folder == shelf.searches > 0 /\ SaveShelf([shelf EXCEPT !.searches = @ - 1])

RestartShelf ==
    /\ changeFaults < MaxChangeFaults /\ changeFaults' = changeFaults + 1
    /\ shelf' = load_shelf(shelfRows) /\ UNCHANGED <<shelfRows, changes>>

Requests == SUBSET (Items \cup {Stranger}) \ {{}}

ShelfNext ==
    \/ \E chosen \in Requests, set, clear \in SUBSET Flags :
          set \cap clear = {} /\ set \cup clear # {} /\ update_assets_flags(chosen, set, clear)
    \/ \E a \in Items, tags \in SUBSET TagNames : update_asset_tags(a, tags)
    \/ \E id \in AlbumIds, chosen \in Requests \cup {{}} : create_album(id, chosen)
    \/ \E id \in DOMAIN shelf.albums, chosen \in Requests :
          add_album_assets(id, chosen) \/ remove_album_assets(id, chosen)
    \/ \E id \in DOMAIN shelf.albums : delete_album(id) \/ rename_album(id)
    \/ \E f \in Posted : record_feedback(f)
    \/ create_smart_folder \/ delete_smart_folder \/ RestartShelf

ShelfSpec == ShelfInit /\ [][ShelfNext]_shelfVars
-----------------------------------------------------------------------------
(* An album has a cover exactly when it has assets, and it is one of them, *)
(* in memory and in the database, after any order of additions, removals,  *)
(* failed saves and restarts (add_ and remove_album_assets, load_albums).  *)
CoverIsOfItsAlbum ==
    \A albums \in {shelf.albums, load_albums(shelfRows)} : \A id \in DOMAIN albums :
        IF albums[id].items = <<>> THEN albums[id].cover = NoCover
        ELSE albums[id].cover \in Range(albums[id].items)

(* The feedback records the service made tell the whole story: played over *)
(* an empty library they give the flags, tags and albums, in memory as in  *)
(* the database.  No refused request has changed anything, no change is    *)
(* without its record, and a restart loses a change only together with its *)
(* record.  Posted records are passed over, by their ids: their kind does  *)
(* not tell them from others, and they may claim changes nobody made.      *)
Retold(s, e) ==
    CASE e.kind = "flags" -> [s EXCEPT !.flags = [a \in Items |->
                                 IF a \in e.assets THEN (@[a] \ e.clear) \cup e.set ELSE @[a]]]
      [] e.kind = "tags" -> [s EXCEPT !.tags = [a \in Items |-> IF a \in e.assets THEN e.tags ELSE @[a]]]
      [] e.kind = "create" -> [s EXCEPT !.albums = @ \cup {e.album}, !.members = @ \cup {e.album} \X e.assets]
      [] e.kind = "add" -> [s EXCEPT !.members = @ \cup {e.album} \X e.assets]
      [] e.kind = "remove" -> [s EXCEPT !.members = @ \ ({e.album} \X e.assets)]
      [] e.kind = "delete" -> [s EXCEPT !.albums = @ \ {e.album}, !.members = @ \ ({e.album} \X Items)]
      [] OTHER -> s

Heard(s, f) == IF f.id = Drawn THEN Retold(s, f.event) ELSE s

Untouched == [flags |-> [a \in Items |-> {}], tags |-> [a \in Items |-> {}], albums |-> {}, members |-> {}]

Played(story) ==
    LET told[n \in 0..Len(story)] == IF n = 0 THEN Untouched ELSE Heard(told[n - 1], story[n])
    IN told[Len(story)]

Told(s) == [flags |-> s.flags, tags |-> s.tags, albums |-> DOMAIN s.albums,
            members |-> UNION {{id} \X Range(s.albums[id].items) : id \in DOMAIN s.albums}]

RecordsTellAll == \A s \in {shelf, load_shelf(shelfRows)} : Told(s) = Played(s.feedback)

(* Albums and the record of changes agree with each other.                 *)
AlbumsAgree == CoverIsOfItsAlbum /\ RecordsTellAll
=============================================================================
