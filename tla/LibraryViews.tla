---------------------------- MODULE LibraryViews ----------------------------
(***************************************************************************)
(* The views derived from the assets (places and events) and the people    *)
(* the user assigns, with the corrections that change them: each handler   *)
(* of service.rs changes the library in memory under its write lock,       *)
(* re-derives what it re-derives, and saves the whole store in one         *)
(* transaction; a start loads the store and derives what is missing.       *)
(***************************************************************************)
EXTENDS FiniteSets, Integers, Sequences, Functions, Sorting

CONSTANTS
    Assets,       \* 1..n, in the order of the vector
    Labels,       \* 1..k, place labels in string order
    Coords,       \* coordinates; the label made from a coordinate bears its number
    Hours,        \* hours at which an asset may have been taken
    ExifHour, ExifGeo,   \* what the file of an asset says of itself, or Unknown
    MaxPeople, MaxCalls, MaxViewFaults

ASSUME ViewsAssumption ==
    /\ IsFiniteSet(Assets) /\ Assets = 1..Cardinality(Assets)
    /\ IsFiniteSet(Labels) /\ Labels = 1..Cardinality(Labels)
    /\ Coords \subseteq Labels /\ Hours \subseteq Nat
    /\ ExifHour \in [Assets -> Hours \cup {0}] /\ ExifGeo \in [Assets -> Coords \cup {0}]
    /\ MaxPeople \in Nat /\ MaxCalls \in Nat /\ MaxViewFaults \in Nat

VARIABLES
    lib,      \* the library in memory
    store,    \* the rows of the database
    readable, \* assets whose plaintext file is in the library
    hidden,   \* assets whose exact position the user asked to hide, and was told so
    viewCalls, viewFaults

viewVars == <<lib, store, readable, hidden, viewCalls, viewFaults>>

Unknown == 0
Nobody == {}
gps_place_hint(c) == c

Ids(views) == {views[i].id : i \in DOMAIN views}
Fresh(taken) == CHOOSE i \in 1..Cardinality(taken) + 1 : i \notin taken

(***************************************************************************)
(* derive_places: assets by their place hint, or by the label of a         *)
(* position that is not hidden.  A label keeps the id of the place that    *)
(* had it; of two places with one label, the later in the list.            *)
(***************************************************************************)
visible(g) == g.at # Unknown /\ ~g.hidden

Hint(a, l) == IF l.hint[a] # Unknown THEN l.hint[a]
              ELSE IF visible(l.geo[a]) THEN gps_place_hint(l.geo[a].at) ELSE Unknown


Here(l, label) == {a \in l.assets : Hint(a, l) = label}

KnownAs(label, places) ==
    LET had == {i \in DOMAIN places : places[i].label = label}
    IN IF had = {} THEN {} ELSE {places[CHOOSE i \in had : \A j \in had : j <= i].id}

PlaceOf(label, l, taken, out) ==
    LET known == KnownAs(label, l.places)
    IN [id |-> IF known # {} THEN CHOOSE i \in known : TRUE ELSE Fresh(taken \cup Ids(l.places) \cup Ids(out)),
        label |-> label, assets |-> Here(l, label),
        pins |-> {l.geo[a].at : a \in {b \in Here(l, label) : visible(l.geo[b])}}]

derive_places(l, taken) ==
    LET out[label \in 0..Cardinality(Labels)] ==
            IF label = 0 THEN <<>>
            ELSE IF Here(l, label) = {} THEN out[label - 1]
            ELSE Append(out[label - 1], PlaceOf(label, l, taken, out[label - 1]))
    IN out[Cardinality(Labels)]

(***************************************************************************)
(* events::cluster_assets: in the order they were taken, a new event after *)
(* a gap of more than eight hours, or of more than two when the place      *)
(* differs from that of the event's first asset.                           *)
(***************************************************************************)
ByTime(l) == SortedBy(l.assets, [a \in l.assets |-> l.hour[a] * (Cardinality(Assets) + 1) + a])

Splits(l, event, a) ==
    LET gap == l.hour[a] - l.hour[event[Len(event)]]
    IN gap > 8 \/ (gap > 2 /\ l.hint[a] # l.hint[event[1]])

Gathered(l, out, a) ==
    IF out = <<>> \/ Splits(l, out[Len(out)], a) THEN Append(out, <<a>>)
    ELSE [out EXCEPT ![Len(out)] = Append(@, a)]

cluster_assets(l) ==
    LET sorted == ByTime(l)
        out[n \in 0..Cardinality(l.assets)] == IF n = 0 THEN <<>> ELSE Gathered(l, out[n - 1], sorted[n])
    IN out[Cardinality(l.assets)]

(* derive_events: an event of the same assets keeps its id and the title   *)
(* the user gave it; its place is that of its first asset with a hint.     *)

\* Fault: the order of the assets tells two events apart.
SameList(x, y) == x = y

same_asset_set(x, y) == Range(x) = Range(y)

EventPlace(l, places, event) ==
    LET hinted == {i \in DOMAIN event : l.hint[event[i]] # Unknown}
        first == CHOOSE i \in hinted : \A j \in hinted : i <= j
        found == {p \in Range(places) : hinted # {} /\ p.label = l.hint[event[first]]}
    IN IF found = {} THEN Unknown ELSE (CHOOSE p \in found : TRUE).id

EventOf(l, places, taken, out, event) ==
    LET same == {i \in DOMAIN l.events : same_asset_set(l.events[i].assets, event)}
        first == CHOOSE i \in same : \A j \in same : i <= j
    IN [id |-> IF same # {} THEN l.events[first].id ELSE Fresh(taken \cup Ids(l.events) \cup Ids(out)),
        assets |-> event, titled |-> IF same # {} THEN l.events[first].titled ELSE FALSE,
        place |-> EventPlace(l, places, event), people |-> Nobody]

derive_events(l, places, taken) ==
    LET events == cluster_assets(l)
        out[n \in 0..Len(events)] ==
            IF n = 0 THEN <<>> ELSE Append(out[n - 1], EventOf(l, places, taken, out[n - 1], events[n]))
    IN out[Len(events)]

(***************************************************************************)
(* refresh_derived_views: a label made from a position that is hidden now  *)
(* is dropped, then places and events are derived.                         *)
(***************************************************************************)
HintsOf(l) == [a \in Assets |->
                IF l.geo[a].hidden /\ l.hint[a] = gps_place_hint(l.geo[a].at) THEN Unknown
                ELSE l.hint[a]]

StoredPlaces == {row.id : row \in store.place_clusters}
StoredEvents == {row.id : row \in store.event_clusters}

rebuilt_places(l) == [l EXCEPT !.places = derive_places(l, StoredPlaces)]
rebuilt_events(l) == [l EXCEPT !.events = derive_events(l, l.places, StoredEvents)]
refresh_derived_views(l) == rebuilt_events(rebuilt_places([l EXCEPT !.hint = HintsOf(l)]))

(* refresh_missing_derived_views, on the library a start has loaded.       *)
refresh_missing_derived_views(l) ==
    IF l.assets # {} /\ (l.places = <<>> \/ l.events = <<>> \/ \E a \in l.assets : l.geo[a].hidden)
    THEN refresh_derived_views(l) ELSE l

(***************************************************************************)
(* save_state and load_state, for the tables of this module.  A row that   *)
(* refers to a place or a person that is not there, or repeats a key, is   *)
(* refused and with it the whole transaction.                              *)
(***************************************************************************)
SavePlaces(l) == [clusters |-> {[id |-> p.id, label |-> p.label, pins |-> p.pins] : p \in Range(l.places)},
                  members |-> UNION {{p.id} \X p.assets : p \in Range(l.places)}]

SaveEvents(l) == [clusters |-> {[id |-> e.id, titled |-> e.titled, place |-> e.place,
                                 people |-> e.people] : e \in Range(l.events)},
                  members |-> UNION {{e.id} \X Range(e.assets) : e \in Range(l.events)}]

SavedRows(l) ==
    [assets |-> {[id |-> a, hour |-> l.hour[a], hint |-> l.hint[a]] : a \in l.assets},
     asset_metadata |-> {[id |-> a, geo |-> l.geo[a]] : a \in l.assets},
     place_clusters |-> SavePlaces(l).clusters, place_assets |-> SavePlaces(l).members,
     event_clusters |-> SaveEvents(l).clusters, event_assets |-> SaveEvents(l).members,
     person_clusters |-> l.people]

KeysHold(views) == \A i, j \in DOMAIN views : views[i].id = views[j].id => i = j

Fits(l) ==
    /\ KeysHold(l.places) /\ KeysHold(l.events)
    /\ \A e \in Range(l.events) : e.place \in Ids(l.places) \cup {Unknown}

LoadAssets(rows) == {row.id : row \in rows.assets}

Column(rows, field(_), default) ==
    [a \in Assets |-> IF \E row \in rows : row.id = a
                      THEN field(CHOOSE row \in rows : row.id = a) ELSE default]

LoadMetadata(rows) == Column(rows.asset_metadata, LAMBDA row : row.geo, [at |-> Unknown, hidden |-> FALSE])

LoadPlaces(rows) ==
    LET sorted == SortedBy(rows.place_clusters, [row \in rows.place_clusters |-> row.label])
    IN [i \in DOMAIN sorted |->
          [id |-> sorted[i].id, label |-> sorted[i].label, pins |-> sorted[i].pins,
           assets |-> {m[2] : m \in {n \in rows.place_assets : n[1] = sorted[i].id}}]]

LoadEvents(rows) ==
    LET sorted == SortedBy(rows.event_clusters, [row \in rows.event_clusters |-> row.id])
    IN [i \in DOMAIN sorted |->
          [id |-> sorted[i].id, titled |-> sorted[i].titled, place |-> sorted[i].place,
           people |-> sorted[i].people,
           assets |-> Ascending({m[2] : m \in {n \in rows.event_assets : n[1] = sorted[i].id}})]]

load_people(rows) == rows.person_clusters

load_state(rows) ==
    [assets |-> LoadAssets(rows),
     hour |-> Column(rows.assets, LAMBDA row : row.hour, 0),
     hint |-> Column(rows.assets, LAMBDA row : row.hint, Unknown),
     geo |-> LoadMetadata(rows), places |-> LoadPlaces(rows), events |-> LoadEvents(rows),
     people |-> load_people(rows)]

Empty == [assets |-> {}, hour |-> [a \in Assets |-> 0], hint |-> [a \in Assets |-> Unknown],
          geo |-> [a \in Assets |-> [at |-> Unknown, hidden |-> FALSE]],
          places |-> <<>>, events |-> <<>>, people |-> {}]

ViewsInit ==
    /\ lib = Empty
    /\ store = SavedRows(Empty)
    /\ readable = {} /\ hidden = {} /\ viewCalls = 0 /\ viewFaults = 0

(***************************************************************************)
(* The end of a handler, persist_locked_state: the rows are replaced as a  *)
(* whole, or the save fails and memory is ahead of the store.              *)
(***************************************************************************)
Answer(l, ask) ==
    /\ viewCalls < MaxCalls /\ viewCalls' = viewCalls + 1
    /\ lib' = l
    /\ \/ Fits(l) /\ store' = SavedRows(l) /\ hidden' = ask /\ UNCHANGED viewFaults
       \/ /\ viewFaults < MaxViewFaults \/ ~Fits(l)
          /\ viewFaults' = IF Fits(l) THEN viewFaults + 1 ELSE viewFaults
          /\ hidden' = hidden \cap ask /\ UNCHANGED store

\* An answer of NotFound after the library in memory was changed: nothing is saved.
Unsaved(l, ask) ==
    /\ viewCalls < MaxCalls /\ viewCalls' = viewCalls + 1
    /\ lib' = l /\ hidden' = hidden \cap ask /\ UNCHANGED <<store, viewFaults>>

(* An import, of either kind: the asset arrives with what its sidecar says. *)
ImportAsset(a, hour, geo) ==
    /\ a \notin lib.assets /\ \A b \in Assets : b < a => b \in lib.assets
    /\ LET arrived == [lib EXCEPT !.assets = @ \cup {a}, !.hour[a] = hour,
                                  !.geo[a] = [at |-> geo, hidden |-> FALSE],
                                  !.hint[a] = IF geo = Unknown THEN Unknown ELSE gps_place_hint(geo)]
       IN Answer(refresh_derived_views(arrived), hidden)
    /\ readable' = readable \cup {a}

(* The default policy takes the plaintext away once the asset is sealed.   *)
Seal(a) == a \in readable /\ readable' = readable \ {a}
           /\ UNCHANGED <<lib, store, hidden, viewCalls, viewFaults>>

correct_asset_date(a, hour) ==
    /\ a \in lib.assets
    /\ Answer(refresh_derived_views([lib EXCEPT !.hour[a] = hour]), hidden)
    /\ UNCHANGED readable

(***************************************************************************)
(* rebuild_metadata reads every file again, without its sidecars; a file   *)
(* that is not there says nothing.  A position that was hidden stays       *)
(* hidden, and stays when the file has none.                               *)
(***************************************************************************)
Exif(a, table) == IF a \in readable THEN table[a] ELSE Unknown

preserve_hidden_geo(before, extracted) ==
    IF ~before.hidden THEN [at |-> extracted, hidden |-> FALSE]
    ELSE IF extracted # Unknown THEN [at |-> extracted, hidden |-> TRUE] ELSE before

RebuiltHint(a) ==
    LET geo == lib.geo[a] found == Exif(a, ExifGeo)
    IN IF geo.hidden /\ lib.hint[a] = gps_place_hint(geo.at) THEN Unknown
       ELSE IF ~geo.hidden /\ lib.hint[a] = Unknown /\ found # Unknown THEN gps_place_hint(found)
       ELSE lib.hint[a]

rebuild_metadata ==
    /\ Answer(refresh_derived_views(
          [lib EXCEPT !.hour = [a \in Assets |-> IF a \in lib.assets /\ Exif(a, ExifHour) # Unknown
                                                 THEN ExifHour[a] ELSE lib.hour[a]],
                      !.hint = [a \in Assets |-> IF a \in lib.assets THEN RebuiltHint(a) ELSE @[a]],
                      !.geo = [a \in Assets |-> IF a \in lib.assets
                                   THEN preserve_hidden_geo(@[a], Exif(a, ExifGeo)) ELSE @[a]]]),
              hidden)
    /\ UNCHANGED readable

rebuild_places == Answer(rebuilt_places(lib), hidden) /\ UNCHANGED readable
rebuild_events == Answer(rebuilt_events(lib), hidden) /\ UNCHANGED readable

(***************************************************************************)
(* correct_place: the place takes the label and every asset in it the hint *)
(* and, when a position or a choice to hide is given, that.  When another  *)
(* place has the label already, the derivation may keep that one's id: the *)
(* corrected place is not found any more, after all this.                  *)
(***************************************************************************)
Corrected(geo, at, hide) ==
    IF at # Unknown THEN [at |-> at, hidden |-> hide # "show"]
    ELSE IF hide = "" \/ geo.at = Unknown THEN geo ELSE [geo EXCEPT !.hidden = (hide = "hide")]

Asked(l, members) == (hidden \ members) \cup {a \in members : l.geo[a].hidden}

correct_place(i, label, at, hide) ==
    /\ i \in DOMAIN lib.places
    /\ LET members == lib.places[i].assets
           corrected == [lib EXCEPT !.places[i].label = label,
                !.hint = [a \in Assets |-> IF a \in members THEN label ELSE @[a]],
                !.geo = [a \in Assets |-> IF a \in members THEN Corrected(@[a], at, hide) ELSE @[a]]]
           after == refresh_derived_views(corrected)
       IN IF lib.places[i].id \in Ids(after.places) THEN Answer(after, Asked(after, members))
          ELSE Unsaved(after, Asked(after, members))
    /\ UNCHANGED readable

title_event(i) ==
    /\ i \in DOMAIN lib.events
    /\ Answer([lib EXCEPT !.events[i].titled = TRUE], hidden)
    /\ UNCHANGED readable

(***************************************************************************)
(* People: refresh_event_people_from_people writes into every event the    *)
(* people seen in it who are not hidden.                                   *)
(***************************************************************************)
refresh_event_people_from_people(l) ==
    [l EXCEPT !.events = [i \in DOMAIN l.events |->
        [l.events[i] EXCEPT !.people = {p.id : p \in {q \in l.people :
            ~q.hidden /\ q.assets \cap Range(l.events[i].assets) # {}}}]]]

WithPeople(people) ==
    /\ Answer(refresh_event_people_from_people([lib EXCEPT !.people = people]), hidden)
    /\ UNCHANGED readable

create_manual_person(chosen) ==
    /\ Cardinality(lib.people) < MaxPeople /\ chosen \subseteq lib.assets
    /\ WithPeople(lib.people \cup {[id |-> Fresh({p.id : p \in lib.people \cup store.person_clusters}),
                                    assets |-> chosen, hidden |-> FALSE]})

add_person_assets(p, chosen) ==
    /\ chosen # {} /\ chosen \subseteq lib.assets
    /\ WithPeople((lib.people \ {p}) \cup {[p EXCEPT !.assets = @ \cup chosen]})

remove_person_assets(p, chosen) ==
    /\ chosen # {}
    /\ WithPeople((lib.people \ {p}) \cup {[p EXCEPT !.assets = @ \ chosen]})

\* The events keep the person: only what is derived from people later leaves them out.
hide_person(p, hide) ==
    /\ Answer([lib EXCEPT !.people = (@ \ {p}) \cup {[p EXCEPT !.hidden = hide]}], hidden)
    /\ UNCHANGED readable

\* Fault: a merge forgets the links of the source.
LinksLeft(people, target, source) == people

MergedLinks(people, target, source) ==
    IF source.id \in people THEN (people \ {source.id}) \cup {target.id} ELSE people

MergedInto(target, source) == [target EXCEPT !.assets = @ \cup source.assets]

merge_person(target, source) ==
    /\ target # source
    /\ Answer([lib EXCEPT
          !.people = (@ \ {source, target}) \cup {MergedInto(target, source)},
          !.events = [i \in DOMAIN lib.events |->
                          [lib.events[i] EXCEPT !.people = MergedLinks(@, target, source)]]], hidden)
    /\ UNCHANGED readable

reset_people ==
    /\ Answer([lib EXCEPT !.people = {},
                          !.events = [i \in DOMAIN lib.events |->
                                          [lib.events[i] EXCEPT !.people = Nobody]]], hidden)
    /\ UNCHANGED readable

(* The process ends and starts again: GalleryService::new.                 *)
Restart ==
    /\ viewFaults < MaxViewFaults /\ viewFaults' = viewFaults + 1
    /\ lib' = refresh_missing_derived_views(load_state(store))
    /\ UNCHANGED <<store, readable, hidden, viewCalls>>

PeopleCalls ==
    \/ \E chosen \in SUBSET Assets : create_manual_person(chosen)
    \/ \E p \in lib.people, chosen \in SUBSET Assets :
          add_person_assets(p, chosen) \/ remove_person_assets(p, chosen)
    \/ \E p \in lib.people, hide \in BOOLEAN : hide_person(p, hide)
    \/ \E p, q \in lib.people : merge_person(p, q)
    \/ reset_people

ViewsNext ==
    \/ \E a \in Assets, hour \in Hours, geo \in Coords \cup {Unknown} : ImportAsset(a, hour, geo)
    \/ \E a \in Assets : Seal(a)
    \/ \E a \in Assets, hour \in Hours : correct_asset_date(a, hour)
    \/ rebuild_metadata \/ rebuild_places \/ rebuild_events
    \/ \E i \in DOMAIN lib.places, label \in Labels, at \in Coords \cup {Unknown},
          hide \in {"", "hide", "show"} : correct_place(i, label, at, hide)
    \/ \E i \in DOMAIN lib.events : title_event(i)
    \/ PeopleCalls \/ Restart

ViewsSpec == ViewsInit /\ [][ViewsNext]_viewVars
-----------------------------------------------------------------------------
(* Memory can always be saved: an event's place, the people it links and   *)
(* the keys of all views exist once, whatever was renamed, merged, reset   *)
(* or derived again (save_state's foreign keys; merge_person, correct_place, *)
(* derive_places).                                                         *)
LinksResolve ==
    /\ Fits(lib)
    /\ \A e \in Range(lib.events) : e.people \subseteq {p.id : p \in lib.people}

(* A position the user hid is shown by no place, label or pin until the    *)
(* user shows it again: not after metadata is rebuilt from the file, after *)
(* a merge of places or a restart (GeoTag::visible, preserve_hidden_geo,   *)
(* refresh_derived_views).                                                 *)
HiddenIsNotShown ==
    \A a \in hidden :
        /\ lib.geo[a].hidden /\ lib.hint[a] # gps_place_hint(lib.geo[a].at)
        /\ \A p \in Range(lib.places) : a \in p.assets =>
              /\ p.label # gps_place_hint(lib.geo[a].at)
              /\ p.pins = {lib.geo[b].at : b \in {c \in p.assets : visible(lib.geo[c])}}

(* A title given by the user stays with the moment, and the moment keeps   *)
(* its identity, as long as it consists of the same assets (derive_events),*)
(* over every derivation and every restart that loads what was in memory.  *)
TitlesStay ==
    [][(store' # store \/ lib' # refresh_missing_derived_views(load_state(store)) \/ store = SavedRows(lib)) =>
        \A e \in Range(lib.events) : e.titled =>
            \A f \in Range(lib'.events) :
                Range(f.assets) = Range(e.assets) => f.id = e.id /\ f.titled]_viewVars

(* A start shows the places and moments that were saved, under their ids,  *)
(* even when it derives them anew.                                         *)
RestartKeepsViews ==
    [][(viewCalls' = viewCalls /\ viewFaults' # viewFaults /\ store = SavedRows(lib)) =>
        /\ Range(lib'.places) = Range(lib.places)
        /\ {[e EXCEPT !.people = Nobody, !.assets = Range(@)] : e \in Range(lib'.events)}
             = {[e EXCEPT !.people = Nobody, !.assets = Range(@)] : e \in Range(lib.events)}]_viewVars

(* Derived views never point at what is gone nor show what is hidden.      *)
ViewsAreSound == LinksResolve /\ HiddenIsNotShown

(* What the user corrected outlives derivations and restarts.              *)
CorrectionsLast == TitlesStay /\ RestartKeepsViews
=============================================================================
