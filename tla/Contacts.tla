------------------------------ MODULE Contacts ------------------------------
(***************************************************************************)
(* Contact areas, the search index over them, and rooms as clients get     *)
(* them (ContactsService, RoomsService).                                   *)
(*                                                                         *)
(* An edition of the content is                                            *)
(*    areas, persons, rooms : slug or key -> document or None.             *)
(* Areas and persons have texts per language, None where there is no       *)
(* published entry in it, and the persons of an area are linked per        *)
(* language.  Rooms are not localised: they carry both names, Blank where  *)
(* one is not filled in, and there are more of them than one response of   *)
(* Strapi holds.                                                           *)
(***************************************************************************)
EXTENDS EditorialTexts, FiniteSets

CONSTANTS
    AreaSlugs, PersonIds,
    RoomKeys,         \* numbers, in the order of the keys
    Catalogue,        \* the rooms of the bundled map
    PageSize          \* rooms per response

(* What editors write.                                                     *)
RoomDoc == [active : BOOLEAN, visible : BOOLEAN, de : German \cup {Blank},
            en : English \cup {Blank}]
PersonDoc == [active : BOOLEAN, rev : Nat, de : German \cup {Blank, None},
              en : English \cup {Blank, None}, rooms : SUBSET RoomKeys]
AreaDoc == [active : BOOLEAN, rev : Nat, de : German \cup {None}, en : English \cup {None},
            rooms : SUBSET RoomKeys, persons : [{"de", "en"} -> SUBSET PersonIds]]
ContactEditions == [areas : [AreaSlugs -> AreaDoc \cup {None}],
                    persons : [PersonIds -> PersonDoc \cup {None}],
                    rooms : [RoomKeys -> RoomDoc \cup {None}]]

(* What clients ask for, and what they and the API are told of it.         *)
ContactRoutes == {"areas", "search", "area", "rooms"}
ContactKeys == {k \in [route : ContactRoutes, locale : {"de", "en"}, slug : AreaSlugs \cup {None}] :
                   (k.route = "area") = (k.slug # None)}
RoomRow == [room : RoomKeys, name : Text, german : BOOLEAN]
PersonRow == [person : PersonIds, rev : Nat, role : Text, rooms : SUBSET RoomRow]
AreaRow == [slug : AreaSlugs, rev : Nat, text : Text, persons : SUBSET PersonRow,
            rooms : SUBSET RoomRow]
CountedRow == [slug : AreaSlugs, rev : Nat, text : Text, count : Nat]
AreaAnswer == [items : SUBSET (AreaRow \cup CountedRow), fallback : BOOLEAN]

ASSUME DirectoryAssumption ==
    /\ \A s \in Scenarios : \A k \in s.keys :
          k.route \in ContactRoutes => k \in ContactKeys /\ s.editions \subseteq ContactEditions
    /\ IsFiniteSet(PersonIds) /\ IsFiniteSet(RoomKeys) /\ RoomKeys \subseteq Int
    /\ None \notin AreaSlugs \cup PersonIds \cup RoomKeys
    /\ None \notin AreaDoc \cup PersonDoc \cup RoomDoc
    /\ None \notin AreaRow \cup CountedRow \cup AreaAnswer

(* Bound: the rooms of Strapi fill at most two responses.                  *)
ASSUME PageAssumption ==
    PageSize \in Nat \ {0} /\ Cardinality(RoomKeys) <= 2 * PageSize

(***************************************************************************)
(* Rooms                                                                   *)
(***************************************************************************)
(* localisedEditorial: without an English name the German one is shown.    *)
NameIn(room, locale) ==
    IF locale = "de" \/ room.en = Blank THEN room.de ELSE room.en
FallsBack(room, locale) == locale # "de" /\ room.en = Blank /\ room.de # Blank

Visible(e, r) == r \in Published(e.rooms) /\ e.rooms[r].active /\ e.rooms[r].visible
RoomRef(e, r, locale) ==
    [room |-> r, name |-> NameIn(e.rooms[r], locale), german |-> FallsBack(e.rooms[r], locale)]
RoomRefs(e, rooms, locale) ==
    {RoomRef(e, r, locale) : r \in {x \in rooms \cap Catalogue : Visible(e, x)}}

(* The page of the list that a room is on, in the order of the keys.       *)
PageOf(e, r) ==
    (Cardinality({x \in DOMAIN e.rooms : Visible(e, x) /\ x < r}) \div PageSize) + 1
RoomPage(e, n, locale) ==
    RoomRefs(e, {r \in DOMAIN e.rooms : Visible(e, r) /\ PageOf(e, r) = n}, locale)

(***************************************************************************)
(* What Strapi returns for areas                                           *)
(***************************************************************************)
(* mapPerson: those of the entry's language that are not switched off.     *)
DeliversAnyone(e, p) == TRUE            \* mutant: isActive is not looked at
Delivers(e, p) == e.persons[p].active
PersonsIn(e, a, locale, shown) ==
    {[person |-> p, rev |-> e.persons[p].rev, role |-> e.persons[p][locale],
      rooms |-> RoomRefs(e, e.persons[p].rooms, shown)] :
        p \in {x \in a.persons[locale] \cap Published(e.persons) :
                  e.persons[x][locale] # None /\ Delivers(e, x)}}
AreaEntry(e, s, locale, shown) ==
    LET a == e.areas[s]
    IN  [slug |-> s, rev |-> a.rev, text |-> a[locale],
         persons |-> PersonsIn(e, a, locale, shown), rooms |-> RoomRefs(e, a.rooms, shown)]
AreaEntries(k, e, locale) ==
    {AreaEntry(e, s, locale, k.locale) :
        s \in {x \in Published(e.areas) : /\ e.areas[x].active /\ e.areas[x][locale] # None
                                          /\ k.slug \in {None, x}}}

(***************************************************************************)
(* The reads of each route                                                 *)
(***************************************************************************)
IsRooms(k) == k.route = "rooms"
ContactsParallel(k) == ~IsRooms(k)
ContactsUnasked(k) == FALSE
ContactsEmpty(k) == None
ContactsTtl(k) == 2                             \* 60 s
StopsAtFirstPage(k, first) == ~IsRooms(k) /\ Localised(k)   \* mutant: the REST limit
ContactsMore(k, first) == IF IsRooms(k) THEN first.pages > 1 ELSE Localised(k)
ContactsFirst(k, e) ==
    IF IsRooms(k)
    THEN [rooms |-> RoomPage(e, 1, k.locale),
          pages |-> (Cardinality({r \in DOMAIN e.rooms : Visible(e, r)}) + PageSize - 1)
                        \div PageSize]
    ELSE AreaEntries(k, e, "de")
ContactsSecond(k, e, first) ==
    IF IsRooms(k) THEN RoomPage(e, 2, k.locale) ELSE AreaEntries(k, e, k.locale)

(***************************************************************************)
(* Merging                                                                 *)
(***************************************************************************)
(* The texts and the persons are those of the translation, the rest is     *)
(* canonical.                                                              *)
MergedArea(raw, x) ==
    IF x = None THEN raw ELSE [raw EXCEPT !.text = x.text, !.persons = x.persons]
HasGermanRoom(raw) == \E r \in raw.rooms : r.german

(* The list tells how many persons there are, of the canonical entry.      *)
Counted(raw, x) ==
    [slug |-> raw.slug, rev |-> raw.rev, text |-> MergedArea(raw, x).text,
     count |-> Cardinality(raw.persons)]
AreasMerged(k, first, second) ==
    LET x(raw) == Overlay(k, second, raw)
    IN  [items |-> {Counted(raw, x(raw)) : raw \in first},
         fallback |-> Localised(k) /\ \E raw \in first : x(raw) = None]
SearchMerged(k, first, second) ==
    LET x(raw) == Overlay(k, second, raw)
    IN  [items |-> {MergedArea(raw, x(raw)) : raw \in first},
         fallback |-> \E raw \in first : (Localised(k) /\ x(raw) = None) \/ HasGermanRoom(raw)]
AreaMerged(k, first, second) ==
    IF first = {} THEN None ELSE SearchMerged(k, first, second)
RoomsMerged(k, first, second) ==
    LET rooms == first.rooms \cup IF second = None THEN {} ELSE second
    IN  [items |-> rooms, fallback |-> \E r \in rooms : r.german]
ContactsMerge(k, first, second) ==
    CASE k.route = "areas" -> AreasMerged(k, first, second)
      [] k.route = "search" -> SearchMerged(k, first, second)
      [] k.route = "area" -> AreaMerged(k, first, second)
      [] OTHER -> RoomsMerged(k, first, second)

(* These are the reads that the machine of CmsReads is run with.           *)
ASSUME ContactsAssumption ==
    \A s \in Scenarios : \A k \in s.keys : k.route \in ContactRoutes =>
        /\ Parallel(k) = ContactsParallel(k) /\ Unasked(k) = ContactsUnasked(k)
        /\ Ttl(k) = ContactsTtl(k) /\ Empty(k) = ContactsEmpty(k)
        /\ \A e, f \in s.editions :
              LET first == ContactsFirst(k, e)
                  second == ContactsSecond(k, f, first)
              IN  /\ First(k, e) = first /\ None \notin {first, second}
                  /\ More(k, first) = ContactsMore(k, first) /\ Second(k, f, first) = second
                  /\ Merge(k, first, None) = ContactsMerge(k, first, None)
                  /\ Merge(k, first, second) = ContactsMerge(k, first, second)

(***************************************************************************)
(* Properties                                                              *)
(***************************************************************************)
(* Whoever and whatever the editors switch off or withdraw - an area, a    *)
(* person with a name, address and telephone number, a room - is gone from *)
(* every answer as soon as that has been built and kept, also from the     *)
(* English one, which has persons of its own (mapPerson, areasCache,       *)
(* searchIndexCache, areaDetailCache, roomsCache).                         *)
RoomWas(k, r) == \E e \in Recent(k) : Visible(e, r)
PersonWas(k, p, rev) ==
    \E e \in Recent(k) : p \in Published(e.persons) /\ e.persons[p].active
                         /\ e.persons[p].rev = rev
AreaWas(k, s) == \E e \in Recent(k) : s \in Published(e.areas) /\ e.areas[s].active
ContactServed == IsServed /\ answer.key.route \in ContactRoutes
ContactsWithdrawnSoon ==
    ContactServed => LET k == answer.key IN \A x \in answer.value.items :
        IF IsRooms(k) THEN RoomWas(k, x.room)
        ELSE /\ AreaWas(k, x.slug)
             /\ k.route # "areas" =>
                   /\ \A r \in x.rooms : RoomWas(k, r.room)
                   /\ \A p \in x.persons : /\ PersonWas(k, p.person, p.rev)
                                           /\ \A r \in p.rooms : RoomWas(k, r.room)

(* An area that has looked the same all that time, with its rooms on the   *)
(* map and the persons of the language, is told exactly like that, and so  *)
(* is a room that has stayed on its page of the list, whatever else is     *)
(* edited or fails (fetchArea, fetchSearchIndex, fetch).                   *)
MeantRooms(e, rooms, locale) ==
    {<<r, NameIn(e.rooms[r], locale)>> : r \in {x \in rooms \cap Catalogue : Visible(e, x)}}
MeantPersons(e, a, locale, shown) ==
    {<<p, e.persons[p].rev, e.persons[p][locale], MeantRooms(e, e.persons[p].rooms, shown)>> :
        p \in {x \in a.persons[locale] : /\ x \in Published(e.persons) /\ e.persons[x].active
                                         /\ e.persons[x][locale] # None}}
IsMeant(e, s) == s \in Published(e.areas) /\ e.areas[s].active /\ e.areas[s].de # None
MeantArea(k, e, s) ==
    LET a == e.areas[s]
        spoken == IF a[k.locale] # None THEN k.locale ELSE "de"
    IN  <<a.rev, a[spoken],
          IF k.route = "areas" THEN Cardinality(MeantPersons(e, a, "de", "de"))
          ELSE <<MeantPersons(e, a, spoken, k.locale), MeantRooms(e, a.rooms, k.locale)>>>>
SameArea(k, e, f, s) ==
    /\ IsMeant(e, s) = IsMeant(f, s)
    /\ IsMeant(e, s) => MeantArea(k, e, s) = MeantArea(k, f, s)
SameRoom(k, e, f, r) ==
    /\ Visible(e, r) = Visible(f, r)
    /\ Visible(e, r) => /\ PageOf(e, r) = PageOf(f, r)
                        /\ NameIn(e.rooms[r], k.locale) = NameIn(f.rooms[r], k.locale)
ToldArea(k, x) ==
    LET names(rooms) == {<<r.room, r.name>> : r \in rooms}
    IN  <<x.rev, x.text,
          IF k.route = "areas" THEN x.count
          ELSE <<{<<p.person, p.rev, p.role, names(p.rooms)>> : p \in x.persons},
                 names(x.rooms)>>>>
ContactsSteadyServed ==
    ContactServed => LET k == answer.key IN
        IF IsRooms(k)
        THEN \A r \in Catalogue :
                LET steady == \A e, f \in Recent(k) : SameRoom(k, e, f, r)
                IN  steady => {x.name : x \in {y \in answer.value.items : y.room = r}}
                                 = IF Visible(cms, r) THEN {NameIn(cms.rooms[r], k.locale)} ELSE {}
        ELSE \A s \in {x \in DOMAIN cms.areas : k.slug \in {None, x}} :
                LET steady == \A e, f \in Recent(k) : SameArea(k, e, f, s)
                IN  steady => {ToldArea(k, x) : x \in {y \in answer.value.items : y.slug = s}}
                                 = IF IsMeant(cms, s) THEN {MeantArea(k, cms, s)} ELSE {}
=============================================================================
