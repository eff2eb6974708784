----------------------------- MODULE MCContacts -----------------------------
(* Small instances of Contacts: one area with two persons and a room, three *)
(* rooms on two pages, and editions that differ in what a route looks at.   *)
EXTENDS Contacts

CONSTANTS Office, Ann, Bob, AreaDe, AreaEn, AreaDe2, RoleDe, RoleEn, RoomDe, RoomEn

Room(visible, de, en) == [active |-> TRUE, visible |-> visible, de |-> de, en |-> en]
Person(active, rev, en, rooms) ==
    [active |-> active, rev |-> rev, de |-> RoleDe, en |-> en, rooms |-> rooms]
Persons(ann, bob) == [p \in {Ann, Bob} |-> IF p = Ann THEN ann ELSE bob]
Area(rev, de, en, english) ==
    [active |-> TRUE, rev |-> rev, de |-> de, en |-> en, rooms |-> {1},
     persons |-> [l \in {"de", "en"} |-> IF l = "de" THEN {Ann, Bob} ELSE english]]
Edition(area, persons, rooms) ==
    [areas |-> [s \in {Office} |-> area], persons |-> persons, rooms |-> rooms]

TheArea == Area(0, AreaDe, AreaEn, {Ann, Bob})
TheAnn == Person(TRUE, 0, RoleEn, {2})
TheBob == Person(TRUE, 0, Blank, {})
Rooms(a, b, c) == [r \in 1 .. 3 |-> CASE r = 1 -> a [] r = 2 -> b [] OTHER -> c]
Named == Room(TRUE, RoomDe, RoomEn)
Hidden == Room(FALSE, RoomDe, RoomEn)
TheRooms == Rooms(Named, Named, Named)

AreaEditions ==
    {Edition(a, Persons(TheAnn, TheBob), TheRooms) :
        a \in {TheArea, Area(1, AreaDe2, None, {}), [TheArea EXCEPT !.active = FALSE],
               [TheArea EXCEPT !.de = None],
               Area(0, AreaDe, AreaEn, {Ann})}}
    \cup {Edition(TheArea, Persons(ann, TheBob), TheRooms) :
        ann \in {Person(FALSE, 0, RoleEn, {2}), Person(TRUE, 1, None, {}), None}}
    \cup {Edition(TheArea, Persons(TheAnn, TheBob), rooms) :
        rooms \in {Rooms(Named, Hidden, Named), Rooms(Room(TRUE, RoomDe, Blank), Named, Named),
                   Rooms(Named, Room(TRUE, RoomDe, Blank), Named)}}
RoomEditions ==
    {Edition(None, Persons(TheAnn, TheBob), Rooms(a, b, c)) :
        a \in {Named, Hidden}, b \in {Named, Hidden},
        c \in {Named, Room(TRUE, RoomDe, Blank)}}

Key(route, locale) == [route |-> route, locale |-> locale, slug |-> None]
MCScenarios ==
    {[keys |-> {[Key("area", "en") EXCEPT !.slug = Office]}, editions |-> AreaEditions]}
    \cup {[keys |-> {Key(r, "en")}, editions |-> AreaEditions] : r \in {"areas", "search"}}
    \cup {[keys |-> {Key("rooms", l)}, editions |-> RoomEditions] : l \in {"de", "en"}}
MCCatalogue == 1 .. 3
=============================================================================
