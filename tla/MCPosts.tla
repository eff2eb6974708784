------------------------------ MODULE MCPosts ------------------------------
(* Small instances of Posts: for each route one or two requests, among a    *)
(* few editions that differ in what this route looks at.                    *)
EXTENDS Posts

CONSTANTS P, Q, Event, News, Ch1, Ch2,
          PDe, PEn, PDe2, PEn2, QDe, QEn, EventDe, EventEn, NewsDe, NewsEn, ChDe, ChEn

Tags(event, news) == [t \in {Event, News} |-> IF t = Event THEN event ELSE news]
TagWith(active, de, en) == [active |-> active, de |-> de, en |-> en]
BothTags == Tags(TagWith(TRUE, EventDe, EventEn), TagWith(TRUE, NewsDe, NewsEn))
ChannelWith(active, de, en) == [active |-> active, rev |-> 0, de |-> de, en |-> en]
Channels(c, d) == [x \in {Ch1, Ch2} |-> IF x = Ch1 THEN c ELSE d]
BothChannels == Channels(ChannelWith(TRUE, ChDe, ChEn), ChannelWith(TRUE, Blank, None))

Post(rev, tag, de, en) ==
    [rev |-> rev, open |-> TRUE, from |-> None, to |-> None, tag |-> tag,
     primary |-> Ch1, channels |-> {Ch1}, de |-> de, en |-> en]
On(p, from, to) == [p EXCEPT !.from = from, !.to = to]
Edition(p, q, tags, channels) ==
    [posts |-> [s \in {P, Q} |-> IF s = P THEN p ELSE q], tags |-> tags, channels |-> channels]

PNews == Post(0, News, PDe, PEn)
PNews2 == Post(1, News, PDe2, PEn2)
PEvent == On(Post(0, Event, PDe, PEn), 1, 3)
PMoved == On(Post(1, Event, PDe, PEn), 4, None)
QNews == [Post(0, News, QDe, QEn) EXCEPT !.channels = {Ch1, Ch2}]
QEvent == On(QNews, 2, None)

(* Posts change their texts, lose their English, close, go; tags lose      *)
(* their translation or go.                                                *)
ListEditions ==
    {Edition(p, QNews, BothTags, BothChannels) :
        p \in {PNews, PNews2, [PNews EXCEPT !.en = None], [PNews EXCEPT !.open = FALSE], None}}
    \cup {Edition(PNews, QNews, Tags(TagWith(TRUE, EventDe, EventEn), news), BothChannels) :
        news \in {TagWith(TRUE, NewsDe, None), TagWith(FALSE, NewsDe, NewsEn), None}}
    \cup {Edition(PNews, QNews, BothTags, Channels(c, ChannelWith(TRUE, Blank, None))) :
        c \in {ChannelWith(FALSE, ChDe, ChEn), None}}
EventEditions ==
    {Edition(p, q, BothTags, BothChannels) :
        p \in {PEvent, PMoved, PNews}, q \in {QEvent, QNews}}
    \cup {Edition(PEvent, QEvent, Tags(TagWith(FALSE, EventDe, EventEn), TagWith(TRUE, NewsDe, NewsEn)),
                  BothChannels)}
CatalogueEditions ==
    {Edition(None, None, Tags(TagWith(TRUE, EventDe, EventEn), news), Channels(c, d)) :
        news \in {TagWith(TRUE, NewsDe, NewsEn), TagWith(TRUE, NewsDe, None)},
        c \in {ChannelWith(TRUE, ChDe, ChEn), ChannelWith(TRUE, ChDe, None),
               ChannelWith(FALSE, ChDe, ChEn)},
        d \in {ChannelWith(TRUE, Blank, None)}}

Key(route, locale) == [route |-> route, locale |-> locale, slug |-> None, channels |-> None,
                       tags |-> None, from |-> 0, to |-> 0]
Asked(keys, editions) == [keys |-> keys, editions |-> editions]
MCScenarios ==
    {Asked({[Key("posts", "en") EXCEPT !.tags = t]}, ListEditions) : t \in {None, {News}}}
    \cup {Asked({[Key("posts", l) EXCEPT !.channels = {}] : l \in {"de", "en"}},
                {Edition(PNews, QNews, BothTags, BothChannels)}),
          Asked({Key("posts", "de")}, ListEditions)}
    \cup {Asked({[Key("events", "en") EXCEPT !.from = 2, !.to = 3, !.channels = c]}, EventEditions) :
            c \in {None, {Ch2}}}
    \cup {Asked({[Key("detail", "en") EXCEPT !.slug = P]}, ListEditions)}
    \cup {Asked({Key(r, "en")}, CatalogueEditions) : r \in {"tags", "channels"}}
=============================================================================
