--------------------------- MODULE CalendarReading ---------------------------
(***************************************************************************)
(* The reading side of the public calendars: the routes of                 *)
(* public-calendar.controller.ts over PublicCalendarService, beside the    *)
(* imports that PublicCalendar models in detail.  Of the imports only the  *)
(* statements that change what a reader sees are here.                     *)
(*                                                                         *)
(* An answer with events is made of two queries, the calendars first, and  *)
(* of the index of derived event ids, which all requests of the process    *)
(* share.  The index is used after the second query and without another    *)
(* await, so one request at a time uses it.                                *)
(*                                                                         *)
(* Instants are half days, counted from the midnight that begins day 0.    *)
(* A calendar is named by its slug, Unknown is the empty slug.  Rows that  *)
(* have no channel are left out: the catalogue writes none.                *)
(***************************************************************************)
EXTENDS Integers, Sequences, FiniteSets, SequencesExt

CONSTANTS Calendars,      \* slugs, numbers in their order
          Contents,       \* what a feed may hold
          Selections,     \* values of the query parameter "calendar"
          Ranges,         \* pairs from, to of days or Null
          Malformed,      \* a value that is no slug
          Unknown, Null,
          MaxServed,      \* PUBLIC_CALENDAR_API_MAX_EVENTS
          MaxCalendars,   \* PUBLIC_CALENDAR_API_MAX_CALENDARS
          MaxRange,       \* PUBLIC_CALENDAR_API_MAX_RANGE_DAYS
          MaxKeys,        \* MAX_EVENT_KEY_CACHE
          StaleAfter,     \* PUBLIC_CALENDAR_STALE_AFTER_MINUTES, in half days
          MaxNow, MaxWrites, MaxRequests      \* bounds of the model

(* The occurrence keys of a calendar are unique, by an index of the table. *)
ASSUME ReadingAssumption ==
    /\ Calendars \subseteq Int /\ IsFiniteSet(Calendars)
    /\ Unknown \notin Calendars /\ Malformed \notin Calendars /\ Null \notin Int \cup BOOLEAN
    /\ {MaxServed, MaxCalendars, MaxKeys} \subseteq Nat \ {0}
    /\ {MaxRange, StaleAfter, MaxNow, MaxWrites, MaxRequests} \subseteq Nat
    /\ Selections \subseteq Seq(Calendars \cup {Malformed})
    /\ Ranges \subseteq (Int \cup {Null}) \X (Int \cup {Null})
    /\ {} \in Contents
    /\ \A E \in Contents :
          /\ IsFiniteSet(E) /\ E \subseteq [key : Int, start : Int, end : Int]
          /\ \A e, f \in E : e.key = f.key => e = f

VARIABLES now,
          row,        \* calendar -> its row in public_calendars
          events,     \* calendar -> its rows in public_calendar_events
          task,       \* calendar -> the statement its import still has to make
          asOf,       \* history: calendar -> content -> when an import last found it
          request,    \* the request under way
          answer,     \* the answer just given
          index,      \* eventKeyCache and eventKeyCacheEntries
          writes, requests

tables == <<row, events, task, asOf>>
api == <<request, answer, index, requests>>
readingVars == <<now, tables, api, writes>>

Slugs == Calendars \cup {Unknown}
Statuses == {"pending", "ready", "stale", "revoked"}
EmptyIndex == [order |-> <<>>, keys |-> [s \in Slugs |-> <<>>], count |-> 0]

ReadingInit ==
    /\ now = 0
    /\ row = [c \in Calendars |-> [active |-> TRUE, status |-> "pending", stamp |-> Null]]
    /\ events = [c \in Calendars |-> {}]
    /\ task = [c \in Calendars |-> "none"]
    /\ asOf = [c \in Calendars |-> [E \in Contents |-> Null]]
    /\ request = Null
    /\ answer = Null
    /\ index = EmptyIndex
    /\ writes = 0
    /\ requests = 0

(***************************************************************************)
(* The imports                                                             *)
(***************************************************************************)
Writes == /\ writes < MaxWrites
          /\ writes' = writes + 1
          /\ answer' = Null
          /\ UNCHANGED <<now, request, index, requests>>

Found(c, E) == asOf' = [asOf EXCEPT ![c][E] = now]

(* A new body is reconciled in one transaction and confirmed afterwards.   *)
Reconcile(c) ==
    /\ Writes
    /\ row[c].active /\ task[c] = "none"
    /\ \E E \in Contents : events' = [events EXCEPT ![c] = E] /\ Found(c, E)
    /\ task' = [task EXCEPT ![c] = "confirm"]
    /\ UNCHANGED row

(* Either the confirmation of a new body, or a feed that has not changed   *)
(* since an earlier success.                                               *)
Confirm(c) ==
    /\ Writes
    /\ \/ task[c] = "confirm"
       \/ task[c] = "none" /\ row[c].active /\ row[c].stamp # Null
    /\ row' = [row EXCEPT ![c].status = "ready", ![c].stamp = now]
    /\ task' = [task EXCEPT ![c] = "none"]
    /\ Found(c, events[c])
    /\ UNCHANGED events

(* A temporary failure keeps the events.                                   *)
Unreachable(c) ==
    /\ Writes
    /\ row[c].active /\ task[c] = "none"
    /\ row' = [row EXCEPT ![c].status = IF row[c].stamp = Null THEN "pending" ELSE "stale"]
    /\ UNCHANGED <<events, task, asOf>>

(* A feed that is gone: its events are removed, then it is marked.         *)
ClearEvents(c) ==
    /\ Writes
    /\ row[c].active /\ task[c] = "none"
    /\ events' = [events EXCEPT ![c] = {}]
    /\ Found(c, {})
    /\ task' = [task EXCEPT ![c] = "mark"]
    /\ UNCHANGED row

MarkGone(c) ==
    /\ Writes
    /\ task[c] = "mark"
    /\ row' = [row EXCEPT ![c].status = "revoked"]
    /\ task' = [task EXCEPT ![c] = "none"]
    /\ UNCHANGED <<events, asOf>>

(* The catalogue retires a calendar, or publishes it again.                *)
RetireOrReadmit(c) ==
    /\ Writes
    /\ row' = [row EXCEPT ![c].active = ~@]
    /\ UNCHANGED <<events, task, asOf>>

(* The worker dies between the two statements of its imports.              *)
Crash ==
    /\ Writes
    /\ task' = [c \in Calendars |-> "none"]
    /\ UNCHANGED <<row, events, asOf>>

(***************************************************************************)
(* The index of event ids: a map of maps that iterates in the order of     *)
(* insertion, and a counter.  keys[s] is the map that the index holds for  *)
(* s or, during a response, the map that the response has been given for   *)
(* s and that the index has dropped since.                                 *)
(***************************************************************************)
Derived(slug, key) == <<slug, key>>      \* the hash tells every pair apart

(* The elements of a finite set in a strict order of them.                 *)
InOrder(S, Earlier(_, _)) ==
    [n \in 1 .. Cardinality(S) |->
        CHOOSE e \in S : Cardinality({f \in S : Earlier(f, e)}) = n - 1]
BySlug(S) == InOrder(S, <)

(* Maps for those slugs of a response that have none, empty as keys has    *)
(* them between two responses: the calendars, here in the order of their   *)
(* slugs, then the empty slug.                                             *)
EventKeysFor(ix, slugs) ==
    LET new == slugs \ ToSet(ix.order)
    IN  [ix EXCEPT !.order = @ \o BySlug(new \ {Unknown})
                               \o (IF Unknown \in new THEN <<Unknown>> ELSE <<>>)]

EvictUncounted(ix) ==      \* mutant
    LET oldest == Head(ix.order)
    IN  IF ix.order = <<>> THEN ix
        ELSE [order |-> IF Len(ix.keys[oldest]) <= 1 THEN Tail(ix.order) ELSE ix.order,
              keys  |-> [ix.keys EXCEPT ![oldest] = IF @ = <<>> THEN @ ELSE Tail(@)],
              count |-> ix.count - 1]
EvictOldest(ix) ==
    LET oldest == Head(ix.order)
    IN  IF ix.order = <<>> THEN ix
        ELSE [order |-> IF Len(ix.keys[oldest]) <= 1 THEN Tail(ix.order) ELSE ix.order,
              keys  |-> [ix.keys EXCEPT ![oldest] = IF @ = <<>> THEN @ ELSE Tail(@)],
              count |-> IF ix.keys[oldest] = <<>> THEN ix.count ELSE ix.count - 1]

Cached(ix, slug, key) == {k \in ToSet(ix.keys[slug]) : k.key = key}

(* Adding a key, which may first evict one, also from the same map.        *)
WithKey(ix, slug, key, id) ==
    LET room == IF ix.count >= MaxKeys THEN EvictOldest(ix) ELSE ix
    IN  [room EXCEPT !.keys[slug] = Append(@, [key |-> key, id |-> id]),
                     !.count = @ + 1]

(* Every calendar of the response has a map of its own.                    *)
OneIndexForAll(c) == Unknown      \* mutant: no calendar is found in keysByCalendarId
IndexOf(c) == c

(* One event of the response: its id, from the index or derived, and the   *)
(* index after it.                                                         *)
ToEventDto(made, e) ==
    LET slug == IndexOf(e.calendar)
        hit == Cached(made.index, slug, e.key)
        id == IF hit # {} THEN (CHOOSE k \in hit : TRUE).id ELSE Derived(e.calendar, e.key)
    IN  [index |-> IF hit # {} THEN made.index ELSE WithKey(made.index, slug, e.key, id),
         events |-> Append(made.events, [id |-> id, row |-> e])]
Response(ix, rows) ==
    LET made[n \in 0 .. Len(rows)] ==
            IF n = 0 THEN [index |-> ix, events |-> <<>>]
            ELSE ToEventDto(made[n - 1], rows[n])
    IN  made[Len(rows)]

(* The maps that the index has dropped go with the response.               *)
AfterResponse(ix) ==
    [ix EXCEPT !.keys = [s \in Slugs |-> IF s \in ToSet(ix.order) THEN ix.keys[s] ELSE <<>>]]

(***************************************************************************)
(* What may be served, and how old it is                                   *)
(***************************************************************************)
Servable(c) == row[c].active /\ row[c].status \in {"ready", "stale"} /\ row[c].stamp # Null

IsStatusStale(status, stamp) == status = "stale"      \* mutant
IsStale(status, stamp) ==
    \/ status = "stale"
    \/ stamp = Null
    \/ now - stamp > StaleAfter

(***************************************************************************)
(* Parsing of the query: a repeated calendar counts once.                  *)
(***************************************************************************)
Refused(values) ==
    \/ \E i \in DOMAIN values : values[i] = Malformed
    \/ Cardinality(ToSet(values)) > MaxCalendars

(* Days left out are counted from today, also the last one.                *)
Today == now \div 2
FromOf(range) == IF range[1] = Null THEN Today ELSE range[1]
ToOf(range) == IF range[2] = Null THEN Today + MaxRange ELSE range[2]
RangeRefused(range) ==
    \/ ToOf(range) < FromOf(range)
    \/ ToOf(range) - FromOf(range) > MaxRange

(***************************************************************************)
(* Requests                                                                *)
(***************************************************************************)
Respond(a) == answer' = a /\ request' = Null
Reject(kind) == Respond([kind |-> kind])

Asks == /\ request = Null
        /\ requests < MaxRequests
        /\ requests' = requests + 1
        /\ UNCHANGED <<now, tables, index, writes>>

Accept(r) == request' = r /\ answer' = Null

AskSingle ==
    /\ Asks
    /\ \E c \in Calendars \cup {Malformed}, range \in Ranges :
          IF c = Malformed THEN Reject("notFound")
          ELSE IF RangeRefused(range) THEN Reject("refused")
          ELSE Accept([kind |-> "single", slugs |-> {c}, from |-> FromOf(range),
                       to |-> ToOf(range), rows |-> Null])

(* An empty selection is answered without a query.                         *)
AskSelection ==
    /\ Asks
    /\ \E values \in Selections, range \in Ranges :
          IF Refused(values) \/ RangeRefused(range) THEN Reject("refused")
          ELSE IF values = <<>>
          THEN Respond([kind |-> "events", rows |-> {}, from |-> FromOf(range),
                        to |-> ToOf(range), events |-> <<>>, truncated |-> FALSE])
          ELSE Accept([kind |-> "selection", slugs |-> ToSet(values), from |-> FromOf(range),
                       to |-> ToOf(range), rows |-> Null])

(* One query makes the list of calendars.                                  *)
List ==
    /\ Asks
    /\ Respond([kind |-> "calendars",
                listed |-> {[calendar |-> c, stale |-> IsStale(row[c].status, row[c].stamp)] :
                              c \in {d \in Calendars : Servable(d)}}])

(* The address of a combined view names the servable ones.                 *)
GoogleView ==
    /\ Asks
    /\ \E values \in Selections :
          LET shown == {c \in ToSet(values) : Servable(c)}
          IN  IF Refused(values) \/ values = <<>> THEN Reject("refused")
              ELSE IF shown = {} THEN Reject("notFound")
              ELSE Respond([kind |-> "view", calendars |-> shown])

(* The first query.                                                        *)
ReadCalendars ==
    /\ request # Null
    /\ request.rows = Null
    /\ LET rows == {[calendar |-> c, status |-> row[c].status, stamp |-> row[c].stamp] :
                      c \in {d \in request.slugs : Servable(d)}}
       IN  IF rows # {} THEN Accept([request EXCEPT !.rows = rows])
           ELSE IF request.kind = "single" THEN Reject("notFound")
           ELSE Respond([kind |-> "events", rows |-> {}, from |-> request.from,
                         to |-> request.to, events |-> <<>>, truncated |-> FALSE])
    /\ UNCHANGED <<now, tables, index, writes, requests>>

(* The rows from the midnight before the first day to the last moment of   *)
(* the last day, in their order; ids decide among rows of one calendar.    *)
Overlaps(e, from, to) == e.start < 2 * (to + 1) /\ e.end >= 2 * from
Precedes(e, f) ==
    \/ e.start < f.start
    \/ e.start = f.start /\ e.calendar < f.calendar
    \/ e.start = f.start /\ e.calendar = f.calendar /\ e.key < f.key
EventRows(cs) ==
    UNION {{[calendar |-> c, key |-> k.key, start |-> k.start, end |-> k.end] :
              k \in events[c]} : c \in cs}

(* The query asks for one row more than may be delivered.                  *)
TakeLimit == MaxServed      \* mutant
Take == MaxServed + 1
First(s, n) == SubSeq(s, 1, IF Len(s) < n THEN Len(s) ELSE n)
ByStart(S) == InOrder(S, Precedes)
Taken(S) == First(ByStart(S), Take)

(* The second query and, without another await, the response.  The index   *)
(* is asked for a map per calendar, and one more for a selection.          *)
ReadEvents ==
    /\ request # Null
    /\ request.rows # Null
    /\ LET cs == {r.calendar : r \in request.rows}
           found == Taken({e \in EventRows(cs) : Overlaps(e, request.from, request.to)})
           truncated == Len(found) > MaxServed
           slugs == IF request.kind = "selection" THEN cs \cup {Unknown} ELSE cs
           made == Response(EventKeysFor(index, slugs), First(found, MaxServed))
       IN  /\ index' = AfterResponse(made.index)
           /\ Respond([kind |-> "events", from |-> request.from, to |-> request.to,
                       rows |-> IF request.kind = "selection" THEN
                                  {[calendar |-> c, stale |-> Null] : c \in cs}
                                ELSE {[calendar |-> r.calendar,
                                       stale |-> IsStale(r.status, r.stamp)] : r \in request.rows},
                       events |-> made.events, truncated |-> truncated])
    /\ UNCHANGED <<now, tables, writes, requests>>

Tick == /\ now < MaxNow
        /\ now' = now + 1
        /\ answer' = Null
        /\ UNCHANGED <<tables, request, index, writes, requests>>

ReadingNext ==
    \/ \E c \in Calendars : \/ Reconcile(c) \/ Confirm(c) \/ Unreachable(c)
                            \/ ClearEvents(c) \/ MarkGone(c) \/ RetireOrReadmit(c)
    \/ Crash
    \/ AskSingle \/ AskSelection \/ List \/ GoogleView
    \/ ReadCalendars \/ ReadEvents
    \/ Tick

ReadingSpec == ReadingInit /\ [][ReadingNext]_readingVars

(***************************************************************************)
(* Properties.  An answer is forgotten by the next step, so that the       *)
(* tables of a state with an answer are those it was made from.            *)
(***************************************************************************)
EventsAnswered == answer # Null /\ answer.kind = "events"
Delivered == {answer.events[i].row : i \in DOMAIN answer.events}
Recent(c, E) == asOf[c][E] # Null /\ now - asOf[c][E] <= StaleAfter

(* A calendar that is not called stale shows what an import wrote or       *)
(* confirmed no longer ago than the threshold: whatever the order of the   *)
(* two queries, the two statements of an import, failures, the retirement  *)
(* and the return of a calendar (isStale, getCalendarEvents).              *)
FreshMeansRecent ==
    /\ answer # Null /\ answer.kind = "calendars" =>
          \A l \in answer.listed : ~l.stale => Recent(l.calendar, events[l.calendar])
    /\ EventsAnswered /\ ~answer.truncated =>
          \A r \in answer.rows : r.stale = FALSE =>
             \E E \in Contents :
                /\ Recent(r.calendar, E)
                /\ \A e \in E : Overlaps(e, answer.from, answer.to) <=>
                       \E d \in Delivered : d.key = e.key /\ d.start = e.start /\ d.end = e.end

(* An answer that does not call itself truncated has every event of the    *)
(* calendars it was asked for that takes place on one of the days; one     *)
(* that does is full and leaves out only what starts last (take: limit +   *)
(* 1, the bounds of range, ends at midnight).                              *)
TakesPlace(e, from, to) ==
    \E d \in from .. to : /\ e.start < 2 * (d + 1)
                          /\ IF e.end = e.start THEN e.start >= 2 * d ELSE e.end > 2 * d
CutIsDeclared ==
    EventsAnswered =>
        LET all == {e \in EventRows({r.calendar : r \in answer.rows}) :
                      TakesPlace(e, answer.from, answer.to)}
        IN  IF answer.truncated
            THEN /\ Len(answer.events) = MaxServed
                 /\ \A e \in all \ Delivered, d \in Delivered : d.start <= e.start
            ELSE all \subseteq Delivered

(* The id of an event is the one derived from its own calendar and its     *)
(* occurrence, whatever other calendars hold under the same occurrence and *)
(* whatever has been cached or evicted before: clients recognise an event  *)
(* by it (eventKeyIn, PublicCalendarEventDto).                             *)
EventIdsRight ==
    EventsAnswered =>
        \A i \in DOMAIN answer.events :
            LET e == answer.events[i]
            IN  e.id = Derived(e.row.calendar, e.row.key)

(* The index never holds more keys than it counts: keys that are counted   *)
(* and no longer held are possible, keys that are held and never counted   *)
(* would be memory that no eviction looks for (evictOldestEventKey).       *)
Held(ix) == UNION {{s} \X DOMAIN ix.keys[s] : s \in Slugs}
CounterNeverBehind == Cardinality(Held(index)) <= index.count
=============================================================================
