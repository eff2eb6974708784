# Campus Köthen: specifications, model checking and proofs

This directory specifies the parts of Campus Köthen in which order, failure and
concurrency decide whether the program is right. It is written from the code, not from
the documents. Where a document or comment and the code disagree, one run shows the
gravest case and section 10 lists the others.

- [1. The system](#1-the-system)
- [2. Public calendars](#2-public-calendars)
- [3. Expansion of an iCalendar feed](#3-expansion-of-an-icalendar-feed)
- [4. Timetable](#4-timetable)
- [5. Canteen](#5-canteen)
- [6. Editorial content](#6-editorial-content)
- [7. LastGood: what every import promises](#7-lastgood-what-every-import-promises)
- [8. Runs](#8-runs)
- [9. Proofs](#9-proofs)
- [10. Where the code differs from what is said of it](#10-where-the-code-differs-from-what-is-said-of-it)
- [11. What is not modelled](#11-what-is-not-modelled)
- [12. Plan](#12-plan)

## 1. The system

A monorepo: a backend (`src/apps/backend`, NestJS and Prisma, one image with two
entrypoints: the API and the *Worker*), an editorial system (`src/apps/cms`, Strapi), a
mobile app (`src/apps/mobile`, Flutter), and packages, deployment and documents around
them. External systems are Strapi's published content, Google's public calendar feeds,
WebUntis, the canteen source, and (from the phone only) the university's mail, exam and
Moodle servers and the student council's request system.

| Component | State | Operations | Talks to | Hard behaviour | Correct when |
|---|---|---|---|---|---|
| Public calendars (`modules/public-calendar`) | tables `public_calendars`, `public_calendar_events`; guards of two jobs | catalogue job, events job with one task per calendar, what the API serves | Strapi, Google, PostgreSQL | two jobs interleave; tasks of one run outlive it; each task works on a row read before its download; several statements per task; 304, hash, 404, 403, timeouts; restarts | nothing is served that was never imported; failures remove nothing; the catalogue wins; calendars settle |
| ICS parser (`ics-parser.ts`) | none (a pure walk) | group components, expand series, limits | ical.js | overrides, cancellations, orphans, unbounded series, window edges | exactly the dates that reach the window, with distinct keys |
| Timetable import (`modules/timetable`) | contexts, groups, entries, links; guards of two jobs | group job (years, catalogues, upsert, retire), entry job (one request per class, one transaction) | WebUntis, PostgreSQL | hundreds of requests while WebUntis changes; school year change inside the window; look-up outside the transaction; partial failure | lessons are attended, failures remove nothing, tables end up as listed |
| Canteen import and menu (`modules/canteen`) | meals, prices, ingredient dictionary; two caches | sequential run over canteens; the menu from three queries | meal source, PostgreSQL | deletion window, placeholders, rows taken over between canteens, a failing audit row; queries beside imports | a menu leaves only when withdrawn; answers are recent and do not flicker |
| Read-through cache (`common/cache`) | entries and pending requests | `getOrSet` | all services that read | concurrent misses, expiry, eviction, failing builds | one build per key, capacity kept, no answer older than its time |
| Posts, contacts, rooms (`modules/posts`, `contacts`, `rooms`, `strapi`) | caches | routes over editorial content, one or two requests each | Strapi | editors write between the requests; timeouts, retries | what is withdrawn goes soon, what stays is shown as meant |
| User test data (`modules/user-test-data`) | rows of its own in the tables of the imports | seed, remove | PostgreSQL | runs beside the worker | sources leave each other alone |
| Media proxy, health | none | reads | Strapi, PostgreSQL | none of their own | – |
| Worker scheduling (`worker.ts`) | `running` per job | `trigger` | all imports | a guard not released stops a job for good | jobs do not overlap and never stop |
| CMS guards, seed, room catalogue (`apps/cms`) | Strapi's database | guards of writes, `rooms:sync`, start | – | concurrent editors, runs that stop or meet, interrupted starts | what is published is complete, links are not taken away, the catalogue holds |
| Mail (`features/mail`) | credentials, encrypted cache, wipe marker, session generation | sign in, sign out, synchronise, initialise | IMAP/SMTP | sign-out during a synchronisation; crash inside a wipe | nothing of one account survives into the next |
| Grades, Moodle (`features/grades`, `features/moodle`) | credentials or token, portal, cached report, timestamps | set up, switch portal, synchronise, delete everything | exam portals, Moodle | a synchronisation in flight during a switch or deletion | no data of another portal, nothing after a deletion |
| Requests (`features/requests`) | drafts, frozen attempts, attachments, submitted cases | save, submit, freeze, unfreeze, record, wipe | request system | unknown outcomes, idempotent retries, expiry of keys | no duplicate case, no lost case |
| Notifications and refresh (`features/notifications`, `core/sync`) | pending notifications, queue, timer | plan, replace, cancel, lifecycle | operating system | overlapping replacements, kill between cancel and schedule | what is pending is one plan |
| Screens and content features, campus map, OpenAPI, deployment | preferences | – | – | – | – |

The worker's jobs share nothing but the process and the database. The API only reads what
they write. The mobile app reads the API and talks to the university's servers itself.
`PROJECT.json` lists every component with its status, and every hazard with its line.

## 2. Public calendars

`PublicCalendar` models `PublicCalendarSyncService`, the outcomes of
`GooglePublicIcsClient`, and `PublicCalendarService.servableWhere`.

| Code | Model |
|---|---|
| a row of `public_calendars` | `row[c]`: status, `active`, feed, channel, description flag, ETag, hash, and whether `lastSuccessfulSyncAt` is set (`synced`); status `"absent"`: no row |
| `public_calendar_events` of a calendar | `events[c]`, a set of key, start, end and "has a description" |
| `syncCatalog` | `CatalogTrigger`, `CatalogFetched`, `UpsertDefinitions` (the transaction), `RetireOthers` (the statement after it), `CatalogFails` |
| `syncEvents` under `WorkerJob.trigger` | `EventsTrigger`, `EventsJobEnds`; `running` is the guard, `awaiting` the tasks of `Promise.all` |
| `syncCalendarEvents` | one task per calendar and *slot*: `ReadRow`, `FeedAnswers` or `FeedUnreachable`, `Reconcile`, `Confirm`, `FinishTask` |
| `handleEventFailure` | `ClearEvents` (for 404 and 403), `MarkFailure` |
| a statement that throws inside the `try` / outside it or in the handler | `StatementFails` / `TaskRejects` (the first rejection releases the guard) |
| the process dies | `Crash` |

Every statement is an action of its own, so whatever fits between two statements in the
running program fits between two actions. `task[t].snap` is the row the task read; every
decision the code takes from `calendar` is taken from `snap`, and every write goes to the
current row as `update where id` does. A feed is a body (an abstract value with the
occurrences `Content` gives it), gone, private, or corrupt. A body stands for its hash:
SHA-256 is taken to be injective. An ETag is the pair of feed and body, or missing.

`imported` is a history variable (has any feed of the calendar been stored?), as are
`edits` and `faults`, which also count against the bounds.

What the properties say: a calendar is served only after an import
(`ServedOnlyAfterImport`); no two rows share a channel, retired ones included
(`UniqueChannel`); a successful catalogue run leaves exactly its catalogue, whatever the
tasks wrote meanwhile (`CatalogueMirrored`); failures remove no events (`LastGoodKept`);
with a readable feed a calendar ends up ready for good, with a blocked one hidden for good
(`EndsUpReady`, `EndsUpHidden`).

`CalendarReading` models the routes over these tables (`PublicCalendarService`): the list,
one calendar, a selection of calendars, and the address of a combined view. A request is
two queries without a transaction (`ReadCalendars`, `ReadEvents`), and the statements of
an import, taken from `PublicCalendar` and a few steps here, come between them. It keeps
what that module has no need of: the time of the last success, the range and the limit of
a query, and the index of event ids (`eventKeyCache` and its counter), a map of maps
that evicts the oldest key. Its properties say that what is called fresh was written or
confirmed no longer ago than the threshold (`FreshMeansRecent`), that an answer which does
not call itself truncated leaves nothing out (`CutIsDeclared`), that an event has the id of
its own calendar and occurrence whatever was cached or evicted (`EventIdsRight`), and that
the index never holds more keys than it counts (`CounterNeverBehind`).

## 3. Expansion of an iCalendar feed

`IcsExpansion` models `parseIcs` after ical.js has split the feed: the limit on components
and the check of time zones, grouping into masters and overrides (`Group`), the walk of a
recurring master one iterator step at a time (`NextOccurrence`), single events, overrides
without a master, the window, the limits on occurrences and steps, and `occurrenceKey`.

Times are integers. A component gives days, instants (UTC, or a zone of the feed, which
ical.js converts) or wall clocks without a zone, which `ToAbsolute` converts as
`zonedWallClockToUtc` does: with the offset that holds at the digits read as UTC. The rules
of the zone are those of `WallClock`. A rule is a finite set of starts that may go on with a
fixed step for ever: RRULE, RDATE and EXDATE matter only by the starts they give.

The reference (`Reference`) says declaratively which occurrences a feed has in the window
and at which instants clocks show its times. The walk never emits anything else
(`EmitsOnlyReference`); on feeds in which no override puts a date behind a later one of its
series it emits all of them (`CompleteWhenMonotonic`); keys are distinct unless the feed
lists an override twice (`KeysDistinct`); the per-event limit counts only dates in reach
(`ChargedOnlyInReach`). All four leave out feeds with a wall clock in the two hours before
a change of the clocks (`Quiet`), where the conversion is an hour off (section 10). Without
the assumption on overrides the walk can stop too early (`ExpansionComplete`, a run with a
counterexample). `PublicCalendar` uses the expansion through its own operator `Expand`,
which keeps the occurrences that overlap the window.

## 4. Timetable

`Timetable` models `syncContext`, `syncGroups` and `syncEntries` of
`TimetableSyncService`, the two worker jobs that call them, and WebUntis as it is used.

| Code | Model |
|---|---|
| `timetable_contexts` | `contexts`, the years stored; `First` and `Last` are their bounds |
| `timetable_groups` | `group[c]`: `"unknown"` (no row), `"active"`, `"inactive"` (retired) |
| `timetable_entries`, `timetable_entry_groups` | `entry[l]` (date and content, or `None`) and `links` |
| `syncContext` | `YearsFetched`, `StoreYear` (one upsert per year) |
| `syncGroups` | `GroupsStart` (`contextsFor`), `ClassesFetched` per year, `CatalogueComplete`, `UpsertGroups` (transaction), `RetireGroups` (statement after it), `FinishGroups` |
| `syncEntries` | `EntriesTrigger`, `YearOpened` (the catalogue of the year), `EntriesFetched` (one class, one part of the window), `WindowComplete` (empty window; classes looked up), `WriteEntries` (the transaction), `FinishEntries` |
| `failRun`, restart | `GroupsFail`, `EntriesFail`, `Crash` |

`PlanChanges` and `CatalogueChanges` may happen between any two requests, so that one
lesson can be seen in two versions by one run. The classes of a year are asked in any
order, which covers the code's order and needs no assumption on how ids sort. `Merged`
keeps the first version of a lesson and unites its classes, as the code does.

Every stored lesson has a class (`LessonsAttended`): without one it would be shown to
nobody and, once outside the window, cleaned up by no run. Links and classes leave only on
the strength of complete, non-empty answers (`LastGoodKept`). What WebUntis keeps offering
ends up stored as listed (`EndsUpComplete`, also across the change of the school year),
what it withdraws ends up withdrawn (`EndsUpWithdrawn`), and the classes offered end up
being the classes served (`EndsUpOffered`). A link is withdrawn only when the whole lesson
is no longer listed (section 10).

`TimetableReading` models what clients get of one class (`getWeek`, `listLessonInfo`)
beside everything that writes: the import as a few steps (fetched, written, finished or
failed), the catalogue that retires and revives a class, the seed of the user test and its
removal, redeployments with other switches, days. The first queries of a request run in
parallel (`LookUp`), the lessons follow in two statements, since Prisma sends a `findMany`
with a nested `select` as one query for the links (`ReadLinks`, filtered by the date of the
lesson) and one for the lessons with those ids (`ReadRows`, filtered by nothing), without a
transaction: a job may commit in between, and a lesson that is gone then fails the request
(`RowGone`; `rowId` are the ids, which a lesson keeps until it is deleted). A run writes its
lessons first and says so later; an answer names the run its freshness comes from. What
holds of it (`StampNotAhead`): it tells of the lessons that the class had on the days asked
for at some moment since that run has written, of all of them and of no others, and tells
them as they were at one later moment, up to which none was withdrawn. The two moments can differ (section 10); the
opposite order of the queries would break even this. Lessons are stored as instants computed from the wall clocks of
WebUntis (`WallClock`, with the two steps of `toUtc`); on every day of an answer, clocks
show what was listed, also around the changes to summer and winter time (`ShownWhenItIs`).

## 5. Canteen

`Canteen` models `CanteenSyncService` under the worker's guard, and the canteen's part of
the user test.

| Code | Model |
|---|---|
| `meals`, `meal_prices` | `meals[p]` per plan id: source, canteen, date, dish, prices, or `None` |
| `ingredient_definitions` | `dictionary` |
| `sync_runs` | `synced`, `testRuns`: the canteens with a successful run |
| `syncAll` | `Trigger` (with `seedCanteens`), then per canteen `OpenRun`, `Fetched` or `RequestFails`, `Persist` or `PersistFails`, `CloseRun` |
| an audit row that cannot be written (outside every `try`) | `AuditFails`: the canteens behind are not synchronised |
| user test | `Seed`, `Remove`, `Redeploy` |

An answer is the list of entries, with the canteen each one names, and the labels of codes.
`Persist` is the whole transaction: the last entry that names a dish counts for its plan id
(`LastOf`), a row is taken over whatever canteen it belonged to, a placeholder keeps its
row, and dishes that are not listed are withdrawn on the days the answer speaks of
(`Confirmed`: between the first and the last named date, without days of placeholders
only). Properties: a canteen that reports success serves what its source has listed all
along (`StampHonest`); imports and the user test leave each other's rows alone
(`SourcesSeparate`); what the source keeps offering ends up served as listed and what it
withdraws ends up withdrawn, whatever the other canteen does (`EndsUpServed`,
`EndsUpWithdrawn`).

`CanteenMenu` models `GET /v1/canteens/{slug}/menu`: three queries that share no
transaction (dishes, dictionary, prices of the rows found), the cache of menus and the
cache of the dictionary, requests that wait for a build under way, queries that fail,
restarts, imports that commit at any moment. `TtlCache` holds what both caches do
(expiry, touching, dropping expired entries, eviction of the least recently used), and
`MealSemantics` what a code stands for. `gone` and `known` are history clocks: how long ago
a plan id was last stored in some way, and since when a code has its label. What an answer
shows was stored no longer ago than a menu is built and kept (`MenuRecent`); what has been
stored all that time is shown (`SteadyShown`); what a code has stood for longer than both
caches keep is declared as an allergen, with its parent (`AllergensKnown`); nobody gets an
older menu after a newer one (`ServedForward`); every menu keeps being answered and ends up
being what is stored (`EndsUpFresh`).

## 6. Editorial content

`CmsReads` is the machine behind every editorial route: a key is looked up in the cache of
its route, otherwise a build sends its first request to Strapi and, depending on the route,
a second one beside or after it (`Parallel`, `Unasked`, `More`), is retried after a timeout
or a 5xx (`RequestFails`), merges what came back, and keeps it. Editors publish another
*edition* of the content at any moment. What a request returns and how the answers are
merged are parameters: `Posts` (posts, events, one post, tags, channels: filters, validity,
the overlay of the translation) and `Contacts` (areas, the search index, one area, and the
rooms on several pages) define them. Both compare answers with a reference that reads one
edition: nothing is shown that was not meant at some moment since the answer was begun or
while it was kept (`PostsWithdrawnSoon`, `ContactsWithdrawnSoon`), what was meant the same all
that time is told exactly like that (`PostsSteadyServed`, `ContactsSteadyServed`), an English answer without the flag holds no German text
(`FallbackHonest`, posts), and a post just published is not denied (`MissFresh`).

In `Posts`, *meant the same* includes the language (`InEnglish`): if an English description
that is blank is removed while the German one is blanked, every edition shows a blank text,
but a build between the two can show the German one that was there before. `PostsSteadyServed`
does not ask for more than the code does there. In `Contacts` a room must stay on its page of
the list: a room that slides over the boundary between the two requests is missing from the
answer, which is what the code does (a hazard that no property rules out).

Both extend `EditorialTexts`, which holds the texts of two languages and the overlay by slugs.
What they assume is named: the keys and editions of a scenario have their types and `None` is
none of the data (`ContentAssumption`, `DirectoryAssumption`), German and English texts differ
(`TextsAssumption`), the rooms fill at most two responses (`PageAssumption`, a bound of the
model: the code reads further pages in the same way), and the machine is run with their own
reads on their own routes (`PostsAssumption`, `ContactsAssumption`; the cfgs give them).
`CmsReads` in turn asks of the reads that two requests sent at once do not depend on each
other (`PartsAssumption`).

`Cms` models the code that runs inside Strapi, in four parts that share no state: the
editorial guard, which reads the stored post and then lets a publishing write through; the
calendar guard, which looks up the other end of a link first; `rooms:sync` with the guard
that keeps editors off the catalogue's fields; and the start, which brings locales, layouts
and essential documents into shape step by step. Writes of two editors overtake each other
between reading and writing, two runs of `rooms:sync` meet or stop, the start is
interrupted. A payload names a relation by an id, an object or a wrapper of `connect`, `set`
or `disconnect`. The guard lays it over the stored post and asks whether tag and primary
channel are there (`MergedWith`); Strapi stores what the wrapper makes of the relation
(`Written`), or refuses channels that list a wrapper in place of a channel (`WriteRefused`).
What is published is complete as far as the guard could see and the payload names what it
changes (`PublishedComplete`: `basis` records whether the guard saw the post that was there,
whether it knew the tag, and the fields for which the payload had a wrapper that names no
document), a link changes only by a write to one of its two documents unless it
was made after the guard had looked (`LinkKept`), after an undisturbed run the rooms carry the
catalogue's fields whatever forms were open (`CatalogueHolds`), and a CMS that is up has
complete tags, locales and layouts (`ServesReady`).

## 7. LastGood: what every import promises

`LastGood` is the abstract specification the documents of all imports share: a failed,
invalid or empty answer never removes stored data. It has a store and an inbox per owner
and three actions: an answer is received, a usable answer is applied (what it lists stays
and may come, what it does not list may go), answers are forgotten. It knows no windows,
jobs or statements. All imports implement it:

| | owners | items | store | inbox |
|---|---|---|---|---|
| `PublicCalendar` | calendars | occurrence keys | keys of `events[c]` | the answers unfinished tasks of `c` hold; a 404 or 403 is a usable answer with an empty list |
| `Timetable` | `"groups"`, `"entries"` | classes and links | active classes; links | the complete catalogue or window of the running job |
| `Canteen` | the source | plan id × canteen × date | the places of its rows (`Places`) | the answer the run holds (`Held`): it lists a place unless it names the dish elsewhere or speaks of that day without it |

`LastGoodKept == LG!Spec` is checked by TLC as a property of all three, and proved of all
three.

## 8. Runs

Bounds are constants of the modules. `MaxEdits` counts changes upstream, imports or edits;
`MaxFaults` failed requests, failed statements, crashes and restarts; `MaxWrites` and
`MaxRequests` transactions and requests; `MaxDay` and `MaxNow` end the calendar. They cap
history counters and time only; none hides a step of the program, except `Slots` (tasks one
calendar can have at a time): with all taken, a calendar's next run is not started.

| Run | Instance | Shows |
|---|---|---|
| `calendar_safety` | 2 calendars, 2 channels, 3 catalogues, 2 slots, 1 edit, 1 fault; 3.7 million states | `ServedOnlyAfterImport`, `CatalogueMirrored` |
| `calendar_convergence` | 1 calendar, 2 days, 2 bodies, 2 edits, 2 faults, fair; 0.65 million | `LastGoodKept`, `EndsUpReady`, `EndsUpHidden` |
| `calendar_reading` | 2 calendars with the same occurrences, 5 writes, 2 requests, an index of 2 ids, a limit of 2 events; 6.3 million | `FreshMeansRecent`, `CutIsDeclared`, `EventIdsRight`, `CounterNeverBehind` |
| `ics_expansion` | every feed of up to 3 of 15 components, a window of 5 units in which the clocks change; 22 thousand | `EmitsOnlyReference`, `CompleteWhenMonotonic`, `KeysDistinct`, `ChargedOnlyInReach` |
| `ics_moved_date` | the same feeds | counterexample: a date moved behind the window hides a later one |
| `timetable` | 2 classes, 2 lessons, 2 years that change inside the window, 4 plans, 3 catalogues, 1 edit, 1 fault, fair; 0.2 million | `LessonsAttended`, `LastGoodKept`, `EndsUpComplete`, `EndsUpWithdrawn`, `EndsUpOffered` |
| `timetable_reading` | a class and the test group with 2 lessons each, 2 listings with skipped and repeated hours, 2 days, 3 writes, 1 edit, 1 fault; 5.5 million | `StampNotAhead`, `ShownWhenItIs` |
| `canteen` | 2 canteens, 3 days, 2 plan ids and a test one, 8 sources, 1 retry, 2 edits, 1 fault, fair; 65 thousand | `StampHonest`, `SourcesSeparate`, `LastGoodKept`, `EndsUpServed`, `EndsUpWithdrawn` |
| `canteen_menu` | 2 overlapping requests for a cache of one menu, 3 imports, a renumbered code, 2 edits, 1 fault, fair; 0.47 million | `MenuRecent`, `SteadyShown`, `AllergensKnown`, `ServedForward`, `EndsUpFresh` |
| `posts` | every route with one or two requests and the editions that matter to it, 2 edits, 1 fault; 0.48 million | `PostsWithdrawnSoon`, `PostsSteadyServed`, `FallbackHonest`, `MissFresh` |
| `contacts` | an area with 2 persons in 11 editions, untranslated and without German ones among them, 3 rooms on 2 pages, 2 edits, 1 fault; 1.1 million | `ContactsWithdrawnSoon`, `ContactsSteadyServed` |
| `cms` | 2 editors, 2 channels, 2 calendars, 2 rooms, 2 runs, 1 fault; 0.97 million up to symmetry | `PublishedComplete`, `LinkKept`, `CatalogueHolds`, `ServesReady` |

*Why these bounds are enough to be interesting.* Two slots let a task of an earlier run
write after one of a later run; the catalogues contain a retirement, a rejected duplicate
and a handover of a channel; one edit changes the feed or the catalogue between any two
statements; one fault is a 5xx, a failed statement or a crash at any point. The liveness
run trades the second calendar for a second day, a second edit and a second fault, so that
a feed can break and come back, and a crash can hit the recovery. In the timetable a lesson
moves over the change of the year, loses a class, loses its title or disappears, and the
next year is unpublished, empty or different; each of these, at any point of a run, is one
edit. The sources of the canteen hold a placeholder, a repeated id, a day of placeholders,
a dish that another canteen lists, entries of a foreign canteen, a broken and an empty
answer; two edits lead from any of them over another to a third. The caches hold fewer
entries than there are requests, so that what is valid is evicted, and live for one or two
ticks, so that everything expires within the run; two edits let content change before and
between the two requests of a build. In `cms` four writes are two editors who overtake each
other twice; three runs of `rooms:sync` are one that stops, one beside it and one that
repairs. The wall clocks read include the hour that is skipped and the one that comes twice.

*Fairness.* `FairSpec` assumes weak fairness of the triggers and of the steps of a started
run, never of edits, days or faults. Cron fires each job again and again
(`createWorkerCronJob`), every HTTP request has a timeout and a bounded number of retries,
and a statement returns or throws. In `PublicCalendar` fairness is per task, since tasks
are independent promises; in `Timetable` and `Canteen` it is per job, whose steps are
sequential. `CanteenMenu` assumes that queries return, that time passes and that clients
keep asking for each menu: its liveness speaks of what they are told. The bound on faults
makes them finite, which is what the premise of every liveness property (`<>[]` of a
healthy upstream) presupposes anyway.

*Symmetry* is used in `cms` only, whose properties are invariants and an action property
and treat editors, channels, calendars, labels and runs alike.

*Deadlock* is checked in the runs `calendar_safety`, `calendar_convergence`, `timetable`,
`posts` and `contacts`. The others say `CHECK_DEADLOCK FALSE`: the walk of a feed ends, and
in the remaining ones nothing is left to do once the bounds on writes, requests, days or
faults are used up.

## 9. Proofs

TLC checks the instances above; TLAPS proves the following for all values of the constants
that satisfy the modules' assumptions (bounds are natural numbers, `None` is none of the
data, a catalogue names a slug once, the numbers of the user test are not those of the
source; the others are listed at the end). The type theorems and `UniqueChannelHolds` are
not properties of a run: the runs ask what could go wrong, and these are what the other
proofs rest on.

`PublicCalendarProofs`

- `TypeOKHolds`. `TypeOK` is not inductive: the feed a task asks for comes from the row it
  read, and the events it writes from the body it holds. `TypeInv` adds `RowsNameFeeds` (an active row
  names a feed) and `TasksHoldData` (a task that fetches has read such a row, a task that
  reconciles holds a body).
- `ServedAfterImport`. A calendar is served only if `synced`, and `synced` is set by
  `Confirm`. `ImportInv`: a row with `synced`, an ETag or a hash, a task that read an ETag or a
  hash, and a task about to confirm all exist only after an import. A 304 needs an ETag and an
  equal body needs a hash, and both were written by an earlier confirmation.
- `CatalogueMirroredHolds`. `MirrorInv`: while the catalogue job is about to retire, the
  rows of its catalogue are active and hold its definitions, since no action of a task writes
  those columns.
- `UniqueChannelHolds`. `ChannelInv` adds that active rows exist, that a missing row has no
  channel, and that a task past its first step has a row (no task creates one). The
  transaction leaves channels distinct because the definitions kept of a catalogue have
  distinct channels (`Kept`) and `ChannelTaken` refuses every definition whose channel
  another row has not given up before it.
- `LastGoodHolds`. `FeedAnswers` and `FeedUnreachable` map to `Receive`, `Reconcile` and
  `ClearEvents` to `Apply` of the answer the task holds, the end of a task and a crash to
  `Forget`, everything else to a stutter. `KindInv` says which answers those are: a task
  that clears has a blocking kind, one that reconciles has a body, one that has not fetched
  holds nothing.

`TimetableProofs`

- `TypeOKHolds`, with the foreign keys of the links. `TypeInv` adds what the jobs hold:
  the lessons collected have a title and lie in the window of the run (`GotSound`), every
  class looked up has a row (`KnownSound`; rows are never deleted, so the group job cannot
  break it), and what is about to be applied is not empty (`WriteSound`, `SeenSound`).
- `LessonsAttendedHolds`. A lesson stored or kept without any known class lies in the window
  of the run (`GotSound`) and is deleted by the same transaction; a lesson outside the window
  loses no link.
- `LastGoodHolds`. `CatalogueComplete` and `WindowComplete` map to `Receive`,
  `UpsertGroups`, `RetireGroups` and `WriteEntries` to `Apply`, ends, failures and crashes to
  `Forget`.

`CanteenProofs`

- `TypeOKHolds`. A row is of the user test exactly if its plan id is (`TypeOK`), because
  no answer uses a number of the test (`NumbersAssumption`).
- `StampHonestHolds`. `CanteenInv` adds to types and stamps what the run holds and has
  done: what has been offered all along is offered now (`SteadyOffered`), an answer held
  lists everything its canteen has offered all along (`AnswerSound`), and a canteen past
  its transaction has it stored (`WrittenSound`). A transaction of another canteen cannot
  take the row, since what is offered all along is offered by one canteen only, and cannot
  withdraw it, since the row is not its own; the same canteen's next transaction writes it
  again, which rests on the last named entry of a list (`LastOfNamed`).
- `SourcesSeparateHolds`. From the types: every write of an import is to an id the source
  has, and every withdrawal to a row of its own.
- `LastGoodHolds`. `Fetched` maps to `Receive`, `Persist` to `Apply`, ends, failures, a
  crash and a redeployment to `Forget`; a place leaves the store only if the answer names
  its dish elsewhere or the day is one of `Confirmed`.

`TimetableReadingProofs`

- `ToUtcShows`. The two steps of `toUtc` give an instant at which clocks show the wall
  clock, except in the hour that is skipped, and an hour more there: a case distinction
  over the two changes of the year.
- `ShownWhenItIsHolds`. `ReadingInv`: the rows of the tables, what a run has fetched and
  what a request has read were all computed from a listed wall clock of that very date
  (`JobRight`, `TableRight`, `RequestRight`).

- `StampNotAheadHolds`. `StampInv`: the history of the tables only grows and ends with what
  is stored, every run names a moment at which its lessons were there, and a request has
  read the links of a moment not before its run's, since the run is read first
  (`LinksStamped`), and the rows of a later moment still (`RowsStamped`). A row whose id has
  stayed has not been away, because new rows get new ids (`RowsLast`, `ThereSince`): so none
  of the lessons told was withdrawn between the two moments.

`CalendarEventProofs`: the expansion, for every feed, window and limits

- `TypeOKHolds`, `EmitsOnlyReferenceHolds`. `WalkInv`: what is left to do is part of the
  feed, and the date the walk stands at is one of the current series. A date the walk
  passes is therefore one that `Reference` expands.
- `CompleteWhenMonotonicHolds`. `CompleteInv`: every finished master has emitted its
  series, the current one its dates up to `at`, every orphan taken its occurrence. `LeftComplete`
  is the point: the walk leaves a series at the first date told behind the window, and no
  later one is in reach, since slots keep the order of dates however the clocks change
  (`SlotOrder`) and starts that of slots (`Monotonic`). The run `ics_moved_date` is what
  happens otherwise.
- `KeysDistinctHolds`. `KeysInv` says where each emitted occurrence came from; two sources
  with one key would be two dates with one slot, or an orphan with a master.
- `ChargedOnlyInReachHolds`. `ChargeInv`: `relevant` is at most the number of dates in
  reach passed so far, as each date is charged once (`ChargedOnce`).

`CalendarEventProofs`: the routes, for any calendars, contents, limits and size of the index

- `FreshMeansRecentHolds`. `StampsRight` and `RequestRight`: the events of a calendar were
  found by an import at the stamp in its row or later, and at the stamp a request has read or
  later, since an import that replaces the events finds the new ones now. So the two queries
  may be apart by any writes: what the second one reads is no older than what the first promised.
- `CutIsDeclaredHolds`. Occurrence keys are unique in a calendar, so `Precedes` is a strict
  order and every rank has one row (`Ranks`, `Sorted`): the first `MaxServed` of one more are
  those that start first, and if there is no more they are all (`Served`).
- `EventIdsRightHolds`, `CounterNeverBehindHolds`. `IsIndex`: every key held has the id of its
  own slug, and no more keys are held than counted. It holds through the whole response, in
  which the maps that were dropped still grow: evicting from a map takes one off both
  (`Evicts`), adding puts one onto both (`Adds`), and closing only lets keys go (`Closes`). The
  recursion over the rows of a response is had from a smallest place without a value.

`CanteenMenuProofs`, for any imports, contents, codes, keys, lifetimes and capacity

- `TypeOKHolds`. What `TtlCache` promises is proved of its operators first: one entry for a
  key, capacity kept, expired ones no hit, ageing and inserting keep the rest. `Live` is a
  recursive function over the places of a cache; its value is had from a smallest place
  without one.
- `MenuRecentHolds`, `SteadyShownHolds`, `AllergensKnownHolds`. `Told`: for each plan id the
  days of an answer say what was stored at two moments, one for the dish and one for its
  prices (two queries), and are labelled by one dictionary that lags behind the stored one
  by no more than its lifetime. Every entry, build and answer is `Told` within the time it
  has existed; each step makes at most one tick's difference (`Drift` lemmas).
- `ServedForwardHolds`. `ForwardInv`: while a menu is built no entry with its key is cached,
  since builds of one key are shared, so an entry never gives way to an older one.

`EditorialProofs`, for any content and directory, scenarios, edits, failures and restarts

- The machine, once for posts and contacts: `Inv` says that every entry that lives, part of
  a build and answer was put together (`Made`) from *two editions*, each replaced no longer
  ago than the answer is told; a hit, an edit or a tick keeps that (`Drift`). It knows of
  the reads only what `PartsAssumption` says.
- `PostsWithdrawnSoonHolds`, `PostsSteadyServedHolds`, `FallbackHonestHolds`,
  `MissFreshHolds`. What `PostsMerge` makes of the first request in one edition and the
  second in another shows, item by item, only what one of the two editions means, with a
  text and a revision of theirs (`ItemsMeant`), is what both mean if they mean the same
  (`SteadyPosts` and its siblings), and has the flag if any text is German (`HonestAnswer`).
- `ContactsWithdrawnSoonHolds`, `ContactsSteadyServedHolds`. The same for areas
  (`AreaItemIs`, `SteadyArea`; persons are counted by a bijection, `PersonsCounted`) and for
  rooms: the page of a room is a number of predecessors, so a visible room is on one of two
  pages, and if on the second there is one (`PageIs`). No step of these two parts mentions
  time, none of the machine what a post or an area is.

`CmsProofs`, for any number of editors, runs, rooms and demo documents

- `PublishedCompleteHolds`. `PostsInv`: a write that has passed the guard carries the post
  the guard has seen with the payload laid over it, and that was complete. The write stores
  something else (`Written`): the two agree on whether tag and primary channel are there
  unless the payload has a wrapper that names no document, and on the dates always. A tag
  that is looked up is the one that is stored, since a payload names it by id only if it
  names a document (`PostData`, an assumption).
- `LinkKeptHolds`. `LinksInv`: a write past its look-up knows of every link to what it is
  about to link, except those noted as made later.
- `CatalogueHoldsAlways`. `RoomsInv`: what is not on the plan of a run any more is as the
  run wants it, unless another run wrote beside it, and open forms belong to existing rows.
- `ServesReadyHolds`. `BootInv`: while nobody interferes, every step of the start before the
  current one is still done; later steps undo none, as the lemma on each kind of step shows.

*Assumptions.* Besides bounds being natural numbers, each says only that data of different
kinds is told apart: `None` (in `CalendarReading`: `Null`) is none of the rows, tables,
dictionaries or answers (`CmsAssumption`, which also types the payloads of posts,
`MenuAssumption`, `ContentAssumption`,
`DirectoryAssumption`, `ReadingAssumption`), occurrence keys are unique in a calendar (an
index of the table), the codes of a content are codes, rooms and demo documents are finitely
many, a component of a feed has a date and those of one UID the same kind of clock
(`FeedsAssumption`), German and English texts differ (`TextsAssumption`), `Posts` and
`Contacts` run the machine with their own reads (`PostsAssumption`, `ContactsAssumption`,
`PartsAssumption`). One is a bound of the model: at most two pages of rooms
(`PageAssumption`). TLC evaluates each of them on the instance.

*Only model-checked.*

- Liveness (`EndsUp...`): fairness and ENABLED are out of the prover's reach.
- What a recursion computes for *every* input, in general: where a proof needs it, the
  module proves the one fact it needs from a smallest place where it fails (`LeastOfNaturals`).

## 10. Where the code differs from what is said of it

One disagreement has a run, `ics_moved_date`, and an entry under `findings`. The others
were met while modelling; the models follow the code, and properties leave out exactly
these cases. Paths are under `modules/` of the backend unless said otherwise.

*Public calendars* (`public-calendar/`)

- A transport error after a 404 or 403 makes the calendar `stale`, hence public again
  (`public-calendar-sync.service.ts:496`), where `docs/public-calendars.md:105` says that a
  blocked calendar stays hidden.
- A channel that moves to another calendar makes the whole catalogue fail until the old one
  is gone, since the slot is unique and the old row still has it (`:101`).
- The first task that rejects releases the job's guard while the others go on
  (`:215`), where `worker.ts:38` says that runs do not overlap.
- A feed that did not change is not reconciled (`:258`): descriptions switched off
  afterwards stay stored, days that the window reaches later stay empty, and a feed shared
  again unchanged after its events were cleared stays without events.
- `zonedWallClockToUtc` (`ics-parser.ts:162`, "DST-correct") takes the offset of the digits
  read as UTC: wall clocks without a zone in the hour before a change of the clocks come
  out an hour off, and two dates of a series there can come out at one instant, hence with
  one key. `toUtc` of the timetable corrects it with a second step.
- The index of event ids can hold more than its limit: a map that has just been created is
  empty, and evicting from it removes nothing (`public-calendar.service.ts:48`).
- A range whose first day is past and whose last is left out is counted from today, and
  refused as too long (`public-calendar.controller.ts:49`).

*Timetable* (`timetable/`)

- A class that leaves a lesson others still attend keeps it: links are only withdrawn with
  the whole lesson (`timetable-sync.service.ts:749`).
- The runs of the user test count as runs of WebUntis in `lastSuccessful`, which asks for
  no source: a seed makes lessons look fresh (`timetable.service.ts:58`).
- Days outside the window of the import are shown as free days (`:214`).
- Links and lessons of an answer are two statements without a transaction (`:222`, `:170`).
  If an import commits in between, an answer is of no single moment: a lesson that moves
  onto a day of the range is missing while one that has moved within it is told on its new
  day, one that has moved out of the range is missing without having left the class, the
  texts of `listLessonInfo` can be those of a lesson outside the window, and a lesson that
  is deleted in between fails the request. Lessons of a day keep the order of the first
  statement (`orderBy`).

*Editorial content*

- The German name of a room of a person does not set `translationFallback`
  (`contacts/contacts.service.ts:83`), where `docs/api.md:76` says that any field does; the
  number of persons in the list is that of the German entry, whose English one may deliver
  others (`:127`).
- A post that gets another tag between the two requests is told with the name of one tag
  and the slug of the other (`posts/posts.service.ts:671`).
- A room slides over the boundary of two pages when one before it is hidden between the
  requests, and is missing from that answer (`rooms/rooms.service.ts:92`).
- The Strapi client says that no 4xx is repeated (`strapi/strapi.client.ts:129`); all but 401
  and 403 are `unavailable` and are.
- CMS: an update with `status: 'published'` whose payload empties the tag or the primary
  channel by a wrapper (`{disconnect: [...]}`, `{set: []}`) publishes a post without it, and
  `{connect: []}`, which changes nothing, publishes one that never had it: the guard asks
  only whether the value is `null` (`apps/cms/src/editorial/post-guard.ts:135`, `:202`),
  where `docs/content-editor-guide.md:125` calls the primary channel a required field.
  `PublishedComplete` leaves out exactly these fields of these payloads (`Blind`). A primary
  channel that is only disconnected is put, as the wrapper it is, into `channels`, and
  Strapi refuses the write, unless `channels` is such a wrapper too (`:119`).
- CMS: the start date of an event is not checked when its tag is named by `documentId` or
  the look-up fails; removing the primary channel from `channels` without naming it is let
  through; every start switches essential tags on again.

## 11. What is not modelled

- Texts, names, colours, locations and references: equal contents are equal values.
- Audit rows (`sync_runs` and their siblings), except that writing one may fail, and what
  the routes read from them.
- Pagination of WebUntis, the spacing of requests, and the delays between retries. A server
  that answers 304 to a validator of another body is out of scope.
- Transactions are atomic steps, as PostgreSQL makes them; every statement sees the last
  commit. The further statements of a nested `select` that only fetch names are left out
  (the classes listed with a lesson in `getWeek`).
- Sanitising of texts in the parser; recurrence rules and zones that ical.js evaluates.
- The list of classes and the status of the timetable, the list of canteens, the status of
  the user test: single reads of one table.
- The calendars of the user test, which the catalogue job of the worker retires.
- The published copies of links in the CMS, migrations, permissions and the admin panel.
- The command-line imports (`cli/`) run the same services without the worker's guards; the
  code says the worker owns these tables, and so does the model.
- Media proxy, health, configuration, logging, command-line tools, OpenAPI contract, campus
  map and deployment: pure I/O, generated code, data or configuration.
- The mobile app (section 12). Its state is on one device, and each of its features would
  be a system of its own.

## 12. Plan

Done: the three imports with their abstract specification, the iCalendar expansion, every
public route that reads more than one thing, the cache, and the CMS's own code. What
remains, in this order; each module is to be written to be proved about (constants with
named assumptions, one action per operation, no recursive operators).

1. `Mail` (mobile) – sign-in, sign-out and initialisation against a synchronisation in
   flight, the cache with its lock, the marker of a wipe, crashes between any two writes to
   the device. Abstract specification: a *session store* whose data always belongs to the
   account signed in. Theorem: data of one account is never readable under another.
2. `Grades` – two portals, the single-flight synchronisation, switching, a new password,
   deletion, and results that arrive after any of them; the same shape serves Moodle with
   a token.
3. `Requests` – drafts, keys, attempts with known and unknown outcomes, recording, wiping,
   restarts. A draft is frozen while its outcome is unknown (`requests_controller.dart:194`)
   and wiped only once its case is recorded (`:227`). Theorem: no duplicate case.
4. `Notifications` with the foreground refresh – the queue of replacements, plans that
   change meanwhile, a kill between cancelling and scheduling.
5. Composition: the settings' deletion of local data over mail, grades, Moodle and requests.
