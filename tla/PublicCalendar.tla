--------------------------- MODULE PublicCalendar ---------------------------
(***************************************************************************)
(* The public calendars of the backend: two worker jobs that mirror        *)
(* editorial definitions (Strapi) and public ICS feeds (Google) into the   *)
(* operational read model, and the part of the API that decides what is    *)
(* served from it.                                                         *)
(*                                                                         *)
(*  - The catalogue job (syncCatalog) fetches the published definitions,   *)
(*    upserts them in one transaction and then, in a statement of its own, *)
(*    retires every active row the catalogue no longer names.              *)
(*  - The events job (syncEvents) starts one task per active calendar.     *)
(*    Every task (syncCalendarEvents) reads its row, fetches the feed with *)
(*    the validators it read, and reconciles or marks the calendar in      *)
(*    separate statements.  The catalogue, the feed and the process may    *)
(*    change between any two of them.                                      *)
(*  - Each job has an overlap guard (WorkerJob).  The guard of the events  *)
(*    job is released by the first task that rejects (Promise.all), while  *)
(*    the other tasks go on: a calendar can then have two tasks.           *)
(*                                                                         *)
(* Feed bodies are abstract values; Content gives the occurrences of a     *)
(* body.  Equal bodies have equal hashes.                                  *)
(***************************************************************************)
EXTENDS Integers, FiniteSets, Sequences

CONSTANTS
    Calendars,    \* slugs of calendars
    Channels,     \* slugs of the channels calendars are attached to
    Feeds,        \* Google calendar ids
    Bodies,       \* feed bodies the parser accepts
    Content,      \* the occurrences of a body
    Keys,         \* occurrence keys
    Catalogues,   \* what Strapi may publish: sequences of definitions
    None,         \* null
    Lookback,     \* PUBLIC_CALENDAR_LOOKBACK_DAYS
    Lookahead,    \* PUBLIC_CALENDAR_LOOKAHEAD_DAYS
    Slots,        \* bound: tasks one calendar can have at a time
    MaxDay,       \* bound: last day of the model
    MaxEdits,     \* bound: changes made to the catalogue and to the feeds
    MaxFaults     \* bound: failed requests, failed statements and crashes

Days == 0 .. MaxDay
Definition == [slug : Calendars, feed : Feeds, channel : Channels, desc : BOOLEAN]
Occurrence == [key : Keys, start : Int, end : Int]
Event == [key : Keys, start : Int, end : Int, desc : BOOLEAN]

(* What a feed answers instead of a usable body.                           *)
Gone == "404"
Private == "403"
Corrupt == "corrupt"
FeedState == Bodies \cup {Gone, Private, Corrupt}

ASSUME BoundsAssumption ==
    /\ MaxDay \in Nat /\ MaxEdits \in Nat /\ MaxFaults \in Nat
    /\ Lookback \in Nat /\ Lookahead \in Nat

ASSUME DataAssumption ==
    /\ None \notin Feeds \cup Channels \cup Bodies \cup (Feeds \X Bodies)
    /\ Bodies \cap {Gone, Private, Corrupt} = {}
    /\ Content \in [Bodies -> SUBSET Occurrence]
    /\ Catalogues \subseteq Seq(Definition)

(* The slug is unique in Strapi, so no catalogue names a slug twice.       *)
ASSUME SlugAssumption ==
    \A cat \in Catalogues : \A i, j \in DOMAIN cat :
        cat[i].slug = cat[j].slug => i = j

VARIABLES
    day,          \* today
    published,    \* the catalogue Strapi publishes
    feed,         \* what each Google feed answers
    row,          \* table public_calendars
    events,       \* table public_calendar_events, per calendar
    catalog,      \* the catalogue job: where it is and what it fetched
    running,      \* overlap guard of the events job
    awaiting,     \* the tasks the events job waits for
    task,         \* the tasks, one per calendar and slot
    imported,     \* history: has a feed of the calendar ever been stored?
    edits,        \* history: changes made so far
    faults        \* history: faults so far

world == <<day, published, feed>>
tables == <<row, events, imported>>
jobs == <<catalog, running, awaiting, task>>
vars == <<day, published, feed, row, events, catalog, running, awaiting, task,
          imported, edits, faults>>

Tasks == Calendars \X Slots
Cal(t) == t[1]

(***************************************************************************)
(* Rows.  A calendar whose status is "absent" has no row.                  *)
(***************************************************************************)
Status == {"absent", "pending", "ready", "stale", "revoked", "unavailable", "invalid"}
Etag == (Feeds \X Bodies) \cup {None}
Row == [status : Status, active : BOOLEAN, feed : Feeds \cup {None},
        channel : Channels \cup {None}, desc : BOOLEAN,
        etag : Etag, hash : Bodies \cup {None}, synced : BOOLEAN]

NoRow == [status |-> "absent", active |-> FALSE, feed |-> None, channel |-> None,
          desc |-> FALSE, etag |-> None, hash |-> None, synced |-> FALSE]

Exists(c) == row[c].status # "absent"

(* What the API serves.                                                    *)
Servable(c) == /\ row[c].active
               /\ row[c].channel # None
               /\ row[c].status \in {"ready", "stale"}
               /\ row[c].synced

(***************************************************************************)
(* Tasks.  kind is what the feed said, or "dbError" when a statement of    *)
(* the task failed.                                                        *)
(***************************************************************************)
Kind == {"none", "body", "sameHash", "notModified", "gone", "private",
         "transport", "corrupt", "dbError"}
Stored == {"body", "sameHash", "notModified"}     \* answers of a readable feed
Blocking == {"gone", "private"}                   \* feedNotFound, permissionRevoked

Task == [pc : {"idle", "read", "fetch", "reconcile", "confirm", "clear", "mark", "finish"},
         snap : Row, day : Days, kind : Kind, body : Bodies \cup {None}, etag : Etag]

IdleTask == [pc |-> "idle", snap |-> NoRow, day |-> 0, kind |-> "none",
             body |-> None, etag |-> None]

Catalog == [pc : {"idle", "fetch", "upsert", "retire"}, fetched : Seq(Definition)]
IdleCatalog == [pc |-> "idle", fetched |-> <<>>]

Init ==
    /\ day = 0
    /\ published \in Catalogues
    /\ feed \in [Feeds -> Bodies]
    /\ row = [c \in Calendars |-> NoRow]
    /\ events = [c \in Calendars |-> {}]
    /\ catalog = IdleCatalog
    /\ running = FALSE
    /\ awaiting = {}
    /\ task = [t \in Tasks |-> IdleTask]
    /\ imported = [c \in Calendars |-> FALSE]
    /\ edits = 0
    /\ faults = 0

(* One more fault, if the bound allows it.                                 *)
Fault == faults < MaxFaults /\ faults' = faults + 1

(***************************************************************************)
(* The world: days pass, editors publish, feeds change.                    *)
(***************************************************************************)
Tick == /\ day < MaxDay
        /\ day' = day + 1
        /\ UNCHANGED <<published, feed, tables, jobs, edits, faults>>

Publish == /\ edits < MaxEdits
           /\ edits' = edits + 1
           /\ \E cat \in Catalogues \ {published} : published' = cat
           /\ UNCHANGED <<day, feed, tables, jobs, faults>>

FeedChanges == /\ edits < MaxEdits
               /\ edits' = edits + 1
               /\ \E f \in Feeds : \E s \in FeedState \ {feed[f]} :
                      feed' = [feed EXCEPT ![f] = s]
               /\ UNCHANGED <<day, published, tables, jobs, faults>>

(***************************************************************************)
(* The catalogue job                                                       *)
(***************************************************************************)
(* The definitions kept of a catalogue: the first one of every channel.    *)
Kept(cat) == {i \in DOMAIN cat : \A j \in 1 .. i - 1 : cat[j].channel # cat[i].channel}
SlugsOf(cat) == {cat[i].slug : i \in Kept(cat)}
DefOf(cat, c) == cat[CHOOSE i \in Kept(cat) : cat[i].slug = c]

(* The transaction upserts the definitions one by one; channelSlug is      *)
(* unique over all rows, retired ones too.  An upsert fails when another   *)
(* row has the channel and has not given it up earlier in the transaction. *)
NoUniqueIndex(cat, i) == FALSE      \* mutant
ChannelTaken(cat, i) ==
    \E d \in Calendars \ {cat[i].slug} :
        /\ row[d].channel = cat[i].channel
        /\ \A j \in Kept(cat) : j < i => cat[j].slug # d

Upserted(c, def) ==
    [row[c] EXCEPT !.status = IF Exists(c) THEN @ ELSE "pending",
                   !.active = TRUE, !.feed = def.feed,
                   !.channel = def.channel, !.desc = def.desc]

CatalogTrigger ==
    /\ catalog.pc = "idle"
    /\ catalog' = [catalog EXCEPT !.pc = "fetch"]
    /\ UNCHANGED <<world, tables, running, awaiting, task, edits, faults>>

(* Both locales are fetched.  An empty or fully rejected catalogue ends    *)
(* the run and changes nothing.                                            *)
CatalogFetched ==
    /\ catalog.pc = "fetch"
    /\ catalog' = IF Kept(published) = {} THEN IdleCatalog
                  ELSE [pc |-> "upsert", fetched |-> published]
    /\ UNCHANGED <<world, tables, running, awaiting, task, edits, faults>>

UpsertDefinitions ==
    /\ catalog.pc = "upsert"
    /\ LET cat == catalog.fetched
       IN  IF \E i \in Kept(cat) : ChannelTaken(cat, i)
           THEN /\ catalog' = IdleCatalog
                /\ UNCHANGED row
           ELSE /\ catalog' = [catalog EXCEPT !.pc = "retire"]
                /\ row' = [c \in Calendars |->
                             IF c \in SlugsOf(cat) THEN Upserted(c, DefOf(cat, c))
                             ELSE row[c]]
    /\ UNCHANGED <<world, events, imported, running, awaiting, task, edits, faults>>

RetireOthers ==
    /\ catalog.pc = "retire"
    /\ row' = [c \in Calendars |->
                 IF c \in SlugsOf(catalog.fetched) THEN row[c]
                 ELSE [row[c] EXCEPT !.active = FALSE]]
    /\ catalog' = IdleCatalog
    /\ UNCHANGED <<world, events, imported, running, awaiting, task, edits, faults>>

(* Strapi does not answer, or a statement fails: the run ends as failed    *)
(* and what was not yet written stays unwritten.                           *)
CatalogFails ==
    /\ catalog.pc \in {"fetch", "upsert", "retire"}
    /\ Fault
    /\ catalog' = IdleCatalog
    /\ UNCHANGED <<world, tables, running, awaiting, task, edits>>

(***************************************************************************)
(* The events job                                                          *)
(***************************************************************************)
FreeSlots(c) == {k \in Slots : task[<<c, k>>].pc = "idle"}

EventsTrigger ==
    /\ ~running
    /\ LET due == {c \in Calendars : row[c].active}
           slot(c) == CHOOSE k \in FreeSlots(c) : TRUE
           started == {<<c, slot(c)>> : c \in due}
       IN  /\ \A c \in due : FreeSlots(c) # {}        \* bound
           /\ task' = [t \in Tasks |-> IF t \in started
                                       THEN [IdleTask EXCEPT !.pc = "read"]
                                       ELSE task[t]]
           /\ awaiting' = started
    /\ running' = TRUE
    /\ UNCHANGED <<world, tables, catalog, edits, faults>>

(* The finally block of WorkerJob.trigger.                                 *)
GuardKept == running' = TRUE /\ awaiting' = {}        \* mutant: no finally
ReleaseGuard == running' = FALSE /\ awaiting' = {}

EventsJobEnds ==
    /\ running
    /\ \A t \in awaiting : task[t].pc = "idle"
    /\ ReleaseGuard
    /\ UNCHANGED <<world, tables, catalog, task, edits, faults>>

Goto(t, pc) == task' = [task EXCEPT ![t].pc = pc]
Done(t) == task' = [task EXCEPT ![t] = IdleTask]

(* The row is read once; everything the task does later uses this copy.    *)
ReadRow(t) ==
    /\ task[t].pc = "read"
    /\ IF row[Cal(t)].active
       THEN task' = [task EXCEPT ![t].pc = "fetch", ![t].snap = row[Cal(t)], ![t].day = day]
       ELSE Done(t)
    /\ UNCHANGED <<world, tables, catalog, running, awaiting, edits, faults>>

(* Where the failure handler goes first.                                   *)
ClearOnAnyFailure(kind) == "clear"      \* mutant
AfterFailure(kind) == IF kind \in Blocking THEN "clear" ELSE "mark"

Fails(t, kind) ==
    task' = [task EXCEPT ![t].kind = kind, ![t].pc = AfterFailure(kind)]

(* Does the body equal the one the row holds the hash of?                  *)
SameOrNoHash(t, s) == task[t].snap.hash \in {s, None}      \* mutant
SameHash(t, s) == task[t].snap.hash = s

(* The conditional request.  A server that sent an ETag answers 304 when   *)
(* the body is still that one; it may send no ETag at all.                 *)
NotModified(t, f, s) ==
    /\ task[t].snap.etag = <<f, s>>
    /\ task' = [task EXCEPT ![t].kind = "notModified", ![t].pc = "confirm"]

Unchanged(t, f, s, e) ==
    /\ task[t].snap.etag # <<f, s>>
    /\ SameHash(t, s)
    /\ task' = [task EXCEPT ![t].kind = "sameHash", ![t].pc = "confirm",
                            ![t].etag = e, ![t].body = s]

NewBody(t, f, s, e) ==
    /\ task[t].snap.etag # <<f, s>>
    /\ ~SameHash(t, s)
    /\ task' = [task EXCEPT ![t].kind = "body", ![t].pc = "reconcile",
                            ![t].etag = e, ![t].body = s]

FeedAnswers(t) ==
    /\ task[t].pc = "fetch"
    /\ LET f == task[t].snap.feed
           s == feed[f]
       IN  \/ s = Gone /\ Fails(t, "gone")
           \/ s = Private /\ Fails(t, "private")
           \/ s = Corrupt /\ Fails(t, "corrupt")
           \/ s \in Bodies /\ NotModified(t, f, s)
           \/ s \in Bodies /\ \E e \in {<<f, s>>, None} :
                                 Unchanged(t, f, s, e) \/ NewBody(t, f, s, e)
    /\ UNCHANGED <<world, tables, catalog, running, awaiting, edits, faults>>

(* Timeout, network, 429, 5xx: all retries used up.                        *)
FeedUnreachable(t) ==
    /\ task[t].pc = "fetch"
    /\ Fault
    /\ Fails(t, "transport")
    /\ UNCHANGED <<world, tables, catalog, running, awaiting, edits>>

From(d) == d - Lookback
To(d) == d + Lookahead

(* parseIcs: the occurrences that overlap the window.                      *)
Expand(body, d, desc) ==
    {[key |-> o.key, start |-> o.start, end |-> o.end, desc |-> desc] :
        o \in {x \in Content[body] : x.end > From(d) /\ x.start < To(d)}}

KeysOf(evs) == {e.key : e \in evs}
Parsed(t) == Expand(task[t].body, task[t].day, task[t].snap.desc)

(* One transaction: new and changed occurrences are written, and rows that *)
(* start within the window and were not seen are deleted.                  *)
Reconcile(t) ==
    /\ task[t].pc = "reconcile"
    /\ LET c == Cal(t)
           new == Parsed(t)
           kept == {e \in events[c] : /\ e.key \notin KeysOf(new)
                                      /\ ~ (From(task[t].day) <= e.start /\ e.start <= To(task[t].day))}
       IN  /\ events' = [events EXCEPT ![c] = kept \cup new]
           /\ imported' = [imported EXCEPT ![c] = TRUE]
    /\ Goto(t, "confirm")
    /\ UNCHANGED <<world, row, catalog, running, awaiting, edits, faults>>

(* The calendar is ready.  A 304 keeps the validators, an unchanged body   *)
(* renews the ETag, a new body also the hash.                              *)
Confirmed(t, r) ==
    [r EXCEPT !.status = "ready", !.synced = TRUE,
              !.etag = IF task[t].kind = "notModified" THEN @ ELSE task[t].etag,
              !.hash = IF task[t].kind = "body" THEN task[t].body ELSE @]
ConfirmedSnapshot(t) == Confirmed(t, task[t].snap)   \* mutant: writes back the row it read
ConfirmedRow(t) == Confirmed(t, row[Cal(t)])

Confirm(t) ==
    /\ task[t].pc = "confirm"
    /\ row' = [row EXCEPT ![Cal(t)] = ConfirmedRow(t)]
    /\ Goto(t, "finish")
    /\ UNCHANGED <<world, events, imported, catalog, running, awaiting, edits, faults>>

(* handleEventFailure: the feed is gone or no longer public.               *)
ClearEvents(t) ==
    /\ task[t].pc = "clear"
    /\ events' = [events EXCEPT ![Cal(t)] = {}]
    /\ Goto(t, "mark")
    /\ UNCHANGED <<world, row, imported, catalog, running, awaiting, edits, faults>>

RevokedAsTransport(t) ==          \* mutant: a 403 is taken for a temporary error
    IF task[t].snap.synced THEN "stale" ELSE "pending"

(* The status after a failure, from the row the task read at its start.    *)
NextStatus(t) ==
    LET kind == task[t].kind
        snap == task[t].snap
    IN  CASE kind = "gone" -> "unavailable"
          [] kind = "private" -> "revoked"
          [] kind = "transport" -> IF snap.synced THEN "stale" ELSE "pending"
          [] kind = "corrupt" -> IF snap.synced THEN "stale" ELSE "invalid"
          [] OTHER -> snap.status

MarkFailure(t) ==
    /\ task[t].pc = "mark"
    /\ row' = [row EXCEPT ![Cal(t)].status = NextStatus(t)]
    /\ Goto(t, "finish")
    /\ UNCHANGED <<world, events, imported, catalog, running, awaiting, edits, faults>>

FinishTask(t) ==
    /\ task[t].pc = "finish"
    /\ Done(t)
    /\ UNCHANGED <<world, tables, catalog, running, awaiting, edits, faults>>

(* A statement fails inside the try block: handled as an unclassified      *)
(* failure, even when only the audit row could not be closed.              *)
StatementFails(t) ==
    /\ \/ task[t].pc \in {"reconcile", "confirm"}
       \/ task[t].pc = "finish" /\ task[t].kind \in Stored
    /\ Fault
    /\ Fails(t, "dbError")
    /\ UNCHANGED <<world, tables, catalog, running, awaiting, edits>>

(* A statement fails outside the try block or in the failure handler: the  *)
(* task rejects, Promise.all rejects with it and the guard is released,    *)
(* whatever the other tasks are doing.                                     *)
TaskRejects(t) ==
    /\ \/ task[t].pc \in {"read", "clear", "mark"}
       \/ task[t].pc = "finish" /\ task[t].kind \notin Stored
    /\ Fault
    /\ Done(t)
    /\ IF t \in awaiting
       THEN ReleaseGuard
       ELSE UNCHANGED <<running, awaiting>>
    /\ UNCHANGED <<world, tables, catalog, edits>>

(* The worker process dies and is restarted: nothing in memory survives.   *)
Crash ==
    /\ Fault
    /\ catalog' = IdleCatalog
    /\ running' = FALSE
    /\ awaiting' = {}
    /\ task' = [t \in Tasks |-> IdleTask]
    /\ UNCHANGED <<world, tables, edits>>

(***************************************************************************)
(* The specification                                                       *)
(***************************************************************************)
CatalogStep == CatalogFetched \/ UpsertDefinitions \/ RetireOthers
TaskStep(t) == \/ ReadRow(t) \/ FeedAnswers(t) \/ Reconcile(t) \/ Confirm(t)
               \/ ClearEvents(t) \/ MarkFailure(t) \/ FinishTask(t)
TaskFault(t) == FeedUnreachable(t) \/ StatementFails(t) \/ TaskRejects(t)

Next == \/ Tick \/ Publish \/ FeedChanges
        \/ CatalogTrigger \/ CatalogStep \/ CatalogFails
        \/ EventsTrigger \/ EventsJobEnds
        \/ \E t \in Tasks : TaskStep(t) \/ TaskFault(t)
        \/ Crash

Spec == Init /\ [][Next]_vars

(* Cron fires every job again and again, requests have timeouts and a      *)
(* bounded number of retries, and statements return.                       *)
Fairness == /\ WF_vars(CatalogTrigger) /\ WF_vars(CatalogStep)
            /\ WF_vars(EventsTrigger) /\ WF_vars(EventsJobEnds)
            /\ \A t \in Tasks : WF_vars(TaskStep(t))

FairSpec == Spec /\ Fairness

(***************************************************************************)
(* Properties                                                              *)
(***************************************************************************)
(* Type invariant: rows, events, jobs and tasks have the shape the schema  *)
(* and the services give them.                                             *)
TypeOK ==
    /\ day \in Days /\ edits \in Nat /\ faults \in Nat
    /\ published \in Catalogues
    /\ feed \in [Feeds -> FeedState]
    /\ row \in [Calendars -> Row]
    /\ events \in [Calendars -> SUBSET Event]
    /\ catalog \in Catalog
    /\ running \in BOOLEAN /\ awaiting \subseteq Tasks
    /\ task \in [Tasks -> Task]
    /\ imported \in [Calendars -> BOOLEAN]

(* A calendar is public only after a feed of it was parsed and stored,     *)
(* whatever order catalogue runs, 304 answers, failures and crashes come   *)
(* in (servableWhere, syncCalendarEvents).                                 *)
ServedOnlyAfterImport == \A c \in Calendars : Servable(c) => imported[c]

(* No channel is ever attached to two calendars, retired ones included:    *)
(* the upserts of one transaction never leave such a pair (syncCatalog).   *)
UniqueChannel ==
    \A c, d \in Calendars :
        c # d /\ Exists(c) /\ Exists(d) => row[c].channel # row[d].channel

(* A catalogue run that ends in success leaves exactly its catalogue       *)
(* active, with the definitions it fetched: no write of the events job     *)
(* between its transaction and its retirement statement is lost on it or   *)
(* undoes it (syncCatalog, syncCalendarEvents).                            *)
Mirrors(c, def) == /\ row'[c].feed = def.feed
                   /\ row'[c].channel = def.channel
                   /\ row'[c].desc = def.desc
CatalogueMirrored ==
    [][RetireOthers =>
        LET cat == catalog.fetched
        IN  \A c \in Calendars :
                /\ row'[c].active <=> c \in SlugsOf(cat)
                /\ c \in SlugsOf(cat) => Mirrors(c, DefOf(cat, c))]_vars

(* The events job keeps the rule of LastGood: an event leaves the store    *)
(* only when a readable feed that does not list it, or a feed that is gone *)
(* or no longer public, was received for its calendar; transport errors,   *)
(* unparsable bodies, failed statements and crashes remove nothing.        *)
HoldsAnswer(r) == r.kind \notin {"none", "dbError"}
AnswerOf(r) == [usable |-> r.kind \in {"body"} \cup Blocking,
                present |-> IF r.kind = "body"
                            THEN KeysOf(Expand(r.body, r.day, r.snap.desc)) ELSE {}]
KeptKeys == [c \in Calendars |-> KeysOf(events[c])]
Answers == [c \in Calendars |->
              {AnswerOf(task[t]) : t \in {u \in Tasks : Cal(u) = c /\ HoldsAnswer(task[u])}}]
LG == INSTANCE LastGood WITH Owners <- Calendars, Items <- Keys,
                             store <- KeptKeys, inbox <- Answers
LastGoodKept == LG!Spec

(* When an active calendar's feed stays readable, the calendar ends up     *)
(* ready for good: no guard stays taken, no task keeps writing an outdated *)
(* status (WorkerJob.trigger, handleEventFailure).                         *)
Readable(c) == row[c].active /\ feed[row[c].feed] \in Bodies
EndsUpReady == \A c \in Calendars :
    <>[]Readable(c) => <>[](row[c].status = "ready" /\ row[c].synced)

(* When an active calendar's feed stays gone or private, the calendar ends *)
(* up hidden for good, with no event stored (handleEventFailure).          *)
Blocked(c) == row[c].active /\ feed[row[c].feed] \in {Gone, Private}
EndsUpHidden == \A c \in Calendars :
    <>[]Blocked(c) => <>[](~Servable(c) /\ events[c] = {})
=============================================================================
