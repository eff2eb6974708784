-------------------------- MODULE TimetableReading --------------------------
(***************************************************************************)
(* What clients read of the timetable (TimetableService), beside the jobs  *)
(* that write it: the imports of the worker, whose requests and statements *)
(* are taken apart in Timetable and are a few steps here, and the seed of  *)
(* the user test with its removal.                                         *)
(*                                                                         *)
(* A request makes its queries without a transaction, the first ones in    *)
(* parallel.  One findMany is several statements: the links of the group   *)
(* are selected by the date of their lessons, then the lessons by their    *)
(* ids, and an import may commit between.  It tells with its lessons how   *)
(* old they are, which it takes from the runs that have succeeded; a run   *)
(* writes its lessons first and says later that it has succeeded.          *)
(*                                                                         *)
(* There are one class of WebUntis and the group of the user test, each    *)
(* with its own lessons.  Time is counted in days for the windows and the  *)
(* age of the data, and in the unit of WallClock for the lessons.          *)
(***************************************************************************)
EXTENDS WallClock, FiniteSets, Sequences

CONSTANTS
    Class, TestGroup, \* the groups
    Lessons,          \* keys of lessons of the class
    TestLessons,      \* keys of lessons of the user test
    TestSlot,         \* their days in the four weeks, and their wall clocks
    Listings,         \* what WebUntis may list: lessons with date and wall clock
    Infos,            \* texts of lessons
    None,             \* null
    Lookback,         \* WEBUNTIS_LOOKBACK_DAYS
    Lookahead,        \* WEBUNTIS_LOOKAHEAD_DAYS
    StaleAfter,       \* WEBUNTIS_STALE_AFTER_MINUTES, in days
    MaxRange,         \* MAX_RANGE_DAYS
    Deployments,      \* the switches that may be set together
    Ranges,           \* the ranges of days clients ask for
    FirstDay,         \* the day on which the model begins
    MaxDay,           \* bound: its last day
    MaxWrites,        \* bound: transactions that change the tables
    MaxEdits,         \* bound: changes made in WebUntis
    MaxFaults         \* bound: failed jobs and deployments

Groups == {Class, TestGroup}
Keys == Lessons \cup TestLessons
KeysOf(g) == IF g = Class THEN Lessons ELSE TestLessons

(* A lesson as WebUntis lists it; as it is stored start is an instant.     *)
Lesson == [date : Int, start : Int, info : Infos \cup {None}]
Run == [from : Int, to : Int, finishedAt : Int, wrote : Nat]
Sources == {"webuntis", "user-test"}

ASSUME ReadingAssumption ==
    /\ Class # TestGroup /\ Lessons \cap TestLessons = {}
    /\ None \notin Lesson \cup Run \cup Nat
    /\ Listings \subseteq [Lessons -> Lesson \cup {None}]
    /\ TestSlot \in [TestLessons -> [day : 0 .. 27, start : 0 .. Day - 1]]
    /\ {Lookback, Lookahead, StaleAfter, MaxRange, MaxWrites, MaxEdits, MaxFaults} \subseteq Nat
    /\ FirstDay \in Int /\ MaxDay \in Int
    /\ Deployments \subseteq SUBSET {"webuntis", "test"}

VARIABLES
    today,
    switches,         \* WEBUNTIS_ENABLED and USER_TEST_DATA_ENABLED, where they are set
    listing,          \* what WebUntis lists
    group,            \* table timetable_groups
    entry,            \* table timetable_entries, with the links to the groups
    rowId,            \* its ids
    runs,             \* table timetable_sync_runs: the last success for lessons
    entryJob,         \* the job of the lessons
    seededAt,         \* the seed of the user test: None, or when it began
    request,          \* the request of a client
    answer,           \* the answer that has just been given
    contents,         \* history: the tables after each change
    issued,           \* history: the group of each id
    edits, faults     \* history: changes and faults so far

tables == <<group, entry, rowId, runs, contents, issued>>
jobs == <<entryJob, seededAt>>
counts == <<edits, faults>>
vars == <<today, switches, listing, tables, jobs, request, answer, counts>>

Window(d) == d - Lookback .. d + Lookahead

(***************************************************************************)
(* The tables                                                              *)
(***************************************************************************)
(* A transaction leaves the tables g and e.  A lesson that is written again*)
(* keeps its id; one that comes back gets an id that was never given.      *)
Commit(g, e) ==
    /\ Len(contents) <= MaxWrites
    /\ group' = g /\ entry' = e
    /\ rowId' = [l \in Keys |-> IF e[l] = None THEN None
                               ELSE IF entry[l] # None THEN rowId[l] ELSE Len(contents) + 1]
    /\ contents' = IF <<g, e>> = <<group, entry>> THEN contents
                   ELSE Append(contents, [group |-> g, entry |-> e])

(* A group keeps its id for as long as its row is there.                   *)
NewRow(g) == [id |-> Len(issued) + 1, active |-> TRUE]
Revived(g) == IF group[g] = None THEN NewRow(g) ELSE [group[g] EXCEPT !.active = TRUE]
Issue(g) == issued' = IF group[g] = None THEN Append(issued, g) ELSE issued

(* Of the runs of one source only the last is ever read.                   *)
RunOf(from, to, at, wrote) == [from |-> from, to |-> to, finishedAt |-> at, wrote |-> wrote]

(***************************************************************************)
(* The imports                                                             *)
(***************************************************************************)
Tick == /\ today < MaxDay
        /\ today' = today + 1
        /\ UNCHANGED <<switches, listing, tables, jobs, counts>>

ListingChanges ==
    /\ edits < MaxEdits
    /\ edits' = edits + 1
    /\ \E p \in Listings \ {listing} : listing' = p
    /\ UNCHANGED <<today, switches, tables, jobs, faults>>

(* syncGroups: the catalogue names the class, or it names others only.     *)
UpsertGroups ==
    /\ "webuntis" \in switches
    /\ Commit([group EXCEPT ![Class] = Revived(Class)], entry)
    /\ Issue(Class)
    /\ UNCHANGED <<today, switches, listing, runs, jobs, counts>>

Retired(row) == [row EXCEPT !.active = FALSE]
RetireGroups ==
    /\ "webuntis" \in switches /\ group[Class] # None
    /\ Commit([group EXCEPT ![Class] = Retired(group[Class])], entry)
    /\ UNCHANGED <<today, switches, listing, runs, issued, jobs, counts>>

(* syncEntries: the window is read.  Nothing is written when it is empty.  *)
EntryJob == [pc : {"idle", "write", "finish"}, day : Int, known : BOOLEAN,
             got : [Lessons -> Lesson \cup {None}], wrote : Nat]
NoneGot == [l \in Lessons |-> None]
IdleJob == [pc |-> "idle", day |-> 0, known |-> FALSE, got |-> NoneGot, wrote |-> 0]
Normalized(x) == [x EXCEPT !.start = ToUtc(x.start)]
Got(d) == [l \in Lessons |-> IF listing[l] # None /\ listing[l].date \in Window(d)
                             THEN Normalized(listing[l]) ELSE None]
EntriesFetched ==
    /\ "webuntis" \in switches /\ entryJob.pc = "idle"
    /\ Got(today) # NoneGot
    /\ entryJob' = [pc |-> "write", day |-> today, known |-> group[Class] # None,
                    got |-> Got(today), wrote |-> 0]
    /\ UNCHANGED <<today, switches, listing, tables, seededAt, counts>>

(* The transaction: lessons of the window that are not listed are          *)
(* withdrawn, and so are all where the class is not known.                 *)
InWindow(x) == x # None /\ x.date \in Window(entryJob.day)
Imported(l) ==
    IF l \in Lessons /\ entryJob.known /\ entryJob.got[l] # None THEN entryJob.got[l]
    ELSE IF l \in Lessons /\ InWindow(entry[l]) THEN None ELSE entry[l]
EntriesWritten ==
    /\ entryJob.pc = "write"
    /\ Commit(group, [l \in Keys |-> Imported(l)])
    /\ entryJob' = [entryJob EXCEPT !.pc = "finish", !.wrote = Len(contents')]
    /\ UNCHANGED <<today, switches, listing, runs, issued, seededAt, counts>>

EntriesFinished ==
    /\ entryJob.pc = "finish"
    /\ runs' = [runs EXCEPT !["webuntis"] = RunOf(entryJob.day - Lookback,
                        entryJob.day + Lookahead, today, entryJob.wrote)]
    /\ entryJob' = IdleJob
    /\ UNCHANGED <<today, switches, listing, group, entry, rowId, contents, issued, seededAt,
                   counts>>

JobFails ==
    /\ faults < MaxFaults
    /\ faults' = faults + 1
    /\ entryJob.pc # "idle" /\ entryJob' = IdleJob
    /\ UNCHANGED <<today, switches, listing, tables, seededAt, edits>>

(***************************************************************************)
(* The user test                                                           *)
(***************************************************************************)
(* The weeks begin on the Monday of the day of the seed.                   *)
MondayOf(d) == d - (d % 7)
TestLesson(l, d) ==
    LET date == MondayOf(d) + TestSlot[l].day
    IN  [date |-> date, start |-> ToUtc(date * Day + TestSlot[l].start), info |-> None]

SeedStarts ==
    /\ "test" \in switches /\ seededAt = None
    /\ seededAt' = today
    /\ UNCHANGED <<today, switches, listing, tables, entryJob, counts>>

(* One transaction writes the group, its lessons and the runs that say so. *)
TestRun(d) == RunOf(MondayOf(d), MondayOf(d) + 27, d, Len(contents'))
Seed ==
    /\ seededAt # None
    /\ Commit([group EXCEPT ![TestGroup] = Revived(TestGroup)],
              [l \in Keys |-> IF l \in TestLessons THEN TestLesson(l, seededAt) ELSE entry[l]])
    /\ Issue(TestGroup)
    /\ runs' = [runs EXCEPT !["user-test"] = TestRun(seededAt)]
    /\ seededAt' = None
    /\ UNCHANGED <<today, switches, listing, entryJob, counts>>

Remove ==
    /\ group[TestGroup] # None
    /\ Commit([group EXCEPT ![TestGroup] = None],
              [l \in Keys |-> IF l \in TestLessons THEN None ELSE entry[l]])
    /\ runs' = [runs EXCEPT !["user-test"] = None]
    /\ UNCHANGED <<today, switches, listing, issued, jobs, counts>>

(* The backend is deployed again with other switches.                      *)
Redeploy ==
    /\ faults < MaxFaults
    /\ faults' = faults + 1
    /\ \E s \in Deployments \ {switches} : switches' = s
    /\ entryJob' = IdleJob /\ seededAt' = None
    /\ request' = None
    /\ UNCHANGED <<today, listing, tables, edits>>

(***************************************************************************)
(* Requests                                                                *)
(***************************************************************************)
FeatureEnabled == switches # {}
IsStale(at) == at = None \/ today - at > StaleAfter

(* lastSuccessful and lastEntryRun: the run that finished last, whatever   *)
(* its source.                                                             *)
Finished == {runs[s] : s \in Sources} \ {None}
Newest == {r \in Finished : \A q \in Finished : q.finishedAt <= r.finishedAt}
LastRun == IF Finished = {} THEN {None} ELSE Newest
FinishedAt(r) == IF r = None THEN None ELSE r.finishedAt

(* refineDateRange                                                         *)
RangeValid(from, to) == from <= to /\ to - from <= MaxRange

(* The lessons of the group with an id on some days.                       *)
Holding(g, e, id, days) ==
    {l \in Keys : /\ e[l] # None /\ e[l].date \in days
                  /\ \E h \in Groups : l \in KeysOf(h) /\ g[h] # None /\ g[h].id = id}

Ask(op, id, days) ==
    /\ request = None
    /\ request' = [op |-> op, id |-> id, days |-> days, todo |-> {"group", "run"},
                   group |-> FALSE, run |-> None, links |-> None, rows |-> None]
    /\ UNCHANGED <<today, switches, listing, tables, jobs, counts>>
AskWeek ==
    \E id \in DOMAIN issued, r \in Ranges :
        RangeValid(r[1], r[2]) /\ Ask("week", id, r[1] .. r[2])
AskInfo == \E id \in DOMAIN issued : Ask("info", id, {})

(* The queries of Promise.all, in any order.                               *)
Known(id) == \E g \in Groups : group[g] # None /\ group[g].id = id
LookUp(q) ==
    /\ q \in request.todo
    /\ \E run \in IF q = "run" THEN LastRun ELSE {request.run} :
          request' = [request EXCEPT !.todo = @ \ {q}, !.run = run,
                                     !.group = IF q = "group" THEN Known(request.id) ELSE @]
ReadFirst ==
    /\ request # None
    /\ \E q \in {"group", "run"} : LookUp(q)
    /\ UNCHANGED <<today, switches, listing, tables, jobs, counts>>

Respond(a) == /\ answer' = a /\ request' = None
              /\ UNCHANGED <<today, switches, listing, tables, jobs, counts>>
Ready == request # None /\ request.todo = {}

GroupMissing ==
    /\ Ready /\ ~request.group
    /\ Respond([op |-> "missing", id |-> request.id])

(* The links are read when the group and the run are known, if the feature *)
(* is on.  Lesson texts are those of the window of the run.                *)
DaysRead(r) == IF r.op = "week" THEN r.days
               ELSE IF r.run = None THEN {} ELSE r.run.from .. r.run.to
LinksRead ==
    IF FeatureEnabled
    THEN {[key |-> l, id |-> rowId[l]] : l \in Holding(group, entry, request.id, DaysRead(request))}
    ELSE {}
ReadLinks ==
    /\ Ready /\ request.group /\ request.links = None
    /\ request' = [request EXCEPT !.links = LinksRead]
    /\ UNCHANGED <<today, switches, listing, tables, jobs, counts>>

(* The second statement selects the lessons by id, on whatever day they are*)
(* now.  The code asks nothing about a link whose lesson is gone: the      *)
(* request fails.                                                          *)
InTable(x) == entry[x.key] # None /\ rowId[x.key] = x.id
ReadRows ==
    /\ Ready /\ request.links # None /\ request.rows = None
    /\ \A x \in request.links : InTable(x)
    /\ request' = [request EXCEPT
           !.rows = {[key |-> x.key, row |-> entry[x.key]] : x \in request.links}]
    /\ UNCHANGED <<today, switches, listing, tables, jobs, counts>>
RowGone ==
    /\ Ready /\ request.links # None /\ request.rows = None
    /\ \E x \in request.links : ~InTable(x)
    /\ Respond([op |-> "failed", id |-> request.id])

RunsReadLate == LastRun                     \* mutant: after the lessons
RunsRead == {request.run}

(* getWeek: the lessons of every day of the range.                         *)
DataState(some, run) ==
    IF ~FeatureEnabled THEN "unavailable"
    ELSE IF run # None \/ some THEN "ready" ELSE "pending"
OnDay(rows, d) == {x \in rows : x.row.date = d}
Shown == UNION {OnDay(request.rows, d) : d \in request.days}
WeekTold ==
    /\ Ready /\ request.op = "week" /\ request.rows # None
    /\ \E run \in RunsRead :
          Respond([op |-> "week", id |-> request.id, run |-> run,
                   days |-> [d \in request.days |-> OnDay(request.rows, d)],
                   stale |-> IsStale(FinishedAt(run)),
                   dataState |-> DataState(Shown # {}, run)])

(* listLessonInfo                                                          *)
InfoValues(rows) == {x.row.info : x \in rows}
InfoTold ==
    /\ Ready /\ request.op = "info" /\ request.rows # None
    /\ Respond([op |-> "info", id |-> request.id, run |-> request.run,
                values |-> InfoValues(request.rows) \ {None},
                hasWithoutInfo |-> None \in InfoValues(request.rows)])

(***************************************************************************)
(* The specification                                                       *)
(***************************************************************************)
Init ==
    /\ today = FirstDay
    /\ switches \in Deployments
    /\ listing \in Listings
    /\ group = [g \in Groups |-> None]
    /\ entry = [l \in Keys |-> None]
    /\ rowId = [l \in Keys |-> None]
    /\ runs = [s \in Sources |-> None]
    /\ entryJob = IdleJob /\ seededAt = None
    /\ request = None /\ answer = None
    /\ contents = << [group |-> group, entry |-> entry] >>
    /\ issued = << >>
    /\ edits = 0 /\ faults = 0

ImportSteps == \/ UpsertGroups \/ RetireGroups
               \/ EntriesFetched \/ EntriesWritten \/ EntriesFinished
TestSteps == SeedStarts \/ Seed \/ Remove
Asking == AskWeek \/ AskInfo
Reading == ReadFirst \/ ReadLinks \/ ReadRows
Answering == GroupMissing \/ RowGone \/ WeekTold \/ InfoTold

(* An answer is seen when it is given; nothing is kept of it.              *)
WorldSteps == \/ Tick \/ ListingChanges \/ ImportSteps \/ JobFails \/ TestSteps
Next == \/ WorldSteps /\ UNCHANGED request /\ answer' = None
        \/ (Redeploy \/ Asking \/ Reading) /\ answer' = None
        \/ Answering

Spec == Init /\ [][Next]_vars

(***************************************************************************)
(* Properties                                                              *)
(***************************************************************************)
(* An answer never claims to be fresher than it is, although it is put     *)
(* together from queries without a transaction while imports, the seed of  *)
(* the user test and its removal go on: since the run it names has written,*)
(* there were a moment v whose lessons of the group it tells of, and a     *)
(* moment w, not before v, when these were as it tells them.  None of them *)
(* was withdrawn in between (getWeek, listLessonInfo).                     *)
DaysTold(a) == IF a.op = "week" THEN DOMAIN a.days ELSE a.run.from .. a.run.to
HeldAt(a, t) == Holding(t.group, t.entry, a.id, DaysTold(a))
AsOf(t, held) == {[key |-> l, row |-> t.entry[l]] : l \in held}
Tells(a, rows) ==
    IF a.op = "week" THEN \A d \in DOMAIN a.days : a.days[d] = OnDay(rows, d)
    ELSE /\ a.values = InfoValues(rows) \ {None}
         /\ a.hasWithoutInfo = (None \in InfoValues(rows))
NotAhead(a, all) ==
    \E v, w \in a.run.wrote .. Len(all) :
        /\ v <= w
        /\ \A l \in HeldAt(a, all[v]) : \A u \in v .. w : all[u].entry[l] # None
        /\ Tells(a, AsOf(all[w], HeldAt(a, all[v])))
StampNotAhead ==
    /\ answer # None /\ answer.op \in {"week", "info"} /\ FeatureEnabled
    /\ answer.run # None
    => NotAhead(answer, contents)

(* Clocks in Berlin show, at the start of a lesson on a day of an answer,  *)
(* the wall clock that was listed for it on that day, also around the      *)
(* changes to summer and winter time (toUtc, buildUserTestDataset).        *)
ListedStarts(l, d) ==
    IF l \in Lessons
    THEN {p[l].start : p \in {q \in Listings : q[l] # None /\ q[l].date = d}}
    ELSE {d * Day + TestSlot[l].start}
ShownWhenItIs ==
    answer # None /\ answer.op = "week" =>
        \A d \in DOMAIN answer.days : \A x \in answer.days[d] :
            \E w \in ListedStarts(x.key, d) : Shows(x.row.start, w)
=============================================================================
