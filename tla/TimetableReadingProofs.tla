----------------------- MODULE TimetableReadingProofs -----------------------
(***************************************************************************)
(* The lessons of an answer begin when they were listed to begin, and an   *)
(* answer is as fresh as it says.                                          *)
(***************************************************************************)
EXTENDS TimetableReading, TLAPS

(***************************************************************************)
(* Clocks                                                                  *)
(***************************************************************************)
(* The conversion corrected once is enough: clocks in Berlin show the wall *)
(* clock again at the instant that toUtc finds, in the weeks of both       *)
(* changes too, and one hour later if the wall clock does not exist.       *)
THEOREM ToUtcShows == \A w \in Int : Shows(ToUtc(w), w)
<1> SUFFICES ASSUME NEW w \in Int PROVE Shows(ToUtc(w), w)
    OBVIOUS
<1>1. CASE w < Spring
    BY <1>1, ClockAssumption DEF Shows, ToUtc, Local, Offset, Skipped
<1>2. CASE Spring <= w /\ w < Spring + Hour
    BY <1>2, ClockAssumption DEF Shows, ToUtc, Local, Offset, Skipped
<1>3. CASE Spring + Hour <= w /\ w < Spring + 2 * Hour
    BY <1>3, ClockAssumption DEF Shows, ToUtc, Local, Offset, Skipped
<1>4. CASE Spring + 2 * Hour <= w /\ w < Autumn
    BY <1>4, ClockAssumption DEF Shows, ToUtc, Local, Offset, Skipped
<1>5. CASE Autumn <= w /\ w < Autumn + Hour
    BY <1>5, ClockAssumption DEF Shows, ToUtc, Local, Offset, Skipped
<1>6. CASE Autumn + Hour <= w
    BY <1>6, ClockAssumption DEF Shows, ToUtc, Local, Offset, Skipped
<1> QED
    BY <1>1, <1>2, <1>3, <1>4, <1>5, <1>6, ClockAssumption

(* Lessons that follow one another on the wall clock do so in time: sorting*)
(* by startsAt gives the timetable its order.  (Not so for a wall clock    *)
(* that the clocks skip.)                                                  *)
THEOREM OrderKept ==
    \A v, w \in Int : v < w /\ ~Skipped(v) /\ ~Skipped(w) => ToUtc(v) < ToUtc(w)
<1> SUFFICES ASSUME NEW v \in Int, NEW w \in Int, v < w, ~Skipped(v), ~Skipped(w)
             PROVE  ToUtc(v) < ToUtc(w)
    OBVIOUS
<1>1. \A x \in Int : ~Skipped(x) =>
         ToUtc(x) = x - (IF x < Spring + Hour \/ x >= Autumn + Hour THEN Hour ELSE 2 * Hour)
    BY ClockAssumption DEF ToUtc, Offset, Skipped
<1>2. CASE v < Spring + Hour
    BY <1>1, <1>2, ClockAssumption DEF Skipped
<1>3. CASE Spring + 2 * Hour <= v /\ v < Autumn + Hour
    BY <1>1, <1>3, ClockAssumption DEF Skipped
<1>4. CASE Autumn + Hour <= v
    BY <1>1, <1>4, ClockAssumption DEF Skipped
<1> QED
    BY <1>2, <1>3, <1>4, ClockAssumption DEF Skipped

(***************************************************************************)
(* The invariant.  A lesson is converted once, when it is imported or      *)
(* seeded, and carried from there into the table, into the rows a request  *)
(* has read and into its answer.                                           *)
(***************************************************************************)
Right(l, x) == \E w \in ListedStarts(l, x.date) : Shows(x.start, w)

Typed == today \in Int /\ listing \in Listings /\ seededAt \in Int \cup {None}
JobRight == \A l \in Lessons : entryJob.got[l] # None => Right(l, entryJob.got[l])
TableRight == \A l \in Keys : entry[l] # None => Right(l, entry[l])
RequestRight ==
    request # None =>
        /\ {"links", "rows"} \subseteq DOMAIN request
        /\ request.links # None => \A x \in request.links : x.key \in Keys
        /\ request.rows # None => \A x \in request.rows : Right(x.key, x.row)

ClockInv == Typed /\ JobRight /\ TableRight /\ RequestRight
ReadingInv == ClockInv /\ ShownWhenItIs

(* What WebUntis lists is right after normalisation.                       *)
LEMMA NormalizedRight ==
    ASSUME NEW p \in Listings, NEW l \in Lessons, p[l] # None
    PROVE  Right(l, Normalized(p[l]))
<1>1. p[l] \in Lesson
    BY ReadingAssumption
<1>2. p[l].start \in Int
    BY <1>1 DEF Lesson
<1>3. Normalized(p[l]).date = p[l].date /\ Normalized(p[l]).start = ToUtc(p[l].start)
    BY <1>1 DEF Lesson, Normalized
<1>4. p[l].start \in ListedStarts(l, p[l].date)
    BY DEF ListedStarts
<1> QED
    BY <1>2, <1>3, <1>4, ToUtcShows DEF Right

(* So are the lessons of the user test, whenever it is seeded.             *)
LEMMA TestLessonRight ==
    ASSUME NEW d \in Int, NEW l \in TestLessons
    PROVE  Right(l, TestLesson(l, d))
<1> DEFINE date == MondayOf(d) + TestSlot[l].day
<1>1. TestSlot[l].day \in Int /\ TestSlot[l].start \in Int
    BY ReadingAssumption, ClockAssumption DEF Day
<1>2. date \in Int /\ date * Day + TestSlot[l].start \in Int
    BY <1>1, ClockAssumption DEF MondayOf, Day
<1>3. /\ TestLesson(l, d).date = date
      /\ TestLesson(l, d).start = ToUtc(date * Day + TestSlot[l].start)
    BY DEF TestLesson
<1>4. ListedStarts(l, date) = {date * Day + TestSlot[l].start}
    BY ReadingAssumption DEF ListedStarts
<1>5. Shows(ToUtc(date * Day + TestSlot[l].start), date * Day + TestSlot[l].start)
    BY <1>2, ToUtcShows
<1> HIDE DEF date
<1> QED
    BY <1>3, <1>4, <1>5 DEF Right

LEMMA InitReading == ASSUME Init PROVE ReadingInv
<1>1. ClockInv
    BY ReadingAssumption DEF Init, ClockInv, Typed, JobRight, TableRight, RequestRight,
       IdleJob, NoneGot
<1>2. ShownWhenItIs
    BY DEF Init, ShownWhenItIs
<1> QED
    BY <1>1, <1>2 DEF ReadingInv

(* The rows that a transaction of the import leaves.                       *)
LEMMA WrittenRight ==
    ASSUME ClockInv, EntriesWritten
    PROVE  \A l \in Keys : entry'[l] # None => Right(l, entry'[l])
<1> SUFFICES ASSUME NEW l \in Keys, entry'[l] # None PROVE Right(l, entry'[l])
    OBVIOUS
<1>1. entry'[l] = Imported(l)
    BY DEF EntriesWritten, Commit
<1>2. \/ l \in Lessons /\ entryJob.got[l] # None /\ Imported(l) = entryJob.got[l]
      \/ Imported(l) = None
      \/ Imported(l) = entry[l]
    BY DEF Imported
<1> QED
    BY <1>1, <1>2 DEF ClockInv, JobRight, TableRight

(* Answers: only a week shows when its lessons are.                        *)
LEMMA AnswerRight ==
    ASSUME ClockInv, WeekTold PROVE ShownWhenItIs'
<1>1. PICK run \in RunsRead :
         answer' = [op |-> "week", id |-> request.id, run |-> run,
                    days |-> [d \in request.days |-> OnDay(request.rows, d)],
                    stale |-> IsStale(FinishedAt(run)),
                    dataState |-> DataState(Shown # {}, run)]
    BY DEF WeekTold, Respond
<1>2. SUFFICES ASSUME NEW d \in request.days,
                      NEW x \in OnDay(request.rows, d)
               PROVE  \E w \in ListedStarts(x.key, d) : Shows(x.row.start, w)
    <2>1. answer'.days = [d \in request.days |-> OnDay(request.rows, d)]
        BY <1>1
    <2> QED
        BY <1>2, <2>1 DEF ShownWhenItIs
<1>3. x \in request.rows /\ x.row.date = d
    BY DEF OnDay
<1>4. Right(x.key, x.row)
    BY <1>3 DEF ClockInv, RequestRight, WeekTold, Ready
<1> QED
    BY <1>3, <1>4 DEF Right

LEMMA NoAnswer == ASSUME answer' = None PROVE ShownWhenItIs'
BY DEF ShownWhenItIs

(* The steps of the imports, of the user test and of time.                 *)
LEMMA WorldStep ==
    ASSUME ClockInv, WorldSteps, UNCHANGED request PROVE ClockInv'
<1> USE DEF ClockInv, tables, jobs, counts
<1>0. RequestRight'
    BY DEF RequestRight
<1>1. CASE Tick
    <2>1. Typed'
        BY <1>1 DEF Tick, Typed
    <2> QED
        BY <1>0, <1>1, <2>1 DEF Tick, JobRight, TableRight
<1>2. CASE ListingChanges
    <2>1. Typed'
        BY <1>2 DEF ListingChanges, Typed
    <2> QED
        BY <1>0, <1>2, <2>1 DEF ListingChanges, JobRight, TableRight
<1>3. CASE UpsertGroups
    BY <1>0, <1>3 DEF UpsertGroups, Commit, Typed, JobRight, TableRight
<1>4. CASE RetireGroups
    BY <1>0, <1>4 DEF RetireGroups, Commit, Typed, JobRight, TableRight
<1>5. CASE EntriesFetched
    <2>1. ASSUME NEW l \in Lessons, entryJob'.got[l] # None
          PROVE  Right(l, entryJob'.got[l])
        <3>1. entryJob'.got = Got(today)
            BY <1>5 DEF EntriesFetched
        <3>2. listing[l] # None /\ entryJob'.got[l] = Normalized(listing[l])
            BY <2>1, <3>1 DEF Got
        <3> QED
            BY <3>2, NormalizedRight DEF Typed
    <2>2. JobRight'
        BY <2>1 DEF JobRight
    <2> QED
        BY <1>0, <1>5, <2>2 DEF EntriesFetched, Typed, TableRight
<1>6. CASE EntriesWritten
    <2>1. TableRight'
        BY <1>6, WrittenRight DEF TableRight
    <2>2. JobRight'
        BY <1>6 DEF EntriesWritten, JobRight
    <2> QED
        BY <1>0, <1>6, <2>1, <2>2 DEF EntriesWritten, Typed
<1>7. CASE EntriesFinished
    BY <1>0, <1>7 DEF EntriesFinished, IdleJob, NoneGot, Typed, JobRight, TableRight
<1>8. CASE JobFails
    BY <1>0, <1>8 DEF JobFails, IdleJob, NoneGot, Typed, JobRight, TableRight
<1>9. CASE SeedStarts
    <2>1. Typed'
        BY <1>9 DEF SeedStarts, Typed
    <2> QED
        BY <1>0, <1>9, <2>1 DEF SeedStarts, JobRight, TableRight
<1>10. CASE Seed
    <2>1. ASSUME NEW l \in Keys, entry'[l] # None PROVE Right(l, entry'[l])
        <3>1. CASE l \in TestLessons
            <4>1. entry'[l] = TestLesson(l, seededAt)
                BY <1>10, <3>1 DEF Seed, Commit
            <4>2. seededAt \in Int
                BY <1>10 DEF Seed, Typed
            <4> QED
                BY <3>1, <4>1, <4>2, TestLessonRight
        <3>2. CASE l \notin TestLessons
            <4>1. entry'[l] = entry[l]
                BY <1>10, <3>2 DEF Seed, Commit
            <4> QED
                BY <2>1, <4>1 DEF TableRight
        <3> QED
            BY <3>1, <3>2
    <2>2. TableRight'
        BY <2>1 DEF TableRight
    <2>3. Typed'
        BY <1>10 DEF Seed, Typed
    <2> QED
        BY <1>0, <1>10, <2>2, <2>3 DEF Seed, JobRight
<1>11. CASE Remove
    <2>1. TableRight'
        BY <1>11 DEF Remove, Commit, TableRight
    <2> QED
        BY <1>0, <1>11, <2>1 DEF Remove, Typed, JobRight
<1> QED
    BY <1>1, <1>2, <1>3, <1>4, <1>5, <1>6, <1>7, <1>8, <1>9, <1>10, <1>11
       DEF WorldSteps, ImportSteps, TestSteps

(* The steps of a request, and a deployment.                               *)
LEMMA RequestStep ==
    ASSUME ClockInv, Redeploy \/ Asking \/ Reading PROVE ClockInv'
<1> USE DEF ClockInv, tables, jobs, counts
<1>1. CASE Redeploy
    BY <1>1 DEF Redeploy, IdleJob, NoneGot, Typed, JobRight, TableRight, RequestRight
<1>2. ASSUME NEW op, NEW id, NEW days, Ask(op, id, days) PROVE ClockInv'
    <2> DEFINE r == [op |-> op, id |-> id, days |-> days, todo |-> {"group", "run"},
                     group |-> FALSE, run |-> None, links |-> None, rows |-> None]
    <2>1. request' = r /\ r.links = None /\ r.rows = None /\ {"links", "rows"} \subseteq DOMAIN r
        BY <1>2 DEF Ask
    <2> HIDE DEF r
    <2>2. RequestRight'
        BY <2>1 DEF RequestRight
    <2> QED
        BY <1>2, <2>2 DEF Ask, Typed, JobRight, TableRight
<1>3. CASE ReadFirst
    <2>1. PICK q \in {"group", "run"} : LookUp(q)
        BY <1>3 DEF ReadFirst
    <2>2. /\ request # None /\ request'.rows = request.rows /\ request'.links = request.links
          /\ DOMAIN request' = DOMAIN request
        BY <1>3, <2>1 DEF ReadFirst, LookUp, RequestRight
    <2>3. RequestRight'
        BY <2>2 DEF RequestRight
    <2> QED
        BY <1>3, <2>3 DEF ReadFirst, Typed, JobRight, TableRight
<1>4. CASE ReadLinks
    <2>1. /\ request # None /\ request'.links = LinksRead /\ request'.rows = request.rows
          /\ DOMAIN request' = DOMAIN request
        BY <1>4 DEF ReadLinks, Ready, RequestRight
    <2>2. \A x \in LinksRead : x.key \in Keys
        BY DEF LinksRead, Holding
    <2>3. RequestRight'
        BY <2>1, <2>2 DEF RequestRight
    <2> QED
        BY <1>4, <2>3 DEF ReadLinks, Typed, JobRight, TableRight
<1>5. CASE ReadRows
    <2> DEFINE rows == {[key |-> x.key, row |-> entry[x.key]] : x \in request.links}
    <2>1. /\ request # None /\ request'.rows = rows /\ request'.links = request.links
          /\ DOMAIN request' = DOMAIN request /\ request.links # None
        BY <1>5 DEF ReadRows, Ready, RequestRight
    <2>2. ASSUME NEW y \in rows PROVE Right(y.key, y.row)
        <3>1. PICK x \in request.links : y = [key |-> x.key, row |-> entry[x.key]]
            OBVIOUS
        <3>2. x.key \in Keys /\ entry[x.key] # None
            BY <1>5, <2>1 DEF ReadRows, InTable, RequestRight
        <3> QED
            BY <3>1, <3>2 DEF TableRight
    <2> HIDE DEF rows
    <2>3. RequestRight'
        BY <2>1, <2>2 DEF RequestRight
    <2> QED
        BY <1>5, <2>3 DEF ReadRows, Typed, JobRight, TableRight
<1> QED
    BY <1>1, <1>2, <1>3, <1>4, <1>5 DEF Asking, AskWeek, AskInfo, Reading

LEMMA NextReading == ASSUME ReadingInv, [Next]_vars PROVE ReadingInv'
<1> USE DEF ReadingInv
<1>1. CASE WorldSteps /\ UNCHANGED request /\ answer' = None
    BY <1>1, WorldStep, NoAnswer
<1>2. CASE (Redeploy \/ Asking \/ Reading) /\ answer' = None
    BY <1>2, RequestStep, NoAnswer
<1>3. ASSUME NEW a, Respond(a) PROVE ClockInv'
    BY <1>3 DEF Respond, ClockInv, Typed, JobRight, TableRight, RequestRight,
       tables, jobs, counts
<1>4. CASE GroupMissing
    <2>1. answer' = [op |-> "missing", id |-> request.id]
        BY <1>4 DEF GroupMissing, Respond
    <2> QED
        BY <1>3, <1>4, <2>1 DEF GroupMissing, ShownWhenItIs
<1>8. CASE RowGone
    <2>1. answer' = [op |-> "failed", id |-> request.id]
        BY <1>8 DEF RowGone, Respond
    <2> QED
        BY <1>3, <1>8, <2>1 DEF RowGone, ShownWhenItIs
<1>5. CASE WeekTold
    BY <1>3, <1>5, AnswerRight DEF WeekTold
<1>6. CASE InfoTold
    <2>1. answer'.op = "info"
        BY <1>6 DEF InfoTold, Respond
    <2> QED
        BY <1>3, <1>6, <2>1 DEF InfoTold, ShownWhenItIs
<1>7. CASE UNCHANGED vars
    BY <1>7 DEF vars, tables, jobs, counts, ClockInv, Typed, JobRight, TableRight,
       RequestRight, ShownWhenItIs
<1> QED
    BY <1>1, <1>2, <1>4, <1>5, <1>6, <1>7, <1>8 DEF Next, Answering

(* Whatever WebUntis lists, whenever the user test is seeded and whatever  *)
(* happens between the queries of a request: clocks in Berlin show, at the *)
(* start of a lesson of an answer, a wall clock that was listed for it on  *)
(* that day.                                                               *)
THEOREM ShownWhenItIsHolds == Spec => []ShownWhenItIs
<1>1. Init => ReadingInv
    BY InitReading
<1>2. ReadingInv /\ [Next]_vars => ReadingInv'
    BY NextReading
<1>3. ReadingInv => ShownWhenItIs
    BY DEF ReadingInv
<1> QED
    BY <1>1, <1>2, <1>3, PTL DEF Spec

(***************************************************************************)
(* How old an answer says it is.  The history of the tables grows by what  *)
(* transactions leave; the id of a row says since when it is there.  A run *)
(* names a moment at which its lessons were there; a request that knows its*)
(* run reads links of that moment or a later one, and then the rows that   *)
(* are still those it has links to.                                        *)
(***************************************************************************)
History ==
    /\ \E S : contents \in Seq(S)
    /\ Len(contents) >= 1
    /\ contents[Len(contents)] = [group |-> group, entry |-> entry]
ThereSince(l, n, all) == n \in 1 .. Len(all) /\ \A u \in n .. Len(all) : all[u].entry[l] # None
RowsLast == \A l \in Keys : entry[l] # None => ThereSince(l, rowId[l], contents)
WroteBy(run, n) == run.wrote \in Nat /\ run.wrote <= n
RunsWrote ==
    /\ "wrote" \in DOMAIN entryJob
    /\ entryJob.wrote \in Nat /\ entryJob.wrote <= Len(contents)
    /\ DOMAIN runs = Sources
    /\ \A s \in Sources : runs[s] # None => WroteBy(runs[s], Len(contents))

(* What a request has read: links of a moment v, rows of a moment w.       *)
Since(run) == IF run = None THEN 1 ELSE run.wrote
HeldBy(r, all, v) == Holding(all[v].group, all[v].entry, r.id, DaysRead(r))
LinksAt(r, all, v) ==
    /\ v \in 1 .. Len(all) /\ Since(r.run) <= v
    /\ {x.key : x \in r.links} = HeldBy(r, all, v)
    /\ \A x \in r.links : x.id \in Nat /\ x.id <= v
ReadAt(r, all, v, w) ==
    /\ v \in 1 .. Len(all) /\ Since(r.run) <= v
    /\ w \in v .. Len(all)
    /\ \A l \in HeldBy(r, all, v) : \A u \in v .. w : all[u].entry[l] # None
    /\ r.rows = AsOf(all[w], HeldBy(r, all, v))
RequestOK(r, all, enabled) ==
    /\ DOMAIN r = {"op", "id", "days", "todo", "group", "run", "links", "rows"}
    /\ r.op \in {"week", "info"}
    /\ r.run # None => WroteBy(r.run, Len(all))
    /\ r.links = None => r.rows = None
    /\ r.links # None => r.todo = {}
    /\ r.links # None /\ enabled => \E v \in 1 .. Len(all) : LinksAt(r, all, v)
    /\ r.rows # None /\ enabled => \E v, w \in 1 .. Len(all) : ReadAt(r, all, v, w)
RequestKnows == request # None => RequestOK(request, contents, FeatureEnabled)
StampInv == History /\ RowsLast /\ RunsWrote /\ RequestKnows

Grows ==
    /\ Len(contents) <= Len(contents')
    /\ \A v \in 1 .. Len(contents) : contents'[v] = contents[v]

LEMMA HistoryGrows ==
    ASSUME History, NEW g, NEW e, Commit(g, e)
    PROVE  History' /\ Grows /\ Len(contents) \in Nat /\ Len(contents') \in Nat
<1>1. PICK S : contents \in Seq(S)
    BY DEF History
<1> DEFINE new == [group |-> g, entry |-> e]
<1>2. group' = g /\ entry' = e
    BY DEF Commit
<1>3. CASE <<g, e>> = <<group, entry>>
    <2>1. contents' = contents /\ group' = group /\ entry' = entry
        BY <1>2, <1>3 DEF Commit
    <2> QED
        BY <1>1, <2>1 DEF History, Grows
<1>4. CASE <<g, e>> # <<group, entry>>
    <2>1. contents' = Append(contents, new)
        BY <1>4 DEF Commit
    <2> DEFINE T == S \cup {new}
    <2>2. contents \in Seq(T) /\ new \in T
        BY <1>1
    <2> HIDE DEF T, new
    <2>3. /\ contents' \in Seq(T) /\ Len(contents') = Len(contents) + 1
          /\ Len(contents) \in Nat /\ contents'[Len(contents')] = new
          /\ \A v \in 1 .. Len(contents) : contents'[v] = contents[v]
        BY <2>1, <2>2
    <2>4. Len(contents') >= 1
        BY <2>3
    <2>5. contents'[Len(contents')] = [group |-> group', entry |-> entry']
        BY <1>2, <2>3 DEF new
    <2> QED
        BY <2>3, <2>4, <2>5 DEF History, Grows
<1> QED
    BY <1>3, <1>4

(* Rows that stay keep their id, and a new one says that it is new.        *)
LEMMA RowsStay ==
    ASSUME History, RowsLast, NEW g, NEW e, Commit(g, e)
    PROVE  RowsLast'
<1>1. /\ History' /\ Grows /\ Len(contents) \in Nat /\ Len(contents') \in Nat
    BY HistoryGrows
<1>2. /\ entry' = e
      /\ rowId' = [l \in Keys |-> IF e[l] = None THEN None
                                 ELSE IF entry[l] # None THEN rowId[l] ELSE Len(contents) + 1]
      /\ contents' = IF <<g, e>> = <<group, entry>> THEN contents
                     ELSE Append(contents, [group |-> g, entry |-> e])
    BY DEF Commit
<1>3. SUFFICES ASSUME NEW l \in Keys, e[l] # None PROVE ThereSince(l, rowId'[l], contents')
    BY <1>2 DEF RowsLast
<1>4. contents'[Len(contents')].entry = e
    BY <1>1, <1>2 DEF History
<1>5. Len(contents') = Len(contents) \/ Len(contents') = Len(contents) + 1
    <2>1. PICK S : contents \in Seq(S)
        BY DEF History
    <2> QED
        BY <1>2, <2>1
<1>6. CASE entry[l] # None
    <2>1. rowId'[l] = rowId[l] /\ ThereSince(l, rowId[l], contents)
        BY <1>2, <1>3, <1>6 DEF RowsLast
    <2>2. ASSUME NEW u \in rowId[l] .. Len(contents') PROVE contents'[u].entry[l] # None
        <3>1. CASE u = Len(contents')
            BY <1>3, <1>4, <3>1
        <3>2. CASE u # Len(contents')
            <4>1. u \in rowId[l] .. Len(contents)
                BY <1>1, <1>5, <2>1, <3>2 DEF ThereSince
            <4>2. contents[u].entry[l] # None
                BY <2>1, <4>1 DEF ThereSince
            <4>3. u \in 1 .. Len(contents)
                BY <2>1, <4>1, <1>1 DEF ThereSince
            <4> QED
                BY <4>2, <4>3, <1>1 DEF Grows
        <3> QED
            BY <3>1, <3>2
    <2>3. rowId'[l] \in 1 .. Len(contents')
        BY <1>1, <1>5, <2>1 DEF ThereSince
    <2> QED
        BY <2>2, <2>3, <2>1 DEF ThereSince
<1>7. CASE entry[l] = None
    <2>1. rowId'[l] = Len(contents) + 1
        BY <1>2, <1>3, <1>7
    <2>3. Len(contents') = Len(contents) + 1
        <3>1. <<g, e>> # <<group, entry>>
            BY <1>3, <1>7
        <3>2. PICK S : contents \in Seq(S)
            BY DEF History
        <3> QED
            BY <1>2, <3>1, <3>2
    <2>2. \A u \in Len(contents) + 1 .. Len(contents') : u = Len(contents')
        BY <1>1, <1>5
    <2> QED
        BY <1>1, <1>3, <1>4, <2>1, <2>2, <2>3 DEF ThereSince
<1> QED
    BY <1>6, <1>7

(* Nothing that was read so far gets ahead by what is written later.       *)
LEMMA ReadStays ==
    ASSUME RequestKnows, History, Grows, Len(contents') \in Nat, UNCHANGED <<request, switches>>
    PROVE  RequestKnows'
<1> SUFFICES ASSUME request # None PROVE RequestOK(request, contents', FeatureEnabled)
    BY DEF RequestKnows, FeatureEnabled
<1>1. RequestOK(request, contents, FeatureEnabled)
    BY DEF RequestKnows
<1>2. Len(contents) \in Nat /\ 1 .. Len(contents) \subseteq 1 .. Len(contents')
    BY DEF History, Grows
<1>3. ASSUME NEW v \in 1 .. Len(contents), LinksAt(request, contents, v)
      PROVE  LinksAt(request, contents', v)
    <2>1. HeldBy(request, contents', v) = HeldBy(request, contents, v)
        BY DEF HeldBy, Grows
    <2> QED
        BY <1>2, <1>3, <2>1 DEF LinksAt
<1>4. ASSUME NEW v \in 1 .. Len(contents), NEW w \in 1 .. Len(contents),
             ReadAt(request, contents, v, w)
      PROVE  ReadAt(request, contents', v, w)
    <2>1. HeldBy(request, contents', v) = HeldBy(request, contents, v)
        BY DEF HeldBy, Grows
    <2>2. AsOf(contents'[w], HeldBy(request, contents, v))
             = AsOf(contents[w], HeldBy(request, contents, v))
        BY DEF AsOf, Grows
    <2>3. \A u \in v .. w : contents'[u] = contents[u]
        BY <1>2 DEF Grows
    <2>4. w \in v .. Len(contents')
        BY <1>2, <1>4 DEF ReadAt, Grows
    <2> QED
        BY <1>2, <1>4, <2>1, <2>2, <2>3, <2>4 DEF ReadAt
<1>5. request.run # None => WroteBy(request.run, Len(contents'))
    BY <1>1, <1>2 DEF RequestOK, WroteBy, Grows
<1>6. request.links # None /\ FeatureEnabled =>
         \E v \in 1 .. Len(contents') : LinksAt(request, contents', v)
    BY <1>1, <1>2, <1>3 DEF RequestOK
<1>7. request.rows # None /\ FeatureEnabled =>
         \E v, w \in 1 .. Len(contents') : ReadAt(request, contents', v, w)
    BY <1>1, <1>2, <1>4 DEF RequestOK
<1> QED
    BY <1>1, <1>5, <1>6, <1>7 DEF RequestOK

LEMMA StampInit == ASSUME Init PROVE StampInv
<1> DEFINE first == [group |-> group, entry |-> entry]
<1>1. contents = <<first>> /\ request = None /\ "wrote" \in DOMAIN entryJob /\ entryJob.wrote = 0
      /\ runs = [s \in Sources |-> None]
    BY DEF Init, IdleJob
<1> HIDE DEF first
<1>2. contents \in Seq({first}) /\ Len(contents) = 1 /\ contents[1] = first
    BY <1>1
<1>3. History
    BY <1>2 DEF History, first
<1>4. RowsLast
    BY DEF Init, RowsLast
<1> QED
    BY <1>1, <1>2, <1>3, <1>4 DEF StampInv, RunsWrote, RequestKnows

(* The steps of the imports, of the user test and of time.                 *)
LEMMA StampWorld ==
    ASSUME StampInv, WorldSteps, UNCHANGED request PROVE StampInv'
<1> USE DEF StampInv
<1>0. Len(contents) \in Nat
    BY DEF History
<1>1. ASSUME UNCHANGED <<contents, group, entry, rowId, switches>>, RunsWrote' PROVE StampInv'
    BY <1>1 DEF History, RowsLast, RequestKnows, FeatureEnabled
<1>2. ASSUME NEW g, NEW e, Commit(g, e), UNCHANGED switches
      PROVE  /\ History' /\ RowsLast' /\ RequestKnows' /\ Len(contents') \in Nat
             /\ Len(contents) <= Len(contents')
    BY <1>2, HistoryGrows, RowsStay, ReadStays DEF Grows
<1>3. ASSUME Len(contents') \in Nat, Len(contents) <= Len(contents')
      PROVE  /\ entryJob.wrote \in Nat /\ entryJob.wrote <= Len(contents')
             /\ DOMAIN runs = Sources
             /\ \A s \in Sources : runs[s] # None => WroteBy(runs[s], Len(contents'))
    BY <1>0, <1>3 DEF RunsWrote, WroteBy
<1>4. CASE Tick \/ ListingChanges \/ SeedStarts
    BY <1>1, <1>4 DEF Tick, ListingChanges, SeedStarts, tables, jobs, RunsWrote
<1>5. CASE EntriesFetched \/ JobFails
    <2>1. "wrote" \in DOMAIN entryJob' /\ entryJob'.wrote = 0 /\ UNCHANGED <<switches, tables>>
        BY <1>5 DEF EntriesFetched, JobFails, IdleJob
    <2> QED
        BY <1>0, <1>1, <2>1 DEF RunsWrote, tables
<1>6. CASE UpsertGroups \/ RetireGroups
    <2>1. UNCHANGED <<runs, entryJob, switches>> /\ \E g, e : Commit(g, e)
        BY <1>6 DEF UpsertGroups, RetireGroups, jobs
    <2> QED
        BY <1>2, <1>3, <2>1 DEF RunsWrote
<1>7. CASE EntriesWritten
    <2>1. /\ UNCHANGED <<runs, switches>>
          /\ "wrote" \in DOMAIN entryJob' /\ entryJob'.wrote = Len(contents')
          /\ \E g, e : Commit(g, e)
        <3>1. entryJob' = [[entryJob EXCEPT !.pc = "finish"] EXCEPT !.wrote = Len(contents')]
            BY <1>7 DEF EntriesWritten
        <3>2. "wrote" \in DOMAIN entryJob
            BY DEF RunsWrote
        <3> QED
            BY <1>7, <3>1, <3>2 DEF EntriesWritten
    <2> QED
        BY <1>2, <1>3, <2>1 DEF RunsWrote
<1>8. CASE EntriesFinished
    <2> DEFINE new == RunOf(entryJob.day - Lookback, entryJob.day + Lookahead, today, entryJob.wrote)
    <2>1. /\ UNCHANGED <<contents, group, entry, rowId, switches>>
          /\ "wrote" \in DOMAIN entryJob' /\ entryJob'.wrote = 0
          /\ runs' = [runs EXCEPT !["webuntis"] = new]
        BY <1>8 DEF EntriesFinished, IdleJob
    <2>2. new.wrote = entryJob.wrote
        BY DEF RunOf
    <2>3. WroteBy(new, Len(contents))
        BY <2>2 DEF RunsWrote, WroteBy
    <2> HIDE DEF new
    <2>4. RunsWrote'
        BY <1>0, <2>1, <2>3 DEF RunsWrote
    <2> QED
        BY <1>1, <2>1, <2>4
<1>9. CASE Seed
    <2> DEFINE new == TestRun(seededAt)
    <2>1. /\ UNCHANGED <<entryJob, switches>> /\ \E g, e : Commit(g, e)
          /\ runs' = [runs EXCEPT !["user-test"] = new]
        BY <1>9 DEF Seed
    <2>2. new.wrote = Len(contents')
        BY DEF TestRun, RunOf
    <2> HIDE DEF new
    <2>3. Len(contents') \in Nat => WroteBy(new, Len(contents'))
        BY <2>2 DEF WroteBy
    <2> QED
        BY <1>2, <1>3, <2>1, <2>3 DEF RunsWrote
<1>10. CASE Remove
    <2>1. /\ UNCHANGED <<entryJob, switches>> /\ \E g, e : Commit(g, e)
          /\ runs' = [runs EXCEPT !["user-test"] = None]
        BY <1>10 DEF Remove, jobs
    <2> QED
        BY <1>2, <1>3, <2>1 DEF RunsWrote
<1> QED
    BY <1>4, <1>5, <1>6, <1>7, <1>8, <1>9, <1>10 DEF WorldSteps, ImportSteps, TestSteps

(* The links of a request are those of the moment at which it reads them.  *)
LEMMA LinksStamped ==
    ASSUME StampInv, ReadLinks
    PROVE  RequestOK(request', contents, FeatureEnabled)
<1>1. /\ request # None /\ request.todo = {} /\ request.links = None
      /\ RequestOK(request, contents, FeatureEnabled)
      /\ request' = [request EXCEPT !.links = LinksRead]
    BY DEF ReadLinks, Ready, StampInv, RequestKnows
<1>2. /\ DOMAIN request' = DOMAIN request /\ request'.op = request.op
      /\ request'.id = request.id /\ request'.days = request.days
      /\ request'.todo = request.todo /\ request'.rows = None
      /\ request'.run = request.run /\ request'.links = LinksRead
    BY <1>1 DEF RequestOK
<1> PICK n : n = Len(contents)
    OBVIOUS
<1>3. /\ n \in 1 .. Len(contents) /\ Since(request.run) <= n
      /\ contents[n].group = group /\ contents[n].entry = entry
    BY <1>1 DEF StampInv, History, Since, RequestOK, WroteBy
<1>4. DaysRead(request') = DaysRead(request)
    BY <1>2 DEF DaysRead
<1>5. HeldBy(request', contents, n) = Holding(group, entry, request.id, DaysRead(request))
    BY <1>2, <1>3, <1>4 DEF HeldBy
<1>6. ASSUME FeatureEnabled PROVE LinksAt(request', contents, n)
    <2> DEFINE held == Holding(group, entry, request.id, DaysRead(request))
    <2>1. request'.links = {[key |-> l, id |-> rowId[l]] : l \in held}
        BY <1>2, <1>6 DEF LinksRead
    <2>2. \A l \in held : l \in Keys /\ entry[l] # None
        BY DEF Holding
    <2>3. HeldBy(request', contents, n) = held
        BY <1>5
    <2> HIDE DEF held
    <2>4. {x.key : x \in request'.links} = held
        <3>1. \A x \in request'.links : x.key \in held
            BY <2>1
        <3>2. ASSUME NEW l \in held PROVE \E x \in request'.links : x.key = l
            <4>1. [key |-> l, id |-> rowId[l]] \in request'.links
                BY <2>1
            <4> QED
                BY <4>1
        <3> QED
            BY <3>1, <3>2
    <2>5. ASSUME NEW x \in request'.links PROVE x.id \in Nat /\ x.id <= n
        <3>1. PICK l \in held : x = [key |-> l, id |-> rowId[l]]
            BY <2>1, <2>5
        <3>2. rowId[l] \in Nat /\ rowId[l] <= n
            BY <1>3, <2>2, <3>1 DEF StampInv, RowsLast, ThereSince
        <3> QED
            BY <3>1, <3>2
    <2> QED
        BY <1>2, <1>3, <2>3, <2>4, <2>5 DEF LinksAt
<1> QED
    BY <1>1, <1>2, <1>3, <1>6 DEF RequestOK

(* The rows are those the links were for: they were there since then.      *)
LEMMA RowsStamped ==
    ASSUME StampInv, ReadRows
    PROVE  RequestOK(request', contents, FeatureEnabled)
<1> DEFINE rows == {[key |-> x.key, row |-> entry[x.key]] : x \in request.links}
<1>1. /\ request # None /\ request.links # None
      /\ RequestOK(request, contents, FeatureEnabled)
      /\ request' = [request EXCEPT !.rows = rows]
      /\ \A x \in request.links : entry[x.key] # None /\ rowId[x.key] = x.id
    BY DEF ReadRows, Ready, StampInv, RequestKnows, InTable
<1>2. /\ DOMAIN request' = DOMAIN request /\ request'.op = request.op
      /\ request'.id = request.id /\ request'.days = request.days
      /\ request'.todo = request.todo /\ request'.rows = rows
      /\ request'.run = request.run /\ request'.links = request.links
    BY <1>1 DEF RequestOK
<1> PICK n : n = Len(contents)
    OBVIOUS
<1>3. n \in 1 .. Len(contents) /\ contents[n].entry = entry
    BY DEF StampInv, History
<1>4. ASSUME FeatureEnabled
      PROVE  \E v \in 1 .. Len(contents) :
                LinksAt(request', contents, v) /\ ReadAt(request', contents, v, n)
    <2>1. PICK v \in 1 .. Len(contents) : LinksAt(request, contents, v)
        BY <1>1, <1>4 DEF RequestOK
    <2>2. DaysRead(request') = DaysRead(request)
        BY <1>2 DEF DaysRead
    <2> PICK held : held = HeldBy(request, contents, v)
        OBVIOUS
    <2>3. HeldBy(request', contents, v) = held
        BY <1>2, <2>2 DEF HeldBy
    <2>4. {x.key : x \in request.links} = held
        BY <2>1 DEF LinksAt
    <2>5. rows = AsOf(contents[n], held)
        BY <1>3, <2>4 DEF AsOf
    <2>6. held \subseteq Keys
        BY DEF HeldBy, Holding
    <2>7. ASSUME NEW l \in held, NEW u \in v .. n PROVE contents[u].entry[l] # None
        <3>1. PICK x \in request.links : x.key = l
            BY <2>4
        <3>2. entry[l] # None /\ rowId[l] = x.id /\ x.id \in Nat /\ x.id <= v
            BY <1>1, <2>1, <3>1 DEF LinksAt
        <3>3. ThereSince(l, rowId[l], contents)
            BY <2>6, <3>2 DEF StampInv, RowsLast
        <3>4. u \in rowId[l] .. Len(contents)
            BY <1>3, <3>2
        <3> QED
            BY <3>3, <3>4 DEF ThereSince
    <2>8. LinksAt(request', contents, v)
        BY <1>2, <2>1, <2>3, <2>4 DEF LinksAt
    <2>9. n \in v .. Len(contents)
        BY <1>3
    <2>10. ReadAt(request', contents, v, n)
        BY <1>2, <2>1, <2>3, <2>5, <2>7, <2>9 DEF ReadAt, LinksAt
    <2> QED
        BY <2>8, <2>10
<1> HIDE DEF rows
<1> QED
    BY <1>1, <1>2, <1>3, <1>4 DEF RequestOK

(* The steps of a request, and a deployment.                               *)
LEMMA StampRequest ==
    ASSUME StampInv, Redeploy \/ Asking \/ Reading PROVE StampInv'
<1> USE DEF StampInv
<1>0. Len(contents) \in Nat /\ Len(contents) >= 1
    BY DEF History
<1>1. CASE Redeploy
    <2>1. /\ request' = None /\ UNCHANGED tables
          /\ "wrote" \in DOMAIN entryJob' /\ entryJob'.wrote = 0
        BY <1>1 DEF Redeploy, IdleJob
    <2> QED
        BY <1>0, <2>1 DEF tables, History, RowsLast, RunsWrote, RequestKnows
<1>2. ASSUME UNCHANGED <<switches, tables, jobs>>,
             request' # None => RequestOK(request', contents, FeatureEnabled)
      PROVE  StampInv'
    BY <1>2 DEF tables, jobs, History, RowsLast, RunsWrote, RequestKnows, FeatureEnabled
<1>3. ASSUME NEW op \in {"week", "info"}, NEW id, NEW days, Ask(op, id, days)
      PROVE  StampInv'
    <2> DEFINE r == [op |-> op, id |-> id, days |-> days, todo |-> {"group", "run"},
                     group |-> FALSE, run |-> None, links |-> None, rows |-> None]
    <2>1. request' = r /\ UNCHANGED <<switches, tables, jobs>>
        BY <1>3 DEF Ask
    <2>2. RequestOK(r, contents, FeatureEnabled)
        BY DEF RequestOK
    <2> HIDE DEF r
    <2> QED
        BY <1>2, <2>1, <2>2
<1>4. CASE ReadFirst
    <2>1. PICK q \in {"group", "run"} : LookUp(q)
        BY <1>4 DEF ReadFirst
    <2>2. /\ request # None /\ RequestOK(request, contents, FeatureEnabled)
          /\ UNCHANGED <<switches, tables, jobs>>
        BY <1>4 DEF ReadFirst, RequestKnows
    <2>3. PICK run \in IF q = "run" THEN LastRun ELSE {request.run} :
             request' = [request EXCEPT !.todo = @ \ {q}, !.run = run,
                                        !.group = IF q = "group" THEN Known(request.id) ELSE @]
        BY <2>1 DEF LookUp
    <2>4. run # None => WroteBy(run, Len(contents))
        <3>1. CASE q = "run"
            BY <2>3, <3>1 DEF LastRun, Newest, Finished, RunsWrote
        <3>2. CASE q # "run"
            BY <2>2, <2>3, <3>2 DEF RequestOK
        <3> QED
            BY <3>1, <3>2
    <2>5. request.links = None /\ request.rows = None
        BY <2>1, <2>2 DEF LookUp, RequestOK
    <2>6. /\ DOMAIN request' = DOMAIN request /\ request'.op = request.op
          /\ request'.links = request.links /\ request'.rows = request.rows /\ request'.run = run
        BY <2>2, <2>3 DEF RequestOK
    <2>7. RequestOK(request', contents, FeatureEnabled)
        BY <2>2, <2>4, <2>5, <2>6 DEF RequestOK
    <2> QED
        BY <1>2, <2>2, <2>7
<1>5. CASE ReadLinks
    BY <1>2, <1>5, LinksStamped DEF ReadLinks
<1>6. CASE ReadRows
    BY <1>2, <1>6, RowsStamped DEF ReadRows
<1> QED
    BY <1>1, <1>3, <1>4, <1>5, <1>6 DEF Asking, AskWeek, AskInfo, Reading

(* The answers tell what was read: the days, or the lesson texts.          *)
LEMMA WeekStamped == ASSUME StampInv, WeekTold PROVE StampNotAhead'
<1>1. PICK run \in RunsRead :
         answer' = [op |-> "week", id |-> request.id, run |-> run,
                    days |-> [d \in request.days |-> OnDay(request.rows, d)],
                    stale |-> IsStale(FinishedAt(run)),
                    dataState |-> DataState(Shown # {}, run)]
    BY DEF WeekTold, Respond
<1>2. /\ run = request.run /\ request # None /\ request.op = "week" /\ request.rows # None
      /\ RequestOK(request, contents, FeatureEnabled)
      /\ UNCHANGED <<contents, switches>>
    BY DEF WeekTold, Ready, Respond, RunsRead, StampInv, RequestKnows, tables
<1> SUFFICES ASSUME run # None, FeatureEnabled PROVE StampNotAhead'
    BY <1>1, <1>2 DEF StampNotAhead, FeatureEnabled
<1>3. PICK v \in 1 .. Len(contents), w \in 1 .. Len(contents) : ReadAt(request, contents, v, w)
    BY <1>2 DEF RequestOK
<1>4. /\ answer'.op = "week" /\ answer'.id = request.id /\ answer'.run = run
      /\ answer'.days = [d \in request.days |-> OnDay(request.rows, d)]
      /\ DOMAIN answer'.days = request.days
    BY <1>1
<1>5. v \in run.wrote .. Len(contents) /\ w \in run.wrote .. Len(contents) /\ v <= w
    BY <1>2, <1>3 DEF ReadAt, RequestOK, WroteBy, Since, StampInv, History
<1>6. HeldAt(answer', contents[v]) = HeldBy(request, contents, v)
    BY <1>2, <1>4 DEF HeldAt, DaysTold, HeldBy, DaysRead
<1>7. Tells(answer', request.rows)
    BY <1>4 DEF Tells
<1>8. NotAhead(answer', contents)
    BY <1>3, <1>4, <1>5, <1>6, <1>7 DEF NotAhead, ReadAt
<1> QED
    BY <1>2, <1>8 DEF StampNotAhead

LEMMA InfoStamped == ASSUME StampInv, InfoTold PROVE StampNotAhead'
<1>0. PICK run : run = request.run
    OBVIOUS
<1>1. /\ answer' = [op |-> "info", id |-> request.id, run |-> run,
                    values |-> InfoValues(request.rows) \ {None},
                    hasWithoutInfo |-> None \in InfoValues(request.rows)]
      /\ request # None /\ request.op = "info" /\ request.rows # None
      /\ RequestOK(request, contents, FeatureEnabled)
      /\ UNCHANGED <<contents, switches>>
    BY <1>0 DEF InfoTold, Ready, Respond, StampInv, RequestKnows, tables
<1> SUFFICES ASSUME run # None, FeatureEnabled PROVE StampNotAhead'
    BY <1>0, <1>1 DEF StampNotAhead, FeatureEnabled
<1>2. PICK v \in 1 .. Len(contents), w \in 1 .. Len(contents) : ReadAt(request, contents, v, w)
    BY <1>1 DEF RequestOK
<1>3. /\ answer'.op = "info" /\ answer'.id = request.id /\ answer'.run = run
      /\ answer'.values = InfoValues(request.rows) \ {None}
      /\ answer'.hasWithoutInfo = (None \in InfoValues(request.rows))
    BY <1>1
<1>4. v \in run.wrote .. Len(contents) /\ w \in run.wrote .. Len(contents) /\ v <= w
    BY <1>0, <1>1, <1>2 DEF ReadAt, RequestOK, WroteBy, Since, StampInv, History
<1>5. HeldAt(answer', contents[v]) = HeldBy(request, contents, v)
    BY <1>0, <1>1, <1>3 DEF HeldAt, DaysTold, HeldBy, DaysRead
<1>6. Tells(answer', request.rows)
    BY <1>3 DEF Tells
<1>7. NotAhead(answer', contents)
    BY <1>2, <1>3, <1>4, <1>5, <1>6 DEF NotAhead, ReadAt
<1> QED
    BY <1>1, <1>7 DEF StampNotAhead

LEMMA StampNext ==
    ASSUME StampInv /\ StampNotAhead, [Next]_vars PROVE (StampInv /\ StampNotAhead)'
<1>0. ASSUME answer' = None PROVE StampNotAhead'
    BY <1>0 DEF StampNotAhead
<1>1. CASE WorldSteps /\ UNCHANGED request /\ answer' = None
    BY <1>0, <1>1, StampWorld
<1>2. CASE (Redeploy \/ Asking \/ Reading) /\ answer' = None
    BY <1>0, <1>2, StampRequest
<1>3. ASSUME NEW a, Respond(a) PROVE StampInv'
    BY <1>3 DEF Respond, StampInv, History, RowsLast, RunsWrote, RequestKnows, tables, jobs
<1>4. CASE GroupMissing
    <2>1. answer'.op = "missing"
        BY <1>4 DEF GroupMissing, Respond
    <2> QED
        BY <1>3, <1>4, <2>1 DEF GroupMissing, StampNotAhead
<1>8. CASE RowGone
    <2>1. answer'.op = "failed"
        BY <1>8 DEF RowGone, Respond
    <2> QED
        BY <1>3, <1>8, <2>1 DEF RowGone, StampNotAhead
<1>5. CASE WeekTold
    BY <1>3, <1>5, WeekStamped DEF WeekTold
<1>6. CASE InfoTold
    BY <1>3, <1>6, InfoStamped DEF InfoTold
<1>7. CASE UNCHANGED vars
    <2>1. StampInv'
        BY <1>7 DEF vars, tables, jobs, StampInv, History, RowsLast, RunsWrote, RequestKnows, FeatureEnabled
    <2>2. StampNotAhead'
        <3>1. answer' = answer /\ contents' = contents /\ switches' = switches
            BY <1>7 DEF vars, tables
        <3> QED
            BY <3>1 DEF StampNotAhead, FeatureEnabled
    <2> QED
        BY <2>1, <2>2
<1> QED
    BY <1>1, <1>2, <1>4, <1>5, <1>6, <1>7, <1>8 DEF Next, Answering

(* An answer never claims to be fresher than it is: it tells of the lessons*)
(* the group had at one moment since the run it names has written, as they *)
(* were at that moment or a later one, and none was withdrawn in between - *)
(* for any lessons, ranges and switches, however imports, seeds and        *)
(* removals come between the statements of a request (getWeek,             *)
(* listLessonInfo).                                                        *)
THEOREM StampNotAheadHolds == Spec => []StampNotAhead
<1>1. Init => StampInv /\ StampNotAhead
    BY StampInit DEF Init, StampNotAhead
<1>2. (StampInv /\ StampNotAhead) /\ [Next]_vars => (StampInv /\ StampNotAhead)'
    BY StampNext
<1> QED
    BY <1>1, <1>2, PTL DEF Spec
=============================================================================
