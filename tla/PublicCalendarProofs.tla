------------------------ MODULE PublicCalendarProofs ------------------------
(***************************************************************************)
(* Proofs about PublicCalendar, for every value of its constants.          *)
(***************************************************************************)
EXTENDS PublicCalendar, TLAPS

(***************************************************************************)
(* Types.  TypeOK is not inductive: that the rows an events task wants to  *)
(* fetch name a feed, and that a task that reconciles holds a body, has to *)
(* be carried along.                                                       *)
(***************************************************************************)
RowsNameFeeds == \A c \in Calendars : row[c].active => row[c].feed \in Feeds
TasksHoldData == \A t \in Tasks :
    /\ task[t].pc = "fetch" => task[t].snap.feed \in Feeds
    /\ task[t].pc = "reconcile" => task[t].body \in Bodies
    /\ task[t].kind = "body" => task[t].body \in Bodies

TypeInv == TypeOK /\ RowsNameFeeds /\ TasksHoldData

LEMMA NoRowType == NoRow \in Row
  BY DEF NoRow, Row, Status, Etag

LEMMA IdleTaskType == IdleTask \in Task
  BY NoRowType, BoundsAssumption DEF IdleTask, Task, Kind, Etag, Days

LEMMA IdleCatalogType == IdleCatalog \in Catalog
  <1>1. <<>> \in Seq(Definition)
        OBVIOUS
  <1> QED BY <1>1 DEF IdleCatalog, Catalog

LEMMA KeptDefinition ==
  ASSUME NEW cat \in Seq(Definition), NEW c \in SlugsOf(cat)
  PROVE  /\ DefOf(cat, c) \in Definition
         /\ \E i \in Kept(cat) : cat[i].slug = c /\ DefOf(cat, c) = cat[i]
  <1>1. PICK i \in Kept(cat) : cat[i].slug = c
        BY DEF SlugsOf
  <1> DEFINE n == CHOOSE j \in Kept(cat) : cat[j].slug = c
  <1>2. n \in Kept(cat) /\ cat[n].slug = c
        BY <1>1
  <1>3. DefOf(cat, c) = cat[n]
        BY DEF DefOf
  <1>4. n \in DOMAIN cat
        BY <1>2 DEF Kept
  <1>5. cat[n] \in Definition
        BY <1>4
  <1> QED BY <1>2, <1>3, <1>5

LEMMA TypeInit == Init => TypeInv
  <1> SUFFICES ASSUME Init PROVE TypeInv
      OBVIOUS
  <1>1. TypeOK
    <2>1. day \in Days
          BY BoundsAssumption DEF Init, Days
    <2>2. feed \in [Feeds -> FeedState]
          BY DEF Init, FeedState
    <2>3. /\ row \in [Calendars -> Row] /\ catalog \in Catalog
          /\ task \in [Tasks -> Task]
          BY NoRowType, IdleTaskType, IdleCatalogType DEF Init
    <2> QED BY <2>1, <2>2, <2>3 DEF Init, TypeOK
  <1>2. RowsNameFeeds
      BY DEF Init, RowsNameFeeds, NoRow
  <1>3. TasksHoldData
      BY DEF Init, TasksHoldData, IdleTask
  <1> QED BY <1>1, <1>2, <1>3 DEF TypeInv

LEMMA CatalogTypeStep ==
  ASSUME TypeInv, CatalogTrigger \/ CatalogStep \/ CatalogFails
  PROVE  TypeInv'
  <1> USE DEF TypeInv, world, tables
  <1>1. CASE CatalogTrigger
        BY <1>1 DEF CatalogTrigger, TypeOK, Catalog, RowsNameFeeds, TasksHoldData
  <1>2. CASE CatalogFetched
        BY <1>2, DataAssumption
           DEF CatalogFetched, TypeOK, Catalog, IdleCatalog, RowsNameFeeds, TasksHoldData
  <1>3. CASE UpsertDefinitions
    <2> DEFINE cat == catalog.fetched
    <2>1. cat \in Seq(Definition)
          BY DEF TypeOK, Catalog
    <2>2. catalog' \in Catalog
      <3>1. [catalog EXCEPT !.pc = "retire"] \in Catalog
            BY DEF TypeOK, Catalog
      <3> QED BY <1>3, <3>1, IdleCatalogType DEF UpsertDefinitions
    <2>3. ASSUME NEW c \in Calendars
          PROVE  row'[c] \in Row /\ (row'[c].active => row'[c].feed \in Feeds)
      <3>1. row[c] \in Row /\ (row[c].active => row[c].feed \in Feeds)
            BY DEF TypeOK, RowsNameFeeds
      <3>2. CASE row'[c] = row[c]
            BY <3>1, <3>2
      <3>3. CASE c \in SlugsOf(cat) /\ row'[c] = Upserted(c, DefOf(cat, c))
        <4>1. DefOf(cat, c) \in Definition
              BY <2>1, <3>3, KeptDefinition
        <4> QED BY <3>1, <3>3, <4>1 DEF Upserted, Row, Definition, Status
      <3> QED BY <1>3, <3>2, <3>3 DEF UpsertDefinitions
    <2>4. row' \in [Calendars -> Row]
          BY <1>3, <2>3 DEF UpsertDefinitions, TypeOK
    <2> QED BY <1>3, <2>2, <2>3, <2>4 DEF UpsertDefinitions, TypeOK, RowsNameFeeds, TasksHoldData
  <1>4. CASE RetireOthers
    <2>1. catalog' \in Catalog
          BY <1>4, IdleCatalogType DEF RetireOthers
    <2>2. ASSUME NEW c \in Calendars
          PROVE  row'[c] \in Row /\ (row'[c].active => row'[c].feed \in Feeds)
          BY <1>4 DEF RetireOthers, TypeOK, RowsNameFeeds, Row
    <2>3. row' \in [Calendars -> Row]
          BY <1>4, <2>2 DEF RetireOthers
    <2> QED BY <1>4, <2>1, <2>2, <2>3 DEF RetireOthers, TypeOK, RowsNameFeeds, TasksHoldData
  <1>5. CASE CatalogFails
        BY <1>5, IdleCatalogType
           DEF CatalogFails, Fault, TypeOK, RowsNameFeeds, TasksHoldData
  <1> QED BY <1>1, <1>2, <1>3, <1>4, <1>5 DEF CatalogStep

(* A task action replaces one task.  The lemma reduces the typing of the   *)
(* whole step to the typing of the new task.                               *)
LEMMA TaskReplaced ==
  ASSUME TypeInv, NEW t \in Tasks, NEW r \in Task,
         task' = [task EXCEPT ![t] = r],
         r.pc = "fetch" => r.snap.feed \in Feeds,
         r.pc = "reconcile" => r.body \in Bodies,
         r.kind = "body" => r.body \in Bodies
  PROVE  /\ task' \in [Tasks -> Task]
         /\ TasksHoldData'
  BY DEF TypeInv, TypeOK, TasksHoldData

LEMMA RowReplaced ==
  ASSUME TypeInv, NEW c \in Calendars, NEW r \in Row,
         row' = [row EXCEPT ![c] = r],
         r.active => r.feed \in Feeds
  PROVE  /\ row' \in [Calendars -> Row]
         /\ RowsNameFeeds'
  BY DEF TypeInv, TypeOK, RowsNameFeeds

LEMMA FeedAnswerStep ==
  ASSUME TypeInv, NEW t \in Tasks, FeedAnswers(t)
  PROVE  \E r \in Task :
            /\ task' = [task EXCEPT ![t] = r]
            /\ r.snap = task[t].snap
            /\ r.pc \in {"clear", "mark", "confirm", "reconcile"}
            /\ r.pc = "reconcile" \/ r.kind = "body" => r.body \in Bodies
            /\ HoldsAnswer(r)
            /\ r.pc = "clear" => r.kind \in Blocking
            /\ r.pc = "reconcile" => r.kind = "body"
  <1> DEFINE f == task[t].snap.feed
             s == feed[f]
             Goal(r) == /\ task' = [task EXCEPT ![t] = r]
                        /\ r.snap = task[t].snap
                        /\ r.pc \in {"clear", "mark", "confirm", "reconcile"}
                        /\ r.pc = "reconcile" \/ r.kind = "body" => r.body \in Bodies
                        /\ HoldsAnswer(r)
                        /\ r.pc = "clear" => r.kind \in Blocking
                        /\ r.pc = "reconcile" => r.kind = "body"
  <1>0. task[t] \in Task /\ task \in [Tasks -> Task]
        BY DEF TypeInv, TypeOK
  <1>1. f \in Feeds /\ task[t].pc = "fetch"
        BY DEF FeedAnswers, TypeInv, TasksHoldData
  <1>2. ASSUME NEW kind \in {"gone", "private", "corrupt"}, Fails(t, kind)
        PROVE  \E r \in Task : Goal(r)
    <2> DEFINE r == [task[t] EXCEPT !.kind = kind, !.pc = AfterFailure(kind)]
    <2>1. r \in Task /\ r.pc \in {"clear", "mark"} /\ r.kind = kind /\ r.snap = task[t].snap
          BY <1>0 DEF Task, AfterFailure, Kind
    <2>2. task' = [task EXCEPT ![t] = r]
          BY <1>0, <1>2 DEF Fails
    <2>3. HoldsAnswer(r) /\ (r.pc = "clear" => r.kind \in Blocking)
          BY <1>0, <2>1 DEF HoldsAnswer, AfterFailure, Task
    <2> QED BY <2>1, <2>2, <2>3
  <1>3. ASSUME NotModified(t, f, s)
        PROVE  \E r \in Task : Goal(r)
    <2> DEFINE r == [task[t] EXCEPT !.kind = "notModified", !.pc = "confirm"]
    <2>1. /\ r \in Task /\ r.pc = "confirm" /\ r.kind = "notModified"
          /\ r.snap = task[t].snap
          BY <1>0 DEF Task, Kind
    <2>2. task' = [task EXCEPT ![t] = r]
          BY <1>0, <1>3 DEF NotModified
    <2> QED BY <2>1, <2>2 DEF HoldsAnswer
  <1>4. ASSUME s \in Bodies, NEW e \in {<<f, s>>, None}, Unchanged(t, f, s, e)
        PROVE  \E r \in Task : Goal(r)
    <2> DEFINE r == [task[t] EXCEPT !.kind = "sameHash", !.pc = "confirm", !.etag = e, !.body = s]
    <2>1. e \in Etag
          BY <1>1, <1>4 DEF Etag
    <2>2. /\ r \in Task /\ r.pc = "confirm" /\ r.body = s /\ r.kind = "sameHash"
          /\ r.snap = task[t].snap
          BY <1>0, <1>4, <2>1 DEF Task, Kind
    <2>3. task' = [task EXCEPT ![t] = r]
          BY <1>0, <1>4 DEF Unchanged
    <2> QED BY <1>4, <2>2, <2>3 DEF HoldsAnswer
  <1>5. ASSUME s \in Bodies, NEW e \in {<<f, s>>, None}, NewBody(t, f, s, e)
        PROVE  \E r \in Task : Goal(r)
    <2> DEFINE r == [task[t] EXCEPT !.kind = "body", !.pc = "reconcile", !.etag = e, !.body = s]
    <2>1. e \in Etag
          BY <1>1, <1>5 DEF Etag
    <2>2. /\ r \in Task /\ r.pc = "reconcile" /\ r.body = s /\ r.kind = "body"
          /\ r.snap = task[t].snap
          BY <1>0, <1>5, <2>1 DEF Task, Kind
    <2>3. task' = [task EXCEPT ![t] = r]
          BY <1>0, <1>5 DEF NewBody
    <2> QED BY <1>5, <2>2, <2>3 DEF HoldsAnswer
  <1>6. \/ \E kind \in {"gone", "private", "corrupt"} : Fails(t, kind)
        \/ NotModified(t, f, s)
        \/ s \in Bodies /\ \E e \in {<<f, s>>, None} : Unchanged(t, f, s, e) \/ NewBody(t, f, s, e)
        BY DEF FeedAnswers
  <1> QED BY <1>2, <1>3, <1>4, <1>5, <1>6

LEMMA TaskStepType ==
  ASSUME TypeInv, NEW t \in Tasks, TaskStep(t)
  PROVE  TypeInv'
  <1> USE DEF world, tables
  <1>0. /\ task[t] \in Task /\ task \in [Tasks -> Task]
        /\ Cal(t) \in Calendars /\ row[Cal(t)] \in Row
        /\ task[t].snap \in Row
        BY DEF TypeInv, TypeOK, Tasks, Cal, Task
  <1>1. CASE ReadRow(t)
    <2>1. CASE row[Cal(t)].active
      <3> DEFINE r == [task[t] EXCEPT !.pc = "fetch", !.snap = row[Cal(t)], !.day = day]
      <3>1. r \in Task
            BY <1>0 DEF Task, TypeInv, TypeOK
      <3>2. task' = [task EXCEPT ![t] = r]
            BY <1>0, <1>1, <2>1 DEF ReadRow
      <3>3. r.pc = "fetch" /\ r.snap.feed \in Feeds /\ r.body = task[t].body /\ r.kind = task[t].kind
            BY <1>0, <2>1 DEF Task, TypeInv, RowsNameFeeds
      <3>4. task' \in [Tasks -> Task] /\ TasksHoldData'
            BY <3>1, <3>2, <3>3, TaskReplaced DEF TypeInv, TasksHoldData
      <3> QED BY <1>1, <3>4 DEF ReadRow, TypeInv, TypeOK, RowsNameFeeds
    <2>2. CASE ~row[Cal(t)].active
      <3>1. task' = [task EXCEPT ![t] = IdleTask]
            BY <1>1, <2>2 DEF ReadRow, Done
      <3>2. task' \in [Tasks -> Task] /\ TasksHoldData'
            BY <3>1, IdleTaskType, TaskReplaced DEF IdleTask
      <3> QED BY <1>1, <3>2 DEF ReadRow, TypeInv, TypeOK, RowsNameFeeds
    <2> QED BY <2>1, <2>2
  <1>2. CASE FeedAnswers(t)
    <2>1. PICK r \in Task : /\ task' = [task EXCEPT ![t] = r]
                            /\ r.pc \in {"clear", "mark", "confirm", "reconcile"}
                            /\ r.pc = "reconcile" \/ r.kind = "body" => r.body \in Bodies
          BY <1>2, FeedAnswerStep
    <2>2. task' \in [Tasks -> Task] /\ TasksHoldData'
          BY <2>1, TaskReplaced
    <2> QED BY <1>2, <2>2 DEF FeedAnswers, TypeInv, TypeOK, RowsNameFeeds
  <1>3. CASE Reconcile(t)
    <2>1. task[t].pc = "reconcile" /\ task[t].body \in Bodies
          BY <1>3 DEF Reconcile, TypeInv, TasksHoldData
    <2>2. Parsed(t) \subseteq Event
          BY <1>0, <2>1, DataAssumption DEF Parsed, Expand, Event, Occurrence, Task, Row
    <2>3. events' \in [Calendars -> SUBSET Event]
          BY <1>0, <1>3, <2>2 DEF Reconcile, TypeInv, TypeOK
    <2>4. task' \in [Tasks -> Task] /\ TasksHoldData'
      <3> DEFINE r == [task[t] EXCEPT !.pc = "confirm"]
      <3>1. r \in Task /\ r.pc = "confirm" /\ r.body = task[t].body
            BY <1>0 DEF Task
      <3>2. task' = [task EXCEPT ![t] = r]
            BY <1>0, <1>3 DEF Reconcile, Goto
      <3> QED BY <2>1, <3>1, <3>2, TaskReplaced
    <2> QED BY <1>0, <1>3, <2>3, <2>4 DEF Reconcile, TypeInv, TypeOK, RowsNameFeeds
  <1>4. CASE Confirm(t)
    <2> DEFINE r == [task[t] EXCEPT !.pc = "finish"]
    <2>1. /\ r \in Task /\ r.pc = "finish"
          /\ r.kind = "body" => r.body \in Bodies
          BY <1>0 DEF Task, TypeInv, TasksHoldData
    <2>2. task' = [task EXCEPT ![t] = r]
          BY <1>0, <1>4 DEF Confirm, Goto
    <2>3. task' \in [Tasks -> Task] /\ TasksHoldData'
          BY <2>1, <2>2, TaskReplaced
    <2>4. ConfirmedRow(t) \in Row /\ (ConfirmedRow(t).active => ConfirmedRow(t).feed \in Feeds)
          BY <1>0 DEF ConfirmedRow, Confirmed, Row, Status, Task, TypeInv, RowsNameFeeds
    <2>5. row' \in [Calendars -> Row] /\ RowsNameFeeds'
          BY <1>0, <1>4, <2>4, RowReplaced DEF Confirm
    <2> QED BY <1>4, <2>3, <2>5 DEF Confirm, TypeInv, TypeOK
  <1>5. CASE ClearEvents(t)
    <2> DEFINE r == [task[t] EXCEPT !.pc = "mark"]
    <2>1. /\ r \in Task /\ r.pc = "mark"
          /\ r.kind = "body" => r.body \in Bodies
          BY <1>0 DEF Task, TypeInv, TasksHoldData
    <2>2. task' = [task EXCEPT ![t] = r]
          BY <1>0, <1>5 DEF ClearEvents, Goto
    <2>3. task' \in [Tasks -> Task] /\ TasksHoldData'
          BY <2>1, <2>2, TaskReplaced
    <2> QED BY <1>0, <1>5, <2>3 DEF ClearEvents, TypeInv, TypeOK, RowsNameFeeds
  <1>6. CASE MarkFailure(t)
    <2> DEFINE r == [task[t] EXCEPT !.pc = "finish"]
    <2>1. /\ r \in Task /\ r.pc = "finish"
          /\ r.kind = "body" => r.body \in Bodies
          BY <1>0 DEF Task, TypeInv, TasksHoldData
    <2>2. task' = [task EXCEPT ![t] = r]
          BY <1>0, <1>6 DEF MarkFailure, Goto
    <2>3. task' \in [Tasks -> Task] /\ TasksHoldData'
          BY <2>1, <2>2, TaskReplaced
    <2>4. NextStatus(t) \in Status
          BY <1>0 DEF NextStatus, Status, Row
    <2> DEFINE new == [row[Cal(t)] EXCEPT !.status = NextStatus(t)]
    <2>5. new \in Row /\ (new.active => new.feed \in Feeds)
          BY <1>0, <2>4 DEF Row, TypeInv, RowsNameFeeds
    <2>6. row' = [row EXCEPT ![Cal(t)] = new]
          BY <1>0, <1>6 DEF MarkFailure
    <2>7. row' \in [Calendars -> Row] /\ RowsNameFeeds'
          BY <1>0, <2>5, <2>6, RowReplaced
    <2> QED BY <1>6, <2>3, <2>7 DEF MarkFailure, TypeInv, TypeOK
  <1>7. CASE FinishTask(t)
    <2>1. task' \in [Tasks -> Task] /\ TasksHoldData'
          BY <1>7, IdleTaskType, TaskReplaced DEF FinishTask, Done, IdleTask
    <2> QED BY <1>7, <2>1 DEF FinishTask, TypeInv, TypeOK, RowsNameFeeds
  <1> QED BY <1>1, <1>2, <1>3, <1>4, <1>5, <1>6, <1>7 DEF TaskStep

LEMMA TaskFaultType ==
  ASSUME TypeInv, NEW t \in Tasks, TaskFault(t)
  PROVE  TypeInv'
  <1> USE DEF world, tables
  <1>0. /\ task[t] \in Task /\ task \in [Tasks -> Task]
        BY DEF TypeInv, TypeOK
  <1>1. ASSUME NEW kind \in {"transport", "dbError"}, Fails(t, kind)
        PROVE  task' \in [Tasks -> Task] /\ TasksHoldData'
    <2> DEFINE r == [task[t] EXCEPT !.kind = kind, !.pc = AfterFailure(kind)]
    <2>1. r \in Task /\ r.pc \in {"clear", "mark"} /\ r.kind = kind
          BY <1>0 DEF Task, AfterFailure, Kind
    <2>2. task' = [task EXCEPT ![t] = r]
          BY <1>0, <1>1 DEF Fails
    <2> QED BY <1>1, <2>1, <2>2, TaskReplaced
  <1>2. CASE FeedUnreachable(t)
        BY <1>1, <1>2 DEF FeedUnreachable, Fault, TypeInv, TypeOK, RowsNameFeeds
  <1>3. CASE StatementFails(t)
        BY <1>1, <1>3 DEF StatementFails, Fault, TypeInv, TypeOK, RowsNameFeeds
  <1>4. CASE TaskRejects(t)
    <2>1. task' \in [Tasks -> Task] /\ TasksHoldData'
          BY <1>4, IdleTaskType, TaskReplaced DEF TaskRejects, Done, IdleTask
    <2>2. running' \in BOOLEAN /\ awaiting' \subseteq Tasks
          BY <1>4 DEF TaskRejects, ReleaseGuard, TypeInv, TypeOK
    <2>3. UNCHANGED <<world, tables, catalog, edits>> /\ faults' \in Nat
          BY <1>4 DEF TaskRejects, Fault, TypeInv, TypeOK
    <2> QED BY <2>1, <2>2, <2>3 DEF TypeInv, TypeOK, RowsNameFeeds
  <1> QED BY <1>2, <1>3, <1>4 DEF TaskFault

LEMMA JobTypeStep ==
  ASSUME TypeInv, EventsTrigger \/ EventsJobEnds \/ Crash
  PROVE  TypeInv'
  <1> USE DEF world, tables
  <1>1. CASE EventsTrigger
    <2> DEFINE fresh == [IdleTask EXCEPT !.pc = "read"]
    <2>1. fresh \in Task /\ fresh.pc = "read" /\ fresh.kind = "none"
          BY IdleTaskType DEF Task, IdleTask
    <2>2. ASSUME NEW t \in Tasks
          PROVE  task'[t] = fresh \/ task'[t] = task[t]
          BY <1>1 DEF EventsTrigger
    <2>3. task' \in [Tasks -> Task] /\ TasksHoldData'
          BY <1>1, <2>1, <2>2 DEF EventsTrigger, TypeInv, TypeOK, TasksHoldData
    <2>4. awaiting' \subseteq Tasks
      <3>1. ASSUME NEW c \in Calendars, row[c].active
            PROVE  (CHOOSE k \in FreeSlots(c) : TRUE) \in Slots
            BY <1>1, <3>1 DEF EventsTrigger, FreeSlots
      <3> QED BY <1>1, <3>1 DEF EventsTrigger, Tasks
    <2>5. running' \in BOOLEAN /\ UNCHANGED <<world, tables, catalog, edits, faults>>
          BY <1>1 DEF EventsTrigger
    <2> QED BY <2>3, <2>4, <2>5 DEF TypeInv, TypeOK, RowsNameFeeds
  <1>2. CASE EventsJobEnds
        BY <1>2 DEF EventsJobEnds, ReleaseGuard, TypeInv, TypeOK, RowsNameFeeds, TasksHoldData
  <1>3. CASE Crash
    <2>1. task' \in [Tasks -> Task] /\ TasksHoldData'
          BY <1>3, IdleTaskType DEF Crash, TasksHoldData, IdleTask
    <2>2. running' \in BOOLEAN /\ awaiting' \subseteq Tasks
          BY <1>3 DEF Crash
    <2>3. UNCHANGED <<world, tables, edits>> /\ faults' \in Nat
          BY <1>3 DEF Crash, Fault, TypeInv, TypeOK
    <2>4. catalog' \in Catalog
          BY <1>3, IdleCatalogType DEF Crash
    <2> QED BY <2>1, <2>2, <2>3, <2>4 DEF TypeInv, TypeOK, RowsNameFeeds
  <1> QED BY <1>1, <1>2, <1>3

LEMMA WorldTypeStep ==
  ASSUME TypeInv, Tick \/ Publish \/ FeedChanges
  PROVE  TypeInv'
  <1> USE DEF tables, jobs
  <1>1. CASE Tick
        BY <1>1, BoundsAssumption DEF Tick, Days, TypeInv, TypeOK, RowsNameFeeds, TasksHoldData
  <1>2. CASE Publish
        BY <1>2 DEF Publish, TypeInv, TypeOK, RowsNameFeeds, TasksHoldData
  <1>3. CASE FeedChanges
        BY <1>3 DEF FeedChanges, TypeInv, TypeOK, RowsNameFeeds, TasksHoldData
  <1> QED BY <1>1, <1>2, <1>3

LEMMA TypeStep == TypeInv /\ [Next]_vars => TypeInv'
  <1>1. ASSUME TypeInv, Next PROVE TypeInv'
        BY <1>1, WorldTypeStep, CatalogTypeStep, JobTypeStep, TaskStepType, TaskFaultType DEF Next
  <1>2. ASSUME TypeInv, UNCHANGED vars PROVE TypeInv'
        BY <1>2 DEF vars, TypeInv, TypeOK, RowsNameFeeds, TasksHoldData
  <1> QED BY <1>1, <1>2

(* Type correctness of the whole specification.                            *)
THEOREM TypeCorrect == Spec => []TypeInv
  <1> QED BY TypeInit, TypeStep, PTL DEF Spec

THEOREM TypeOKHolds == Spec => []TypeOK
  <1>1. TypeInv => TypeOK
        BY DEF TypeInv
  <1> QED BY <1>1, TypeCorrect, PTL

(***************************************************************************)
(* A calendar is served only after an import.  The invariant follows the   *)
(* two ways to skip one: a validator or a hash can only have been stored   *)
(* by an import, so a 304 or an unchanged body proves that there was one.  *)
(***************************************************************************)
ImportInv ==
    /\ \A c \in Calendars :
         row[c].synced \/ row[c].etag # None \/ row[c].hash # None => imported[c]
    /\ \A t \in Tasks :
         \/ task[t].snap.etag # None \/ task[t].snap.hash # None
         \/ task[t].pc = "confirm"
         => imported[Cal(t)]

LEMMA ImportInit == Init => ImportInv
  BY DEF Init, ImportInv, NoRow, IdleTask

LEMMA ImportTaskStep ==
  ASSUME TypeInv, ImportInv, NEW t \in Tasks, TaskStep(t)
  PROVE  ImportInv'
  <1> USE DEF world, tables
  <1>0. /\ task[t] \in Task /\ task \in [Tasks -> Task] /\ row \in [Calendars -> Row]
        /\ Cal(t) \in Calendars /\ row[Cal(t)] \in Row /\ task[t].snap \in Row
        /\ imported \in [Calendars -> BOOLEAN]
        BY DEF TypeInv, TypeOK, Tasks, Cal, Task
  <1>1. CASE ReadRow(t)
        BY <1>0, <1>1 DEF ReadRow, Done, IdleTask, NoRow, ImportInv, Task
  <1>2. CASE FeedAnswers(t)
    <2> DEFINE f == task[t].snap.feed
               s == feed[f]
    <2>1. f \in Feeds
          BY <1>2 DEF FeedAnswers, TypeInv, TasksHoldData
    <2>2. /\ \A u \in Tasks \ {t} : task'[u] = task[u]
          /\ task'[t].snap = task[t].snap
      <3>1. \E r \in Task : task' = [task EXCEPT ![t] = r] /\ r.snap = task[t].snap
            BY <1>2, FeedAnswerStep
      <3> QED BY <1>0, <3>1
    <2>3. task'[t].pc = "confirm" => imported[Cal(t)]
      <3>1. CASE \E kind \in {"gone", "private", "corrupt"} : Fails(t, kind)
            BY <1>0, <3>1 DEF Fails, AfterFailure, Task
      <3>2. CASE s \in Bodies /\ NotModified(t, f, s)
        <4>1. task[t].snap.etag # None
              BY <2>1, <3>2, DataAssumption DEF NotModified
        <4> QED BY <4>1 DEF ImportInv
      <3>3. CASE s \in Bodies /\ \E e \in {<<f, s>>, None} : Unchanged(t, f, s, e)
        <4>1. task[t].snap.hash # None
              BY <3>3, DataAssumption DEF Unchanged, SameHash
        <4> QED BY <4>1 DEF ImportInv
      <3>4. CASE s \in Bodies /\ \E e \in {<<f, s>>, None} : NewBody(t, f, s, e)
            BY <1>0, <3>4 DEF NewBody, Task
      <3> QED BY <1>2, <3>1, <3>2, <3>3, <3>4 DEF FeedAnswers
    <2> QED BY <1>2, <2>2, <2>3 DEF FeedAnswers, ImportInv
  <1>3. CASE Reconcile(t)
    <2>1. /\ \A u \in Tasks : task'[u].snap = task[u].snap
          /\ \A u \in Tasks \ {t} : task'[u].pc = task[u].pc
          BY <1>0, <1>3 DEF Reconcile, Goto
    <2>2. \A c \in Calendars : imported[c] => imported'[c]
          BY <1>0, <1>3 DEF Reconcile
    <2>3. imported'[Cal(t)]
          BY <1>0, <1>3 DEF Reconcile
    <2>4. \A u \in Tasks : Cal(u) \in Calendars
          BY DEF Tasks, Cal
    <2> QED BY <1>3, <2>1, <2>2, <2>3, <2>4 DEF Reconcile, ImportInv
  <1>4. CASE Confirm(t)
    <2>1. imported[Cal(t)]
          BY <1>4 DEF Confirm, ImportInv
    <2>2. /\ \A u \in Tasks : task'[u].snap = task[u].snap
          /\ \A u \in Tasks : task'[u].pc = "confirm" => task[u].pc = "confirm"
          BY <1>0, <1>4 DEF Confirm, Goto
    <2>3. \A c \in Calendars \ {Cal(t)} : row'[c] = row[c]
          BY <1>0, <1>4 DEF Confirm
    <2> QED BY <1>4, <2>1, <2>2, <2>3 DEF Confirm, ImportInv
  <1>5. CASE ClearEvents(t)
        BY <1>0, <1>5 DEF ClearEvents, Goto, ImportInv, Task
  <1>6. CASE MarkFailure(t)
    <2>1. \A c \in Calendars : /\ row'[c].synced = row[c].synced
                               /\ row'[c].etag = row[c].etag
                               /\ row'[c].hash = row[c].hash
          BY <1>0, <1>6 DEF MarkFailure, Row
    <2>2. /\ \A u \in Tasks : task'[u].snap = task[u].snap
          /\ \A u \in Tasks : task'[u].pc = "confirm" => task[u].pc = "confirm"
          BY <1>0, <1>6 DEF MarkFailure, Goto
    <2> QED BY <1>6, <2>1, <2>2 DEF MarkFailure, ImportInv
  <1>7. CASE FinishTask(t)
        BY <1>0, <1>7 DEF FinishTask, Done, IdleTask, NoRow, ImportInv
  <1> QED BY <1>1, <1>2, <1>3, <1>4, <1>5, <1>6, <1>7 DEF TaskStep

(* The jobs and the world leave the columns that vouch for an import, and  *)
(* the tasks they touch start afresh.                                      *)
RowVouchersKept == \A c \in Calendars : /\ row'[c].synced = row[c].synced
                                        /\ row'[c].etag = row[c].etag
                                        /\ row'[c].hash = row[c].hash
TaskVouchersKept == \A t \in Tasks :
    \/ task'[t].snap = NoRow /\ task'[t].pc # "confirm"
    \/ task'[t].snap = task[t].snap /\ (task'[t].pc = "confirm" => task[t].pc = "confirm")
VouchersKept == UNCHANGED imported /\ RowVouchersKept /\ TaskVouchersKept

LEMMA CatalogKeepsVouchers ==
  ASSUME TypeInv, CatalogTrigger \/ CatalogStep \/ CatalogFails
  PROVE  VouchersKept
  <1> USE DEF world, tables
  <1>1. UNCHANGED <<imported, task>>
        BY DEF CatalogStep, CatalogTrigger, CatalogFails, CatalogFetched, UpsertDefinitions,
               RetireOthers
  <1>2. ASSUME NEW c \in Calendars
        PROVE  \/ row'[c] = row[c]
               \/ \E def : row'[c] = Upserted(c, def)
               \/ row'[c] = [row[c] EXCEPT !.active = FALSE]
    <2>1. CASE CatalogTrigger \/ CatalogFails \/ CatalogFetched
          BY <2>1 DEF CatalogTrigger, CatalogFails, CatalogFetched
    <2>2. CASE UpsertDefinitions
          BY <2>2 DEF UpsertDefinitions
    <2>3. CASE RetireOthers
          BY <2>3 DEF RetireOthers
    <2> QED BY <2>1, <2>2, <2>3 DEF CatalogStep
  <1>3. ASSUME NEW c \in Calendars
        PROVE  /\ row'[c].synced = row[c].synced
               /\ row'[c].etag = row[c].etag
               /\ row'[c].hash = row[c].hash
    <2>1. row[c] \in Row
          BY DEF TypeInv, TypeOK
    <2> QED BY <1>2, <2>1 DEF Upserted, Row
  <1> QED BY <1>1, <1>3 DEF VouchersKept, RowVouchersKept, TaskVouchersKept

LEMMA FaultsKeepVouchers ==
  ASSUME TypeInv, NEW t \in Tasks, TaskFault(t)
  PROVE  VouchersKept
  <1>0. task \in [Tasks -> Task]
        BY DEF TypeInv, TypeOK
  <1>1. UNCHANGED <<imported, row>>
        BY DEF TaskFault, FeedUnreachable, StatementFails, TaskRejects, tables
  <1>2. (\E kind : Fails(t, kind)) \/ Done(t)
        BY DEF TaskFault, FeedUnreachable, StatementFails, TaskRejects
  <1>3. ASSUME NEW kind, Fails(t, kind) PROVE TaskVouchersKept
        BY <1>0, <1>3 DEF Fails, AfterFailure, TaskVouchersKept, Task
  <1>4. ASSUME Done(t) PROVE TaskVouchersKept
        BY <1>0, <1>4 DEF Done, IdleTask, TaskVouchersKept
  <1> QED BY <1>1, <1>2, <1>3, <1>4 DEF VouchersKept, RowVouchersKept

LEMMA JobsKeepVouchers ==
  ASSUME TypeInv, EventsTrigger \/ EventsJobEnds \/ Crash
  PROVE  VouchersKept
  <1>1. UNCHANGED <<imported, row>>
        BY DEF EventsTrigger, EventsJobEnds, Crash, tables
  <1>2. ASSUME NEW t \in Tasks
        PROVE  task'[t] = task[t] \/ task'[t] = IdleTask \/ task'[t] = [IdleTask EXCEPT !.pc = "read"]
        BY DEF EventsTrigger, EventsJobEnds, Crash
  <1>3. TaskVouchersKept
        BY <1>2 DEF TaskVouchersKept, IdleTask
  <1> QED BY <1>1, <1>3 DEF VouchersKept, RowVouchersKept

LEMMA WorldKeepsVouchers ==
  ASSUME Tick \/ Publish \/ FeedChanges
  PROVE  VouchersKept
  BY DEF Tick, Publish, FeedChanges, tables, jobs, VouchersKept, RowVouchersKept, TaskVouchersKept

LEMMA VouchersKeepImportInv ==
  ASSUME ImportInv, VouchersKept
  PROVE  ImportInv'
  <1>1. \A t \in Tasks : Cal(t) \in Calendars
        BY DEF Tasks, Cal
  <1>2. NoRow.etag = None /\ NoRow.hash = None
        BY DEF NoRow
  <1>3. ASSUME NEW c \in Calendars,
               row'[c].synced \/ row'[c].etag # None \/ row'[c].hash # None
        PROVE  imported'[c]
        BY <1>3 DEF ImportInv, VouchersKept, RowVouchersKept
  <1>4. ASSUME NEW t \in Tasks,
               \/ task'[t].snap.etag # None \/ task'[t].snap.hash # None
               \/ task'[t].pc = "confirm"
        PROVE  imported'[Cal(t)]
        BY <1>1, <1>2, <1>4 DEF ImportInv, VouchersKept, TaskVouchersKept
  <1> QED BY <1>3, <1>4 DEF ImportInv

LEMMA ImportStep == TypeInv /\ ImportInv /\ [Next]_vars => ImportInv'
  <1>1. ASSUME TypeInv, ImportInv, NEW t \in Tasks, TaskStep(t) PROVE ImportInv'
        BY <1>1, ImportTaskStep
  <1>2. ASSUME TypeInv, Next, ~ \E t \in Tasks : TaskStep(t) PROVE VouchersKept
        BY <1>2, CatalogKeepsVouchers, FaultsKeepVouchers, JobsKeepVouchers, WorldKeepsVouchers
           DEF Next
  <1>3. ASSUME UNCHANGED vars PROVE VouchersKept
        BY <1>3 DEF vars, VouchersKept, RowVouchersKept, TaskVouchersKept
  <1> QED BY <1>1, <1>2, <1>3, VouchersKeepImportInv

(* No order of catalogue runs, 304 answers, failures, overlapping tasks    *)
(* and crashes makes a calendar public that was never imported.            *)
THEOREM ServedAfterImport == Spec => []ServedOnlyAfterImport
  <1>1. ImportInv => ServedOnlyAfterImport
        BY DEF ImportInv, ServedOnlyAfterImport, Servable
  <1> QED BY <1>1, TypeCorrect, ImportInit, ImportStep, PTL DEF Spec

(***************************************************************************)
(* The catalogue job and the tasks write the same rows.  The tasks leave   *)
(* every column the catalogue owns.                                        *)
(***************************************************************************)
LEMMA TasksLeaveDefinitions ==
  ASSUME TypeInv, NEW t \in Tasks, TaskStep(t) \/ TaskFault(t), NEW c \in Calendars
  PROVE  /\ row'[c].active = row[c].active
         /\ row'[c].feed = row[c].feed
         /\ row'[c].channel = row[c].channel
         /\ row'[c].desc = row[c].desc
         /\ catalog' = catalog
  <1> USE DEF tables
  <1>0. row \in [Calendars -> Row] /\ row[Cal(t)] \in Row
        BY DEF TypeInv, TypeOK, Tasks, Cal
  <1>1. CASE Confirm(t)
        BY <1>0, <1>1 DEF Confirm, ConfirmedRow, Confirmed, Row
  <1>2. CASE MarkFailure(t)
        BY <1>0, <1>2 DEF MarkFailure, Row
  <1>3. CASE ~(Confirm(t) \/ MarkFailure(t))
        BY <1>3 DEF TaskStep, TaskFault, ReadRow, FeedAnswers, Reconcile, ClearEvents, FinishTask,
                    FeedUnreachable, StatementFails, TaskRejects
  <1> QED BY <1>1, <1>2, <1>3

MirrorInv ==
    catalog.pc = "retire" =>
        \A c \in SlugsOf(catalog.fetched) \cap Calendars :
            LET def == DefOf(catalog.fetched, c)
            IN  /\ row[c].active
                /\ row[c].feed = def.feed
                /\ row[c].channel = def.channel
                /\ row[c].desc = def.desc

LEMMA MirrorInit == Init => MirrorInv
  BY DEF Init, MirrorInv, IdleCatalog

LEMMA MirrorStep == TypeInv /\ MirrorInv /\ [Next]_vars => MirrorInv'
  <1> USE DEF world, tables, jobs
  <1>1. ASSUME TypeInv, MirrorInv, NEW t \in Tasks, TaskStep(t) \/ TaskFault(t)
        PROVE  MirrorInv'
        BY <1>1, TasksLeaveDefinitions DEF MirrorInv
  <1>2. ASSUME TypeInv, UpsertDefinitions
        PROVE  MirrorInv'
    <2> DEFINE cat == catalog.fetched
    <2>1. CASE catalog' = IdleCatalog
          BY <2>1 DEF MirrorInv, IdleCatalog
    <2>2. CASE /\ catalog' = [catalog EXCEPT !.pc = "retire"]
               /\ row' = [c \in Calendars |->
                            IF c \in SlugsOf(cat) THEN Upserted(c, DefOf(cat, c)) ELSE row[c]]
      <3>1. catalog'.fetched = cat
            BY <2>2 DEF TypeInv, TypeOK, Catalog
      <3>2. ASSUME NEW c \in SlugsOf(cat) \cap Calendars
            PROVE  /\ row'[c].active
                   /\ row'[c].feed = DefOf(cat, c).feed
                   /\ row'[c].channel = DefOf(cat, c).channel
                   /\ row'[c].desc = DefOf(cat, c).desc
        <4>1. row[c] \in Row /\ row'[c] = Upserted(c, DefOf(cat, c))
              BY <1>2, <2>2 DEF TypeInv, TypeOK
        <4> QED BY <4>1 DEF Upserted, Row
      <3> QED BY <3>1, <3>2 DEF MirrorInv
    <2> QED BY <1>2, <2>1, <2>2 DEF UpsertDefinitions
  <1>3. ASSUME TypeInv, CatalogTrigger \/ CatalogFetched \/ RetireOthers \/ CatalogFails \/ Crash
        PROVE  MirrorInv'
        BY <1>3 DEF CatalogTrigger, CatalogFetched, RetireOthers, CatalogFails, Crash,
                    IdleCatalog, MirrorInv, TypeInv, TypeOK, Catalog
  <1>4. ASSUME MirrorInv, Tick \/ Publish \/ FeedChanges \/ EventsTrigger \/ EventsJobEnds
        PROVE  MirrorInv'
    <2>1. UNCHANGED <<catalog, row>>
          BY <1>4 DEF Tick, Publish, FeedChanges, EventsTrigger, EventsJobEnds
    <2> QED BY <1>4, <2>1 DEF MirrorInv
  <1>5. ASSUME MirrorInv, UNCHANGED vars PROVE MirrorInv'
        BY <1>5 DEF vars, MirrorInv
  <1> QED BY <1>1, <1>2, <1>3, <1>4, <1>5 DEF Next, CatalogStep

(* A successful catalogue run leaves exactly its catalogue active, however *)
(* the events tasks were interleaved with its two statements.              *)
THEOREM CatalogueMirroredHolds == Spec => CatalogueMirrored
  <1> DEFINE P == RetireOthers =>
        LET cat == catalog.fetched
        IN  \A c \in Calendars :
                /\ row'[c].active <=> c \in SlugsOf(cat)
                /\ c \in SlugsOf(cat) => Mirrors(c, DefOf(cat, c))
  <1>1. ASSUME TypeInv, MirrorInv PROVE P
    <2> SUFFICES ASSUME RetireOthers, NEW c \in Calendars
                 PROVE  /\ row'[c].active <=> c \in SlugsOf(catalog.fetched)
                        /\ c \in SlugsOf(catalog.fetched) =>
                             Mirrors(c, DefOf(catalog.fetched, c))
        OBVIOUS
    <2>1. row[c] \in Row /\ catalog.pc = "retire"
          BY <1>1 DEF TypeInv, TypeOK, RetireOthers
    <2>2. CASE c \in SlugsOf(catalog.fetched)
          BY <1>1, <2>1, <2>2 DEF RetireOthers, MirrorInv, Mirrors
    <2>3. CASE c \notin SlugsOf(catalog.fetched)
          BY <2>1, <2>3 DEF RetireOthers, Row
    <2> QED BY <2>2, <2>3
  <1>2. TypeInv /\ MirrorInv => [P]_vars
        BY <1>1
  <1> QED BY <1>2, TypeCorrect, MirrorInit, MirrorStep, PTL DEF Spec, CatalogueMirrored

(***************************************************************************)
(* One calendar per channel.  Rows that do not exist have no channel, and  *)
(* a task only writes to a row that exists.                                *)
(***************************************************************************)
HasRow(r, t) == r.pc \notin {"idle", "read"} => Exists(Cal(t)) /\ r.snap.status # "absent"

ChannelInv ==
    /\ UniqueChannel
    /\ \A c \in Calendars : /\ row[c].active => Exists(c)
                            /\ ~Exists(c) => row[c].channel = None
    /\ \A t \in Tasks : HasRow(task[t], t)

(* A step that keeps the existing rows and the definitions in them, and    *)
(* whose tasks have rows, keeps the invariant.                             *)
LEMMA ChannelsKept ==
  ASSUME ChannelInv,
         \A c \in Calendars : /\ Exists(c)' <=> Exists(c)
                              /\ row'[c].active => row[c].active
                              /\ row'[c].channel = row[c].channel,
         \A t \in Tasks : HasRow(task'[t], t)
  PROVE  ChannelInv'
  <1>1. UniqueChannel'
        BY DEF ChannelInv, UniqueChannel
  <1>2. \A c \in Calendars : /\ row'[c].active => Exists(c)'
                             /\ ~Exists(c)' => row'[c].channel = None
        BY DEF ChannelInv
  <1>3. ASSUME NEW t \in Tasks PROVE HasRow(task[t], t)'
    <2>1. Exists(Cal(t))' <=> Exists(Cal(t))
          BY DEF Tasks, Cal
    <2> QED BY <2>1 DEF HasRow
  <1> QED BY <1>1, <1>2, <1>3 DEF ChannelInv

LEMMA ChannelInit == Init => ChannelInv
  BY DEF Init, ChannelInv, UniqueChannel, Exists, NoRow, IdleTask, HasRow

LEMMA UpsertKeepsChannels ==
  ASSUME TypeInv, ChannelInv, UpsertDefinitions
  PROVE  ChannelInv'
  <1> USE DEF world
  <1> DEFINE cat == catalog.fetched
  <1>0. cat \in Seq(Definition) /\ row \in [Calendars -> Row]
        BY DEF TypeInv, TypeOK, Catalog
  <1>1. CASE UNCHANGED row
        BY <1>1 DEF UpsertDefinitions, ChannelInv, UniqueChannel, Exists, HasRow
  <1>2. CASE /\ \A i \in Kept(cat) : ~ChannelTaken(cat, i)
             /\ row' = [c \in Calendars |->
                          IF c \in SlugsOf(cat) THEN Upserted(c, DefOf(cat, c)) ELSE row[c]]
    <2>1. ASSUME NEW c \in Calendars, c \in SlugsOf(cat)
          PROVE  /\ row'[c].status # "absent"
                 /\ row'[c].channel = DefOf(cat, c).channel
                 /\ row'[c].channel \in Channels
      <3>1. DefOf(cat, c) \in Definition
            BY <1>0, <2>1, KeptDefinition
      <3>2. row[c] \in Row /\ row'[c] = Upserted(c, DefOf(cat, c))
            BY <1>0, <1>2, <2>1
      <3> QED BY <3>1, <3>2 DEF Upserted, Row, Definition, Exists
    <2>2. ASSUME NEW c \in Calendars, c \notin SlugsOf(cat)
          PROVE  row'[c] = row[c]
          BY <1>2, <2>2
    <2>3. ASSUME NEW c \in Calendars, NEW d \in Calendars, c # d,
                 c \in SlugsOf(cat), d \in SlugsOf(cat)
          PROVE  row'[c].channel # row'[d].channel
      <3>1. PICK i \in Kept(cat) : cat[i].slug = c /\ DefOf(cat, c) = cat[i]
            BY <1>0, <2>3, KeptDefinition
      <3>2. PICK j \in Kept(cat) : cat[j].slug = d /\ DefOf(cat, d) = cat[j]
            BY <1>0, <2>3, KeptDefinition
      <3>3. i # j /\ i \in Nat \ {0} /\ j \in Nat \ {0}
            BY <1>0, <2>3, <3>1, <3>2 DEF Kept
      <3>4. cat[i].channel # cat[j].channel
        <4>1. CASE i < j
              BY <3>2, <3>3, <4>1 DEF Kept
        <4>2. CASE j < i
              BY <3>1, <3>3, <4>2 DEF Kept
        <4> QED BY <3>3, <4>1, <4>2
      <3> QED BY <2>1, <2>3, <3>1, <3>2, <3>4
    <2>4. ASSUME NEW c \in Calendars, NEW d \in Calendars,
                 c \in SlugsOf(cat), d \notin SlugsOf(cat)
          PROVE  row'[c].channel # row'[d].channel
      <3>1. PICK i \in Kept(cat) : cat[i].slug = c /\ DefOf(cat, c) = cat[i]
            BY <1>0, <2>4, KeptDefinition
      <3>2. d # cat[i].slug /\ \A j \in Kept(cat) : cat[j].slug # d
            BY <2>4, <3>1 DEF SlugsOf
      <3>3. row[d].channel # cat[i].channel
            BY <1>2, <3>1, <3>2 DEF ChannelTaken
      <3> QED BY <2>1, <2>2, <2>4, <3>1, <3>3
    <2>5. UniqueChannel'
          BY <2>2, <2>3, <2>4 DEF ChannelInv, UniqueChannel, Exists
    <2>6. \A c \in Calendars : Exists(c) => Exists(c)'
          BY <2>1, <2>2 DEF Exists
    <2>7. ASSUME NEW c \in Calendars
          PROVE  /\ (row[c].active => Exists(c))'
                 /\ (~Exists(c) => row[c].channel = None)'
          BY <2>1, <2>2 DEF ChannelInv, Exists
    <2>8. ASSUME NEW t \in Tasks PROVE HasRow(task[t], t)'
      <3>1. task'[t] = task[t] /\ Cal(t) \in Calendars
            BY DEF UpsertDefinitions, Tasks, Cal
      <3>2. HasRow(task[t], t)
            BY DEF ChannelInv
      <3>3. Exists(Cal(t)) => Exists(Cal(t))'
            BY <2>6, <3>1
      <3> QED BY <3>1, <3>2, <3>3 DEF HasRow
    <2> QED BY <2>5, <2>7, <2>8 DEF ChannelInv
  <1> QED BY <1>1, <1>2 DEF UpsertDefinitions

LEMMA TaskKeepsChannels ==
  ASSUME TypeInv, ChannelInv, NEW t \in Tasks, TaskStep(t)
  PROVE  ChannelInv'
  <1> USE DEF world, tables
  <1>0. /\ task[t] \in Task /\ task \in [Tasks -> Task] /\ row \in [Calendars -> Row]
        /\ Cal(t) \in Calendars /\ row[Cal(t)] \in Row /\ task[t].snap \in Row
        BY DEF TypeInv, TypeOK, Tasks, Cal, Task
  <1>1. \A c \in Calendars : /\ row'[c].active = row[c].active
                             /\ row'[c].channel = row[c].channel
        BY TasksLeaveDefinitions
  <1>2. \A c \in Calendars : Exists(c)' <=> Exists(c)
    <2>1. CASE Confirm(t)
          BY <1>0, <2>1 DEF Confirm, ConfirmedRow, Confirmed, Row, Exists, ChannelInv, HasRow
    <2>2. CASE MarkFailure(t)
      <3>1. NextStatus(t) # "absent" /\ Exists(Cal(t))
            BY <2>2 DEF NextStatus, MarkFailure, ChannelInv, HasRow
      <3> QED BY <1>0, <2>2, <3>1 DEF MarkFailure, Row, Exists
    <2>3. CASE ~(Confirm(t) \/ MarkFailure(t))
          BY <2>3 DEF TaskStep, ReadRow, FeedAnswers, Reconcile, ClearEvents, FinishTask, Exists
    <2> QED BY <2>1, <2>2, <2>3
  <1>3. ASSUME NEW r \in Task, task' = [task EXCEPT ![t] = r], HasRow(r, t)
        PROVE  \A u \in Tasks : HasRow(task'[u], u)
    <2> SUFFICES ASSUME NEW u \in Tasks PROVE HasRow(task'[u], u)
        OBVIOUS
    <2>1. HasRow(task[u], u)
          BY DEF ChannelInv
    <2> QED BY <1>0, <1>3, <2>1
  <1>4. HasRow(task[t], t) /\ (row[Cal(t)].active => Exists(Cal(t)))
        BY <1>0 DEF ChannelInv
  <1>5. \A u \in Tasks : HasRow(task'[u], u)
    <2>1. CASE ReadRow(t) /\ row[Cal(t)].active
      <3> DEFINE r == [task[t] EXCEPT !.pc = "fetch", !.snap = row[Cal(t)], !.day = day]
      <3>1. r \in Task /\ r.snap = row[Cal(t)]
            BY <1>0 DEF Task, TypeInv, TypeOK
      <3>2. task' = [task EXCEPT ![t] = r]
            BY <1>0, <2>1 DEF ReadRow
      <3>3. HasRow(r, t)
            BY <1>4, <2>1, <3>1 DEF HasRow, Exists
      <3> QED BY <1>3, <3>1, <3>2, <3>3
    <2>2. CASE FeedAnswers(t)
      <3>1. PICK r \in Task : task' = [task EXCEPT ![t] = r] /\ r.snap = task[t].snap
            BY <2>2, FeedAnswerStep
      <3>2. HasRow(r, t)
            BY <1>4, <2>2, <3>1 DEF HasRow, FeedAnswers
      <3> QED BY <1>3, <3>1, <3>2
    <2>3. ASSUME NEW pc \in {"confirm", "mark", "finish"}, Goto(t, pc),
                 task[t].pc \notin {"idle", "read"}
          PROVE  \A u \in Tasks : HasRow(task'[u], u)
      <3> DEFINE r == [task[t] EXCEPT !.pc = pc]
      <3>1. r \in Task /\ r.snap = task[t].snap
            BY <1>0 DEF Task
      <3>2. task' = [task EXCEPT ![t] = r]
            BY <1>0, <2>3 DEF Goto
      <3>3. HasRow(r, t)
            BY <1>4, <2>3, <3>1 DEF HasRow
      <3> QED BY <1>3, <3>1, <3>2, <3>3
    <2>4. CASE Done(t)
      <3>1. HasRow(IdleTask, t)
            BY DEF HasRow, IdleTask
      <3> QED BY <1>3, <2>4, <3>1, IdleTaskType DEF Done
    <2> QED BY <2>1, <2>2, <2>3, <2>4
            DEF TaskStep, ReadRow, Reconcile, Confirm, ClearEvents, MarkFailure, FinishTask
  <1> QED BY <1>1, <1>2, <1>5, ChannelsKept

LEMMA ChannelStep == TypeInv /\ ChannelInv /\ [Next]_vars => ChannelInv'
  <1> USE DEF world, tables, jobs
  <1>1. ASSUME ChannelInv, UNCHANGED row, \A t \in Tasks : HasRow(task'[t], t)
        PROVE  ChannelInv'
    <2>1. \A c \in Calendars : Exists(c)' <=> Exists(c)
          BY <1>1 DEF Exists
    <2> QED BY <1>1, <2>1, ChannelsKept
  <1>2. ASSUME TypeInv, ChannelInv, RetireOthers PROVE ChannelInv'
    <2>1. ASSUME NEW c \in Calendars
          PROVE  /\ Exists(c)' <=> Exists(c)
                 /\ row'[c].channel = row[c].channel
                 /\ row'[c].active => row[c].active
      <3>1. row[c] \in Row
            BY <1>2 DEF TypeInv, TypeOK
      <3>2. row'[c] = row[c] \/ row'[c] = [row[c] EXCEPT !.active = FALSE]
            BY <1>2 DEF RetireOthers
      <3>3. /\ row'[c].status = row[c].status
            /\ row'[c].channel = row[c].channel
            /\ row'[c].active => row[c].active
            BY <3>1, <3>2 DEF Row
      <3> QED BY <3>3 DEF Exists
    <2>3. \A t \in Tasks : HasRow(task'[t], t)
          BY <1>2 DEF RetireOthers, ChannelInv
    <2> QED BY <1>2, <2>1, <2>3, ChannelsKept
  <1>3. ASSUME TypeInv, ChannelInv, NEW t \in Tasks, TaskFault(t) PROVE ChannelInv'
    <2>1. UNCHANGED row
          BY <1>3 DEF TaskFault, FeedUnreachable, StatementFails, TaskRejects
    <2>2. task[t] \in Task /\ task \in [Tasks -> Task]
          BY <1>3 DEF TypeInv, TypeOK
    <2>3. \A u \in Tasks : HasRow(task[u], u)
          BY <1>3 DEF ChannelInv
    <2>4. \/ Done(t)
          \/ task[t].pc \notin {"idle", "read"} /\ \E kind \in {"transport", "dbError"} : Fails(t, kind)
          BY <1>3 DEF TaskFault, FeedUnreachable, StatementFails, TaskRejects
    <2>5. ASSUME NEW r, task' = [task EXCEPT ![t] = r], HasRow(r, t), NEW u \in Tasks
          PROVE  HasRow(task'[u], u)
          BY <2>2, <2>3, <2>5
    <2>6. CASE Done(t)
      <3>1. HasRow(IdleTask, t)
            BY DEF HasRow, IdleTask
      <3> QED BY <1>1, <1>3, <2>1, <2>5, <2>6, <3>1 DEF Done
    <2>7. ASSUME NEW kind \in {"transport", "dbError"}, Fails(t, kind),
                 task[t].pc \notin {"idle", "read"}
          PROVE  ChannelInv'
      <3> DEFINE r == [task[t] EXCEPT !.kind = kind, !.pc = AfterFailure(kind)]
      <3>1. r.snap = task[t].snap
            BY <2>2 DEF Task
      <3>2. task' = [task EXCEPT ![t] = r]
            BY <2>2, <2>7 DEF Fails
      <3>3. HasRow(r, t)
            BY <2>3, <2>7, <3>1 DEF HasRow
      <3> QED BY <1>1, <1>3, <2>1, <2>5, <3>2, <3>3
    <2> QED BY <2>4, <2>6, <2>7
  <1>4. ASSUME ChannelInv, EventsTrigger \/ Crash PROVE ChannelInv'
    <2>1. UNCHANGED row
          BY <1>4 DEF EventsTrigger, Crash
    <2>2. ASSUME NEW t \in Tasks
          PROVE  task'[t].pc \in {"idle", "read"} \/ task'[t] = task[t]
          BY <1>4 DEF EventsTrigger, Crash, IdleTask
    <2>3. ASSUME NEW t \in Tasks PROVE HasRow(task'[t], t)
      <3>1. HasRow(task[t], t)
            BY <1>4 DEF ChannelInv
      <3> QED BY <2>2, <3>1 DEF HasRow
    <2> QED BY <1>1, <1>4, <2>1, <2>3
  <1>5. ASSUME ChannelInv, \/ Tick \/ Publish \/ FeedChanges \/ CatalogTrigger \/ CatalogFetched
                           \/ CatalogFails \/ EventsJobEnds \/ UNCHANGED vars
        PROVE  ChannelInv'
    <2>1. UNCHANGED <<row, task>>
          BY <1>5 DEF Tick, Publish, FeedChanges, CatalogTrigger, CatalogFetched, CatalogFails,
                      EventsJobEnds, vars
    <2> QED BY <1>1, <1>5, <2>1 DEF ChannelInv
  <1> QED BY <1>2, <1>3, <1>4, <1>5, UpsertKeepsChannels, TaskKeepsChannels
          DEF Next, CatalogStep

(* No sequence of catalogues, however they hand channels around, leaves    *)
(* two rows with one channel.                                              *)
THEOREM UniqueChannelHolds == Spec => []UniqueChannel
  <1>1. ChannelInv => UniqueChannel
        BY DEF ChannelInv
  <1> QED BY <1>1, TypeCorrect, ChannelInit, ChannelStep, PTL DEF Spec

(***************************************************************************)
(* The events job implements LastGood.  Where a task stands tells what it  *)
(* has received.                                                           *)
(***************************************************************************)
HasKind(r) == /\ r.pc \in {"idle", "read", "fetch"} => r.kind = "none"
              /\ r.pc = "clear" => r.kind \in Blocking
              /\ r.pc = "reconcile" => r.kind = "body"
KindInv == \A t \in Tasks : HasKind(task[t])

LEMMA KindInit == Init => KindInv
  BY DEF Init, KindInv, HasKind, IdleTask

(* A task action replaces one task.                                        *)
LEMMA KindReplaced ==
  ASSUME TypeInv, KindInv, NEW t \in Tasks, NEW r, task' = [task EXCEPT ![t] = r], HasKind(r)
  PROVE  KindInv'
  <1>1. ASSUME NEW u \in Tasks PROVE HasKind(task'[u])
    <2>1. HasKind(task[u]) /\ task \in [Tasks -> Task]
          BY DEF KindInv, TypeInv, TypeOK
    <2>2. task'[u] = r \/ task'[u] = task[u]
          BY <2>1
    <2> QED BY <2>1, <2>2
  <1> QED BY <1>1 DEF KindInv, HasKind

LEMMA KindTaskStep ==
  ASSUME TypeInv, KindInv, NEW t \in Tasks, TaskStep(t) \/ TaskFault(t)
  PROVE  KindInv'
  <1>0. task[t] \in Task /\ task \in [Tasks -> Task] /\ HasKind(task[t])
        BY DEF TypeInv, TypeOK, KindInv
  <1>1. CASE ReadRow(t) /\ row[Cal(t)].active
    <2> DEFINE r == [task[t] EXCEPT !.pc = "fetch", !.snap = row[Cal(t)], !.day = day]
    <2>1. task' = [task EXCEPT ![t] = r]
          BY <1>0, <1>1 DEF ReadRow
    <2>2. HasKind(r)
          BY <1>0, <1>1 DEF HasKind, ReadRow, Task
    <2> QED BY <2>1, <2>2, KindReplaced
  <1>2. CASE FeedAnswers(t)
    <2>1. PICK r \in Task : /\ task' = [task EXCEPT ![t] = r]
                            /\ r.pc \in {"clear", "mark", "confirm", "reconcile"}
                            /\ r.pc = "clear" => r.kind \in Blocking
                            /\ r.pc = "reconcile" => r.kind = "body"
          BY <1>2, FeedAnswerStep
    <2>2. HasKind(r)
          BY <2>1 DEF HasKind
    <2> QED BY <2>1, <2>2, KindReplaced
  <1>3. ASSUME NEW pc \in {"confirm", "mark", "finish"}, Goto(t, pc)
        PROVE  KindInv'
    <2> DEFINE r == [task[t] EXCEPT !.pc = pc]
    <2>1. task' = [task EXCEPT ![t] = r]
          BY <1>0, <1>3 DEF Goto
    <2>2. HasKind(r)
          BY <1>0 DEF HasKind, Task
    <2> QED BY <2>1, <2>2, KindReplaced
  <1>4. CASE Done(t)
    <2>1. HasKind(IdleTask)
          BY DEF HasKind, IdleTask
    <2> QED BY <1>4, <2>1, KindReplaced DEF Done
  <1>5. ASSUME NEW kind \in {"transport", "dbError"}, Fails(t, kind)
        PROVE  KindInv'
    <2> DEFINE r == [task[t] EXCEPT !.kind = kind, !.pc = AfterFailure(kind)]
    <2>1. task' = [task EXCEPT ![t] = r]
          BY <1>0, <1>5 DEF Fails
    <2>2. HasKind(r)
          BY <1>0 DEF HasKind, Task, AfterFailure, Blocking
    <2> QED BY <2>1, <2>2, KindReplaced
  <1> QED BY <1>1, <1>2, <1>3, <1>4, <1>5
          DEF TaskStep, TaskFault, ReadRow, Reconcile, Confirm, ClearEvents, MarkFailure,
              FinishTask, FeedUnreachable, StatementFails, TaskRejects

LEMMA KindStep == TypeInv /\ KindInv /\ [Next]_vars => KindInv'
  <1>1. ASSUME KindInv, EventsTrigger \/ Crash PROVE KindInv'
    <2>1. ASSUME NEW t \in Tasks PROVE HasKind(task'[t])
      <3>1. HasKind(IdleTask) /\ HasKind([IdleTask EXCEPT !.pc = "read"])
            BY DEF HasKind, IdleTask
      <3>2. \/ task'[t] \in {IdleTask, [IdleTask EXCEPT !.pc = "read"]}
            \/ task'[t] = task[t]
            BY <1>1 DEF EventsTrigger, Crash
      <3>3. HasKind(task[t])
            BY <1>1 DEF KindInv
      <3> QED BY <3>1, <3>2, <3>3
    <2> QED BY <2>1 DEF KindInv, HasKind
  <1>2. ASSUME KindInv, UNCHANGED task PROVE KindInv'
        BY <1>2 DEF KindInv, HasKind
  <1>3. ASSUME \/ Tick \/ Publish \/ FeedChanges \/ CatalogTrigger \/ CatalogStep
               \/ CatalogFails \/ EventsJobEnds \/ UNCHANGED vars
        PROVE  UNCHANGED task
        BY <1>3 DEF Tick, Publish, FeedChanges, CatalogTrigger, CatalogStep, CatalogFetched,
                    UpsertDefinitions, RetireOthers, CatalogFails, EventsJobEnds, vars, jobs
  <1> QED BY <1>1, <1>2, <1>3, KindTaskStep DEF Next

(* Forget: the events stay, and every answer still held was held before.   *)
LEMMA AnswerType ==
  ASSUME NEW r \in Task, r.kind = "body" => r.body \in Bodies
  PROVE  AnswerOf(r) \in LG!Answer
  <1>1. ASSUME r.kind = "body"
        PROVE  KeysOf(Expand(r.body, r.day, r.snap.desc)) \subseteq Keys
        BY <1>1, DataAssumption DEF KeysOf, Expand, Occurrence
  <1>2. AnswerOf(r).present \subseteq Keys
        BY <1>1 DEF AnswerOf
  <1> QED BY <1>2 DEF AnswerOf, LG!Answer

LEMMA AnswersType == TypeInv => Answers \in [Calendars -> SUBSET LG!Answer]
  <1>1. ASSUME TypeInv, NEW t \in Tasks PROVE AnswerOf(task[t]) \in LG!Answer
        BY <1>1, AnswerType DEF TypeInv, TypeOK, TasksHoldData
  <1> QED BY <1>1 DEF Answers

SameAnswer(r, s) == HoldsAnswer(r) => HoldsAnswer(s) /\ AnswerOf(r) = AnswerOf(s)

LEMMA ForgetStep ==
  ASSUME TypeInv, UNCHANGED events, \A t \in Tasks : SameAnswer(task'[t], task[t])
  PROVE  LG!Forget
  <1>1. UNCHANGED KeptKeys
        BY DEF KeptKeys
  <1>2. ASSUME NEW c \in Calendars PROVE Answers'[c] \subseteq Answers[c]
        BY DEF Answers, SameAnswer
  <1>3. Answers' \in [Calendars -> SUBSET LG!Answer]
    <2>1. Answers' = [c \in Calendars |-> Answers'[c]]
          BY DEF Answers
    <2> QED BY <1>2, <2>1, AnswersType
  <1> QED BY <1>1, <1>2, <1>3 DEF LG!Forget

(* Receive: a task gets its answer.                                        *)
LEMMA ReceiveStep ==
  ASSUME TypeInv, UNCHANGED events, NEW t \in Tasks, NEW r \in Task,
         task' = [task EXCEPT ![t] = r], ~HoldsAnswer(task[t]), HoldsAnswer(r),
         r.kind = "body" => r.body \in Bodies
  PROVE  LG!Receive(Cal(t))
  <1> DEFINE c == Cal(t)
             new == [Answers EXCEPT ![c] = @ \cup {AnswerOf(r)}]
  <1>1. /\ task \in [Tasks -> Task] /\ c \in Calendars
        /\ task'[t] = r /\ \A u \in Tasks \ {t} : task'[u] = task[u]
        BY DEF TypeInv, TypeOK, Tasks, Cal
  <1>2. UNCHANGED KeptKeys
        BY DEF KeptKeys
  <1>3. AnswerOf(r) \in LG!Answer
        BY AnswerType
  <1>4. ASSUME NEW d \in Calendars PROVE Answers'[d] = new[d]
    <2>1. Answers[d] = {AnswerOf(task[u]) : u \in {v \in Tasks : Cal(v) = d /\ HoldsAnswer(task[v])}}
          BY DEF Answers
    <2>2. Answers'[d] = {AnswerOf(task'[u]) : u \in {v \in Tasks : Cal(v) = d /\ HoldsAnswer(task'[v])}}
          BY DEF Answers
    <2>3. CASE d = c
      <3>1. new[d] = Answers[d] \cup {AnswerOf(r)}
            BY <2>3 DEF Answers
      <3> QED BY <1>1, <2>1, <2>2, <2>3, <3>1
    <2>4. CASE d # c
      <3>1. new[d] = Answers[d]
            BY <2>4 DEF Answers
      <3> QED BY <1>1, <2>1, <2>2, <2>4, <3>1
    <2> QED BY <2>3, <2>4
  <1>5. Answers' = new
    <2>1. Answers' = [d \in Calendars |-> Answers'[d]] /\ new = [d \in Calendars |-> new[d]]
          BY DEF Answers
    <2> QED BY <1>4, <2>1
  <1>6. AnswerOf(r) \in Answers'[c]
        BY <1>1, <1>5 DEF Answers
  <1> QED BY <1>2, <1>3, <1>5, <1>6 DEF LG!Receive

(* Apply: a task writes what it received.                                  *)
LEMMA ApplyStep ==
  ASSUME TypeInv, NEW t \in Tasks, HoldsAnswer(task[t]), AnswerOf(task[t]).usable,
         NEW pc \in {"confirm", "mark"}, Goto(t, pc),
         NEW evs, events' = [events EXCEPT ![Cal(t)] = evs],
         KeysOf(evs) \subseteq KeysOf(events[Cal(t)]) \cup AnswerOf(task[t]).present,
         AnswerOf(task[t]).present \subseteq KeysOf(evs)
  PROVE  LG!Apply(Cal(t))
  <1> DEFINE c == Cal(t)
             a == AnswerOf(task[t])
  <1>1. /\ task \in [Tasks -> Task] /\ task[t] \in Task /\ c \in Calendars
        /\ events \in [Calendars -> SUBSET Event]
        BY DEF TypeInv, TypeOK, Tasks, Cal
  <1>2. a \in Answers[c]
        BY <1>1 DEF Answers
  <1>3. ASSUME NEW d \in Calendars
        PROVE  KeysOf(events[d])' = IF d = c THEN KeysOf(evs) ELSE KeysOf(events[d])
        BY <1>1 DEF KeysOf
  <1>4. KeptKeys' = [d \in Calendars |-> IF d = c THEN KeysOf(evs) ELSE KeysOf(events[d])]
        BY <1>3 DEF KeptKeys
  <1>5. /\ KeptKeys[c] = KeysOf(events[c]) /\ KeptKeys'[c] = KeysOf(evs)
        /\ KeptKeys' = [KeptKeys EXCEPT ![c] = KeptKeys'[c]]
    <2>1. KeptKeys[c] = KeysOf(events[c]) /\ KeptKeys'[c] = KeysOf(evs)
          BY <1>1, <1>4 DEF KeptKeys
    <2> QED BY <1>1, <1>4, <2>1 DEF KeptKeys
  <1>6. UNCHANGED Answers
    <2>1. ASSUME NEW u \in Tasks
          PROVE  task'[u].kind = task[u].kind /\ task'[u].body = task[u].body
                 /\ task'[u].day = task[u].day /\ task'[u].snap = task[u].snap
          BY <1>1 DEF Goto, Task
    <2>2. ASSUME NEW u \in Tasks
          PROVE  AnswerOf(task'[u]) = AnswerOf(task[u]) /\ (HoldsAnswer(task'[u]) <=> HoldsAnswer(task[u]))
          BY <2>1 DEF AnswerOf, HoldsAnswer
    <2> QED BY <2>2 DEF Answers
  <1> QED BY <1>2, <1>5, <1>6 DEF LG!Apply

LEMMA RefineTaskStep ==
  ASSUME TypeInv, KindInv, NEW t \in Tasks, TaskStep(t) \/ TaskFault(t)
  PROVE  LG!Next
  <1> USE DEF world, tables
  <1>0. /\ task[t] \in Task /\ task \in [Tasks -> Task] /\ HasKind(task[t])
        /\ Cal(t) \in Calendars /\ events \in [Calendars -> SUBSET Event]
        BY DEF TypeInv, TypeOK, KindInv, Tasks, Cal
  <1>1. ASSUME UNCHANGED events, NEW r, task' = [task EXCEPT ![t] = r], SameAnswer(r, task[t])
        PROVE  LG!Next
    <2>1. ASSUME NEW u \in Tasks PROVE SameAnswer(task'[u], task[u])
      <3>1. (task'[u] = r /\ u = t) \/ task'[u] = task[u]
            BY <1>0, <1>1
      <3> QED BY <1>1, <3>1 DEF SameAnswer
    <2> QED BY <1>1, <2>1, ForgetStep DEF LG!Next
  <1>2. CASE ReadRow(t) /\ row[Cal(t)].active
    <2> DEFINE r == [task[t] EXCEPT !.pc = "fetch", !.snap = row[Cal(t)], !.day = day]
    <2>1. task' = [task EXCEPT ![t] = r] /\ UNCHANGED events
          BY <1>0, <1>2 DEF ReadRow
    <2>2. r.kind = "none"
          BY <1>0, <1>2 DEF ReadRow, HasKind, Task
    <2> QED BY <1>1, <2>1, <2>2 DEF SameAnswer, HoldsAnswer
  <1>3. CASE FeedAnswers(t)
    <2>1. PICK r \in Task : /\ task' = [task EXCEPT ![t] = r]
                            /\ HoldsAnswer(r)
                            /\ r.pc = "reconcile" \/ r.kind = "body" => r.body \in Bodies
          BY <1>3, FeedAnswerStep
    <2>2. UNCHANGED events /\ ~HoldsAnswer(task[t])
          BY <1>0, <1>3 DEF FeedAnswers, HoldsAnswer, HasKind
    <2> QED BY <1>0, <2>1, <2>2, ReceiveStep DEF LG!Next
  <1>4. CASE FeedUnreachable(t)
    <2> DEFINE r == [task[t] EXCEPT !.kind = "transport", !.pc = AfterFailure("transport")]
    <2>1. task' = [task EXCEPT ![t] = r] /\ UNCHANGED events
          BY <1>0, <1>4 DEF FeedUnreachable, Fails
    <2>2. r \in Task /\ r.kind = "transport"
          BY <1>0 DEF Task, Kind, AfterFailure
    <2>3. HoldsAnswer(r) /\ ~HoldsAnswer(task[t])
          BY <1>0, <1>4, <2>2 DEF FeedUnreachable, HoldsAnswer, HasKind
    <2> QED BY <1>0, <2>1, <2>2, <2>3, ReceiveStep DEF LG!Next
  <1>5. CASE Reconcile(t)
    <2> DEFINE c == Cal(t)
               new == Parsed(t)
               kept == {e \in events[c] :
                          /\ e.key \notin KeysOf(new)
                          /\ ~ (From(task[t].day) <= e.start /\ e.start <= To(task[t].day))}
    <2>1. task[t].kind = "body" /\ Goto(t, "confirm") /\ events' = [events EXCEPT ![c] = kept \cup new]
          BY <1>0, <1>5 DEF Reconcile, HasKind
    <2>2. HoldsAnswer(task[t]) /\ AnswerOf(task[t]).usable /\ AnswerOf(task[t]).present = KeysOf(new)
          BY <2>1 DEF HoldsAnswer, AnswerOf, Parsed
    <2>3. KeysOf(kept \cup new) \subseteq KeysOf(events[c]) \cup KeysOf(new)
          BY DEF KeysOf
    <2>4. KeysOf(new) \subseteq KeysOf(kept \cup new)
          BY DEF KeysOf
    <2>5. LG!Apply(c)
      <3> HIDE DEF new, kept
      <3> QED BY <2>1, <2>2, <2>3, <2>4, ApplyStep
    <2> QED BY <1>0, <2>5 DEF LG!Next
  <1>6. CASE ClearEvents(t)
    <2>1. task[t].kind \in Blocking /\ Goto(t, "mark") /\ events' = [events EXCEPT ![Cal(t)] = {}]
          BY <1>0, <1>6 DEF ClearEvents, HasKind
    <2>2. HoldsAnswer(task[t]) /\ AnswerOf(task[t]).usable /\ AnswerOf(task[t]).present = {}
          BY <2>1 DEF HoldsAnswer, AnswerOf, Blocking
    <2>3. KeysOf({}) = {}
          BY DEF KeysOf
    <2>4. LG!Apply(Cal(t))
          BY <2>1, <2>2, <2>3, ApplyStep
    <2> QED BY <1>0, <2>4 DEF LG!Next
  <1>7. ASSUME UNCHANGED events, NEW pc, Goto(t, pc) PROVE LG!Next
    <2> DEFINE r == [task[t] EXCEPT !.pc = pc]
    <2>1. task' = [task EXCEPT ![t] = r]
          BY <1>0, <1>7 DEF Goto
    <2>2. r.kind = task[t].kind /\ r.body = task[t].body /\ r.day = task[t].day /\ r.snap = task[t].snap
          BY <1>0 DEF Task
    <2>3. SameAnswer(r, task[t])
          BY <2>2 DEF SameAnswer, HoldsAnswer, AnswerOf
    <2> QED BY <1>1, <1>7, <2>1, <2>3
  <1>8. ASSUME UNCHANGED events, Done(t) PROVE LG!Next
    <2>1. SameAnswer(IdleTask, task[t])
          BY DEF SameAnswer, HoldsAnswer, IdleTask
    <2> QED BY <1>1, <1>8, <2>1 DEF Done
  <1>9. ASSUME UNCHANGED events, Fails(t, "dbError") PROVE LG!Next
    <2> DEFINE r == [task[t] EXCEPT !.kind = "dbError", !.pc = AfterFailure("dbError")]
    <2>1. task' = [task EXCEPT ![t] = r]
          BY <1>0, <1>9 DEF Fails
    <2>2. r.kind = "dbError"
          BY <1>0 DEF Task
    <2>3. SameAnswer(r, task[t])
          BY <2>2 DEF SameAnswer, HoldsAnswer
    <2> QED BY <1>1, <1>9, <2>1, <2>3
  <1>10. CASE Confirm(t) \/ MarkFailure(t)
         BY <1>7, <1>10 DEF Confirm, MarkFailure
  <1>11. CASE FinishTask(t) \/ TaskRejects(t) \/ (ReadRow(t) /\ ~row[Cal(t)].active)
         BY <1>8, <1>11 DEF FinishTask, TaskRejects, ReadRow
  <1>12. CASE StatementFails(t)
         BY <1>9, <1>12 DEF StatementFails
  <1> QED BY <1>2, <1>3, <1>4, <1>5, <1>6, <1>10, <1>11, <1>12 DEF TaskStep, TaskFault

LEMMA RefineStep == TypeInv /\ KindInv /\ [Next]_vars => [LG!Next]_(LG!vars)
  <1> USE DEF world, tables, jobs
  <1>1. ASSUME TypeInv, EventsTrigger \/ Crash PROVE LG!Next
    <2>1. UNCHANGED events
          BY <1>1 DEF EventsTrigger, Crash
    <2>2. ASSUME NEW t \in Tasks PROVE SameAnswer(task'[t], task[t])
      <3>1. task'[t] \in {IdleTask, [IdleTask EXCEPT !.pc = "read"]} \/ task'[t] = task[t]
            BY <1>1 DEF EventsTrigger, Crash
      <3> QED BY <3>1 DEF SameAnswer, HoldsAnswer, IdleTask
    <2> QED BY <1>1, <2>1, <2>2, ForgetStep DEF LG!Next
  <1>2. ASSUME UNCHANGED <<events, task>> PROVE UNCHANGED LG!vars
        BY <1>2 DEF LG!vars, KeptKeys, Answers
  <1>3. ASSUME \/ Tick \/ Publish \/ FeedChanges \/ CatalogTrigger \/ CatalogStep
               \/ CatalogFails \/ EventsJobEnds \/ UNCHANGED vars
        PROVE  UNCHANGED <<events, task>>
        BY <1>3 DEF Tick, Publish, FeedChanges, CatalogTrigger, CatalogStep, CatalogFetched,
                    UpsertDefinitions, RetireOthers, CatalogFails, EventsJobEnds, vars
  <1> QED BY <1>1, <1>2, <1>3, RefineTaskStep DEF Next

LEMMA RefineInit == Init => LG!Init
  <1> SUFFICES ASSUME Init PROVE LG!Init
      OBVIOUS
  <1>1. KeptKeys = [c \in Calendars |-> {}]
        BY DEF Init, KeptKeys, KeysOf
  <1>2. Answers = [c \in Calendars |-> {}]
        BY DEF Init, Answers, HoldsAnswer, IdleTask
  <1> QED BY <1>1, <1>2 DEF LG!Init

(* The events job implements LastGood: with any number of calendars, feeds *)
(* and overlapping tasks, an event leaves the store only on the strength   *)
(* of a usable answer that does not list it, and none appears that no      *)
(* answer listed.                                                          *)
THEOREM LastGoodHolds == Spec => LastGoodKept
  <1> QED BY TypeCorrect, KindInit, KindStep, RefineInit, RefineStep, PTL
          DEF Spec, LastGoodKept, LG!Spec
=============================================================================
