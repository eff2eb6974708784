-------------------------- MODULE TimetableProofs --------------------------
(***************************************************************************)
(* Proofs about Timetable, for any classes, lessons, school years, plans   *)
(* and bounds.                                                             *)
(*                                                                         *)
(* The inductive invariant is TypeInv: TypeOK and what the two jobs hold   *)
(* at each phase (JobsHold).  TypeOK needs JobsHold because the lessons    *)
(* written, and the classes they are linked to, come from the job;         *)
(* LessonsAttended needs it because a lesson without a class is cleaned up *)
(* by the run that stores it only if it lies in the window of that run;    *)
(* LastGood needs it because what is applied must not be empty.            *)
(***************************************************************************)
EXTENDS Timetable, TLAPS

(* What the jobs hold: the lessons collected have a title and lie in the   *)
(* window, the classes known have rows, what is to be applied is not empty.*)
GotSound == \A l \in Lessons : entryJob.got[l] # None =>
                /\ entryJob.got[l] \in Listed
                /\ entryJob.got[l].content \in Contents
                /\ entryJob.got[l].date \in Window(entryJob.day)
KnownSound == \A c \in entryJob.known : group[c] # "unknown"
WriteSound == entryJob.pc \in {"write", "finish"} => Kept # {}
SeenSound == groupJob.pc \in {"upsert", "retire", "finish"} => groupJob.seen # {}
JobsHold == GotSound /\ KnownSound /\ WriteSound /\ SeenSound

TypeInv == TypeOK /\ JobsHold

(* The tables, with the foreign keys of the links.                         *)
GroupType == group \in [Classes -> {"unknown", "active", "inactive"}]
TablesType ==
    /\ contexts \subseteq Years
    /\ GroupType
    /\ entry \in [Lessons -> Entry \cup {None}]
    /\ links \subseteq Links
    /\ \A l \in Lessons, c \in Classes :
          <<l, c>> \in links => entry[l] # None /\ group[c] # "unknown"
WorldType == day \in Days /\ plan \in Plans /\ offered \in Catalogues
CountersType == edits \in 0 .. MaxEdits /\ faults \in 0 .. MaxFaults

LEMMA TypeInvParts ==
  TypeInv <=> /\ WorldType /\ TablesType /\ CountersType /\ JobsHold
              /\ groupJob \in GroupJob /\ entryJob \in EntryJob
  BY DEF TypeInv, TypeOK, WorldType, TablesType, GroupType, CountersType

LEMMA FaultType == CountersType /\ Fault /\ edits' = edits => CountersType'
  BY BoundsAssumption DEF CountersType, Fault

LEMMA IdleTypes ==
  /\ IdleGroups \in GroupJob /\ IdleEntries \in EntryJob
  /\ IdleGroups.pc = "idle" /\ IdleEntries.pc = "idle"
  /\ \A l \in Lessons : IdleEntries.got[l] = None
  /\ IdleEntries.known = {}
  BY BoundsAssumption DEF IdleGroups, GroupJob, IdleEntries, EntryJob, Nothing, Days

LEMMA OfferedType ==
  ASSUME WorldType, NEW y \in Years, offered[y] # None
  PROVE  offered[y] \subseteq Classes
  BY DataAssumption DEF WorldType

LEMMA ListedType ==
  ASSUME WorldType, NEW l \in Lessons, plan[l] # None
  PROVE  plan[l] \in Listed
  BY DataAssumption DEF WorldType

(***************************************************************************)
(* The initial state                                                       *)
(***************************************************************************)
LEMMA TypeInit == Init => TypeInv
  <1> SUFFICES ASSUME Init PROVE TypeInv
      OBVIOUS
  <1>1. WorldType /\ CountersType
        BY BoundsAssumption DEF Init, WorldType, CountersType, Days
  <1>2. TablesType
        BY DEF Init, TablesType, GroupType
  <1>3. JobsHold
        BY IdleTypes DEF Init, JobsHold, GotSound, KnownSound, WriteSound, SeenSound
  <1> QED BY <1>1, <1>2, <1>3, IdleTypes, TypeInvParts DEF Init

(***************************************************************************)
(* The world changes; a job fails or the worker dies                       *)
(***************************************************************************)
LEMMA JobsStay ==
  ASSUME JobsHold, UNCHANGED <<group, groupJob, entryJob>>
  PROVE  JobsHold'
  BY DEF JobsHold, GotSound, KnownSound, WriteSound, SeenSound, Kept, Window, From, To

LEMMA TypeWorld == TypeInv /\ (Tick \/ PlanChanges \/ CatalogueChanges) => TypeInv'
  <1> SUFFICES ASSUME TypeInv, Tick \/ PlanChanges \/ CatalogueChanges PROVE TypeInv'
      OBVIOUS
  <1> USE TypeInvParts DEF world, tables
  <1>1. WorldType'
        BY BoundsAssumption DEF Tick, PlanChanges, CatalogueChanges, WorldType, Days
  <1>2. CountersType'
        BY BoundsAssumption DEF Tick, PlanChanges, CatalogueChanges, CountersType
  <1>3. /\ UNCHANGED <<contexts, group, entry, links, groupJob, entryJob>>
        BY DEF Tick, PlanChanges, CatalogueChanges
  <1>4. TablesType'
        BY <1>3 DEF TablesType, GroupType
  <1>5. JobsHold'
        BY <1>3, JobsStay
  <1> QED BY <1>1, <1>2, <1>3, <1>4, <1>5 DEF TypeInv, TypeOK, WorldType, TablesType, GroupType, CountersType

LEMMA TypeFail == TypeInv /\ (GroupsFail \/ EntriesFail \/ Crash) => TypeInv'
  <1> SUFFICES ASSUME TypeInv, GroupsFail \/ EntriesFail \/ Crash PROVE TypeInv'
      OBVIOUS
  <1> USE TypeInvParts DEF world, tables
  <1>1. /\ UNCHANGED <<world, tables, edits>> /\ Fault
        /\ groupJob' \in {groupJob, IdleGroups} /\ entryJob' \in {entryJob, IdleEntries}
        BY DEF GroupsFail, EntriesFail, Crash
  <1>2. WorldType' /\ TablesType'
        BY <1>1 DEF WorldType, TablesType, GroupType
  <1>3. CountersType'
        BY <1>1, FaultType
  <1>4. JobsHold'
    <2>1. GotSound' /\ KnownSound' /\ WriteSound'
      <3>1. CASE entryJob' = entryJob
            BY <1>1, <3>1 DEF JobsHold, GotSound, KnownSound, WriteSound, Kept, Window, From, To
      <3>2. CASE entryJob' = IdleEntries
            BY <3>2, IdleTypes DEF GotSound, KnownSound, WriteSound
      <3> QED BY <1>1, <3>1, <3>2
    <2>2. SeenSound'
          BY <1>1, IdleTypes DEF JobsHold, SeenSound
    <2> QED BY <2>1, <2>2 DEF JobsHold
  <1>5. groupJob' \in GroupJob /\ entryJob' \in EntryJob
        BY <1>1, IdleTypes
  <1> QED BY <1>1, <1>2, <1>3, <1>4, <1>5 DEF TypeInv, TypeOK, WorldType, TablesType, GroupType, CountersType

(***************************************************************************)
(* The group job                                                           *)
(***************************************************************************)
(* The part of TypeInv that the group job leaves alone when it does not    *)
(* write the classes.                                                      *)
LEMMA GroupRecordOnly ==
  ASSUME TypeInv, UNCHANGED <<world, group, entry, links, entryJob, edits, faults>>,
         contexts' \subseteq Years, groupJob' \in GroupJob, SeenSound'
  PROVE  TypeInv'
  <1> USE TypeInvParts DEF world
  <1>1. WorldType' /\ TablesType' /\ CountersType'
        BY DEF WorldType, TablesType, GroupType, CountersType
  <1>2. GotSound' /\ KnownSound' /\ WriteSound'
        BY DEF JobsHold, GotSound, KnownSound, WriteSound, Kept, Window, From, To
  <1> QED BY <1>1, <1>2 DEF JobsHold, TypeInv, TypeOK, WorldType, TablesType, GroupType, CountersType

LEMMA TypeGroupSteps == TypeInv /\ GroupSteps => TypeInv'
  <1> SUFFICES ASSUME TypeInv, GroupSteps PROVE TypeInv'
      OBVIOUS
  <1> USE TypeInvParts
  <1>0. /\ groupJob \in GroupJob /\ WorldType /\ TablesType /\ JobsHold
        /\ contexts \subseteq Years /\ Covering(day) \subseteq Years
        BY DEF TablesType, Covering
  <1>1. CASE GroupsTrigger \/ YearsFetched \/ GroupsStart \/ FinishGroups
    <2>1. UNCHANGED <<world, contexts, group, entry, links, entryJob, edits, faults>>
          BY <1>1 DEF GroupsTrigger, YearsFetched, GroupsStart, FinishGroups, tables
    <2>2. groupJob' \in GroupJob /\ SeenSound'
          BY <1>0, <1>1, IdleTypes DEF GroupsTrigger, YearsFetched, GroupsStart, FinishGroups,
                                       GroupJob, SeenSound, Published
    <2> QED BY <1>0, <2>1, <2>2, GroupRecordOnly
  <1>2. CASE StoreYear
    <2>1. UNCHANGED <<world, group, entry, links, entryJob, edits, faults>>
          BY <1>2 DEF StoreYear
    <2>2. PICK y \in groupJob.todo : /\ contexts' = contexts \cup {y}
                                     /\ groupJob' = [groupJob EXCEPT !.todo = @ \ {y}]
          BY <1>2 DEF StoreYear
    <2>3. groupJob' \in GroupJob /\ SeenSound' /\ contexts' \subseteq Years
          BY <1>0, <1>2, <2>2 DEF StoreYear, GroupJob, SeenSound
    <2> QED BY <2>1, <2>3, GroupRecordOnly
  <1>3. CASE ClassesFetched
    <2>1. UNCHANGED <<world, contexts, group, entry, links, entryJob, edits, faults>>
          BY <1>3 DEF ClassesFetched, tables
    <2>2. PICK y \in Earliest(groupJob.todo) :
             groupJob' = IF offered[y] = None THEN IdleGroups
                         ELSE [groupJob EXCEPT !.todo = @ \ {y}, !.seen = @ \cup offered[y]]
          BY <1>3 DEF ClassesFetched
    <2>3. y \in Years
          BY <1>0 DEF Earliest, GroupJob
    <2>4. CASE offered[y] = None
          BY <1>0, <2>1, <2>2, <2>4, IdleTypes, GroupRecordOnly DEF SeenSound
    <2>5. CASE offered[y] # None
      <3>1. offered[y] \subseteq Classes
            BY <1>0, <2>3, <2>5, OfferedType
      <3>2. groupJob' \in GroupJob /\ groupJob'.pc = "classes"
            BY <1>0, <1>3, <2>2, <2>5, <3>1 DEF ClassesFetched, GroupJob
      <3> QED BY <1>0, <2>1, <3>2, GroupRecordOnly DEF SeenSound
    <2> QED BY <2>4, <2>5
  <1>4. CASE CatalogueComplete
    <2>1. UNCHANGED <<world, contexts, group, entry, links, entryJob, edits, faults>>
          BY <1>4 DEF CatalogueComplete, tables
    <2>2. groupJob' \in GroupJob /\ SeenSound'
          BY <1>0, <1>4, IdleTypes DEF CatalogueComplete, CatalogueUsable, GroupJob, SeenSound
    <2> QED BY <1>0, <2>1, <2>2, GroupRecordOnly
  <1>5. CASE UpsertGroups \/ RetireGroups
    <2>1. UNCHANGED <<world, contexts, entry, links, entryJob, edits, faults>>
          BY <1>5 DEF UpsertGroups, RetireGroups
    <2>2. GroupType' /\ \A c \in Classes : group[c] # "unknown" => group'[c] # "unknown"
          BY <1>0, <1>5 DEF UpsertGroups, RetireGroups, Upserted, TablesType, GroupType
    <2>3. TablesType'
          BY <1>0, <2>1, <2>2 DEF TablesType
    <2>4. groupJob' \in GroupJob /\ SeenSound'
          BY <1>0, <1>5 DEF UpsertGroups, RetireGroups, GroupJob, JobsHold, SeenSound
    <2>5. GotSound' /\ WriteSound'
          BY <1>0, <2>1 DEF JobsHold, GotSound, WriteSound, Kept, Window, From, To
    <2>6. KnownSound'
      <3>1. entryJob.known \subseteq Classes
            BY DEF EntryJob
      <3> QED BY <1>0, <2>1, <2>2, <3>1 DEF JobsHold, KnownSound
    <2>7. WorldType' /\ CountersType'
          BY <2>1 DEF WorldType, CountersType, world
    <2>8. entryJob' \in EntryJob
          BY <2>1
    <2> QED BY <2>3, <2>4, <2>5, <2>6, <2>7, <2>8
            DEF JobsHold, TypeInv, TypeOK, WorldType, TablesType, GroupType, CountersType
  <1> QED BY <1>1, <1>2, <1>3, <1>4, <1>5 DEF GroupSteps

(***************************************************************************)
(* The entry job                                                           *)
(***************************************************************************)
LEMMA EntryRecordOnly ==
  ASSUME TypeInv, UNCHANGED <<world, tables, groupJob, edits, faults>>,
         entryJob' \in EntryJob, GotSound', KnownSound', WriteSound'
  PROVE  TypeInv'
  <1> USE TypeInvParts DEF world, tables
  <1>1. WorldType' /\ TablesType' /\ CountersType' /\ SeenSound' /\ groupJob' \in GroupJob
        BY DEF WorldType, TablesType, GroupType, CountersType, JobsHold, SeenSound
  <1> QED BY <1>1 DEF JobsHold, TypeInv, TypeOK, WorldType, TablesType, GroupType, CountersType

LEMMA EntryIdle ==
  ASSUME TypeInv, UNCHANGED <<world, tables, groupJob, edits, faults>>, entryJob' = IdleEntries
  PROVE  TypeInv'
  <1>1. GotSound' /\ KnownSound' /\ WriteSound'
        BY IdleTypes DEF GotSound, KnownSound, WriteSound
  <1> QED BY <1>1, IdleTypes, EntryRecordOnly

(* A lesson that is answered for a class is collected as it is listed, or  *)
(* gains a class.                                                          *)
LEMMA MergedType ==
  ASSUME TypeInv, NEW c \in Classes, NEW y,
         NEW l \in Answered(c, Clip(entryJob.day, y))
  PROVE  /\ Merged(entryJob.got, l, c) \in Listed
         /\ Merged(entryJob.got, l, c).content \in Contents
         /\ Merged(entryJob.got, l, c).date \in Window(entryJob.day)
  <1>1. /\ l \in Lessons /\ plan[l] # None /\ plan[l].content # None
        /\ plan[l].date \in Window(entryJob.day)
        BY DEF Answered, Clip
  <1>2. plan[l] \in Listed
        BY <1>1, TypeInvParts, ListedType
  <1>3. CASE entryJob.got[l] = None
        BY <1>1, <1>2, <1>3 DEF Merged, Listed
  <1>4. CASE entryJob.got[l] # None
    <2>1. /\ entryJob.got[l] \in Listed /\ entryJob.got[l].content \in Contents
          /\ entryJob.got[l].date \in Window(entryJob.day)
          BY <1>1, <1>4, TypeInvParts DEF JobsHold, GotSound
    <2> QED BY <1>4, <2>1 DEF Merged, Listed
  <1> QED BY <1>3, <1>4

LEMMA TypeEntriesFetched == TypeInv /\ EntriesFetched => TypeInv'
  <1> SUFFICES ASSUME TypeInv, EntriesFetched PROVE TypeInv'
      OBVIOUS
  <1>1. PICK c \in entryJob.left :
           LET new == Answered(c, Clip(entryJob.day, entryJob.year))
           IN  entryJob' = [entryJob EXCEPT
                   !.pc = IF entryJob.left # {c} THEN @
                          ELSE IF entryJob.todo = {} THEN "groups" ELSE "years",
                   !.left = @ \ {c},
                   !.got = [l \in Lessons |-> IF l \in new THEN Merged(entryJob.got, l, c)
                                              ELSE entryJob.got[l]]]
        BY DEF EntriesFetched
  <1> DEFINE new == Answered(c, Clip(entryJob.day, entryJob.year))
             got == [l \in Lessons |-> IF l \in new THEN Merged(entryJob.got, l, c)
                                       ELSE entryJob.got[l]]
  <1>2. /\ entryJob \in EntryJob /\ GotSound /\ KnownSound /\ c \in Classes
        /\ entryJob.pc = "classes"
        BY <1>1, TypeInvParts DEF EntriesFetched, JobsHold, EntryJob
  <1>3. \A l \in new : /\ Merged(entryJob.got, l, c) \in Listed
                       /\ Merged(entryJob.got, l, c).content \in Contents
                       /\ Merged(entryJob.got, l, c).date \in Window(entryJob.day)
        BY <1>2, MergedType
  <1>4. \A l \in Lessons : got[l] # None => /\ got[l] \in Listed
                                            /\ got[l].content \in Contents
                                            /\ got[l].date \in Window(entryJob.day)
        BY <1>2, <1>3 DEF GotSound
  <1>5. /\ entryJob'.got = got /\ entryJob'.day = entryJob.day
        /\ entryJob'.known = entryJob.known /\ entryJob'.pc \in {"classes", "groups", "years"}
        BY <1>1, <1>2 DEF EntryJob
  <1>6. got \in [Lessons -> Listed \cup {None}]
        BY <1>4
  <1>7. entryJob' \in EntryJob
    <2> HIDE DEF got, new
    <2> QED BY <1>1, <1>2, <1>5, <1>6 DEF EntryJob, got, new
  <1>8. GotSound'
        BY <1>4, <1>5 DEF GotSound, Window, From, To
  <1>9. KnownSound' /\ WriteSound'
        BY <1>2, <1>5 DEF EntriesFetched, tables, KnownSound, WriteSound
  <1> QED BY <1>7, <1>8, <1>9, EntryRecordOnly DEF EntriesFetched

LEMMA TypeWriteEntries == TypeInv /\ WriteEntries => TypeInv'
  <1> SUFFICES ASSUME TypeInv, WriteEntries PROVE TypeInv'
      OBVIOUS
  <1>1. /\ entryJob \in EntryJob /\ JobsHold /\ TablesType /\ entryJob.pc = "write"
        BY TypeInvParts DEF WriteEntries
  <1>2. /\ links' = NewLinks /\ entry' = [l \in Lessons |-> NewEntry(l)]
        /\ UNCHANGED <<world, contexts, group, groupJob, edits, faults>>
        BY DEF WriteEntries
  <1>3. /\ entryJob' \in EntryJob /\ entryJob'.got = entryJob.got /\ entryJob'.day = entryJob.day
        /\ entryJob'.known = entryJob.known
        BY <1>1 DEF WriteEntries, EntryJob
  <1>4. JobsHold'
        BY <1>1, <1>2, <1>3 DEF JobsHold, GotSound, KnownSound, WriteSound, SeenSound, Kept,
                                Window, From, To
  <1>5. ASSUME NEW l \in Lessons PROVE Written(l) \in Entry \cup {None} /\ (l \in Kept => Written(l) # None)
    <2>1. CASE l \in Kept
      <3>1. entryJob.got[l] \in Listed /\ entryJob.got[l].content \in Contents
            BY <1>1, <2>1 DEF JobsHold, GotSound, Kept
      <3>2. Written(l) \in Entry
            BY <2>1, <3>1 DEF Written, Entry, Listed
      <3> QED BY <3>2, DataAssumption
    <2>2. CASE l \notin Kept
          BY <1>1, <2>2 DEF Written, TablesType
    <2> QED BY <2>1, <2>2
  <1>6. entry' \in [Lessons -> Entry \cup {None}]
        BY <1>2, <1>5 DEF NewEntry
  <1>7. links' \subseteq Links
        BY <1>1, <1>2 DEF NewLinks, Attached, TablesType
  <1>8. ASSUME NEW l \in Lessons, NEW c \in Classes, <<l, c>> \in links'
        PROVE  entry'[l] # None /\ group'[c] # "unknown"
    <2>1. ~Orphaned(l)
          BY <1>2, <1>8 DEF Orphaned
    <2>2. entry'[l] = Written(l)
          BY <1>2, <2>1 DEF NewEntry
    <2>3. CASE <<l, c>> \in Attached
      <3>1. l \in Kept /\ c \in entryJob.known
            BY <2>3 DEF Attached
      <3> QED BY <1>1, <1>2, <1>5, <2>2, <3>1 DEF JobsHold, KnownSound
    <2>4. CASE <<l, c>> \in links
      <3>1. entry[l] # None /\ group[c] # "unknown"
            BY <1>1, <2>4 DEF TablesType
      <3>2. Written(l) # None
            BY <1>5, <3>1 DEF Written
      <3> QED BY <1>2, <2>2, <3>1, <3>2
    <2> QED BY <1>2, <1>8, <2>3, <2>4 DEF NewLinks
  <1>9. TablesType'
        BY <1>1, <1>2, <1>6, <1>7, <1>8 DEF TablesType, GroupType
  <1>10. WorldType' /\ CountersType' /\ groupJob' \in GroupJob
         BY <1>2, TypeInvParts DEF WorldType, CountersType, world
  <1> QED BY <1>3, <1>4, <1>9, <1>10
          DEF TypeInv, TypeOK, WorldType, TablesType, GroupType, CountersType

LEMMA TypeEntrySteps == TypeInv /\ EntrySteps => TypeInv'
  <1> SUFFICES ASSUME TypeInv, EntrySteps PROVE TypeInv'
      OBVIOUS
  <1>0. /\ entryJob \in EntryJob /\ WorldType /\ JobsHold /\ Covering(day) \subseteq Years
        BY TypeInvParts DEF TablesType, Covering
  <1>1. CASE EntriesTrigger
    <2>1. /\ entryJob' \in EntryJob /\ entryJob'.got = Nothing
          /\ entryJob'.known = {} /\ entryJob'.pc = "years"
          BY <1>0, <1>1, IdleTypes DEF EntriesTrigger, IdleEntries, EntryJob, WorldType
    <2>2. GotSound' /\ KnownSound' /\ WriteSound'
          BY <2>1 DEF GotSound, KnownSound, WriteSound, Nothing
    <2> QED BY <1>1, <2>1, <2>2, EntryRecordOnly DEF EntriesTrigger
  <1>2. CASE YearOpened
    <2>1. PICK y \in Earliest(entryJob.todo) :
             entryJob' = IF offered[y] \in {None, {}} THEN IdleEntries
                         ELSE [entryJob EXCEPT !.pc = "classes", !.todo = @ \ {y}, !.year = y,
                                               !.left = offered[y], !.asked = @ \cup offered[y]]
          BY <1>2 DEF YearOpened
    <2>2. CASE offered[y] \in {None, {}}
          BY <1>2, <2>1, <2>2, EntryIdle DEF YearOpened
    <2>3. CASE offered[y] \notin {None, {}}
      <3>1. y \in Years
            BY <1>0 DEF Earliest, EntryJob
      <3>2. offered[y] \subseteq Classes
            BY <1>0, <2>3, <3>1, OfferedType
      <3>3. /\ entryJob' \in EntryJob /\ entryJob'.got = entryJob.got
            /\ entryJob'.day = entryJob.day /\ entryJob'.known = entryJob.known
            /\ entryJob'.pc = "classes"
            BY <1>0, <2>1, <2>3, <3>1, <3>2 DEF EntryJob
      <3>4. GotSound' /\ KnownSound' /\ WriteSound'
            BY <1>0, <1>2, <3>3 DEF YearOpened, tables, JobsHold, GotSound, KnownSound, WriteSound,
                                    Window, From, To
      <3> QED BY <1>2, <3>3, <3>4, EntryRecordOnly DEF YearOpened
    <2> QED BY <2>2, <2>3
  <1>3. CASE WindowComplete
    <2>1. CASE Kept = {}
          BY <1>3, <2>1, EntryIdle DEF WindowComplete, WindowUsable
    <2>2. CASE Kept # {}
      <3>1. /\ entryJob' \in EntryJob /\ entryJob'.got = entryJob.got
            /\ entryJob'.day = entryJob.day
            /\ entryJob'.known = {c \in entryJob.asked : group[c] # "unknown"}
            BY <1>0, <1>3, <2>2 DEF WindowComplete, WindowUsable, EntryJob
      <3>2. GotSound' /\ KnownSound' /\ WriteSound'
            BY <1>0, <1>3, <2>2, <3>1 DEF WindowComplete, tables, JobsHold, GotSound, KnownSound,
                                          WriteSound, Kept, Window, From, To
      <3> QED BY <1>3, <3>1, <3>2, EntryRecordOnly DEF WindowComplete
    <2> QED BY <2>1, <2>2
  <1>4. CASE FinishEntries
        BY <1>4, EntryIdle DEF FinishEntries
  <1> QED BY <1>1, <1>2, <1>3, <1>4, TypeEntriesFetched, TypeWriteEntries DEF EntrySteps

(***************************************************************************)
(* The inductive invariant                                                 *)
(***************************************************************************)
LEMMA TypeStep == TypeInv /\ [Next]_vars => TypeInv'
  <1>1. TypeInv /\ UNCHANGED vars => TypeInv'
    <2> SUFFICES ASSUME TypeInv, UNCHANGED vars PROVE TypeInv'
        OBVIOUS
    <2>1. SeenSound'
          BY TypeInvParts DEF vars, JobsHold, SeenSound
    <2> QED BY <2>1, TypeInvParts, GroupRecordOnly DEF vars, world, TablesType
  <1> QED BY <1>1, TypeWorld, TypeFail, TypeGroupSteps, TypeEntrySteps DEF Next

(* TypeInv is an inductive invariant of the two jobs.                      *)
THEOREM TypeCorrect == Spec => []TypeInv
  <1> QED BY TypeInit, TypeStep, PTL DEF Spec

(* Type correctness: the tables respect their foreign keys, whatever the   *)
(* order of the jobs' requests and statements.                             *)
THEOREM TypeOKHolds == Spec => []TypeOK
  <1>1. TypeInv => TypeOK
        BY DEF TypeInv
  <1> QED BY <1>1, TypeCorrect, PTL

(***************************************************************************)
(* LessonsAttended                                                         *)
(***************************************************************************)
LEMMA AttendedStep == TypeInv /\ LessonsAttended /\ [Next]_vars => LessonsAttended'
  <1> SUFFICES ASSUME TypeInv, LessonsAttended, [Next]_vars PROVE LessonsAttended'
      OBVIOUS
  <1>1. CASE UNCHANGED <<entry, links>>
        BY <1>1 DEF LessonsAttended
  <1>2. CASE WriteEntries
    <2> SUFFICES ASSUME NEW l \in Lessons, entry'[l] # None
                 PROVE  \E c \in Classes : <<l, c>> \in links'
        BY DEF LessonsAttended
    <2>1. links' = NewLinks /\ entry'[l] = NewEntry(l)
          BY <1>2 DEF WriteEntries
    <2>2. CASE ~Orphaned(l)
          BY <2>1, <2>2 DEF Orphaned
    <2>3. CASE Orphaned(l)
      <3>1. Written(l) # None /\ ~InWindow(Written(l))
            BY <2>1, <2>3 DEF NewEntry
      <3>2. l \notin Kept
        <4> SUFFICES ASSUME l \in Kept PROVE InWindow(Written(l))
            BY <3>1
        <4>1. entryJob.got[l].date \in Window(entryJob.day)
              BY TypeInvParts DEF JobsHold, GotSound, Kept
        <4> QED BY <3>1, <4>1 DEF Written, InWindow
      <3>3. entry[l] # None /\ ~InWindow(entry[l])
            BY <3>1, <3>2 DEF Written
      <3>4. PICK c \in Classes : <<l, c>> \in links
            BY <3>3 DEF LessonsAttended
      <3>5. <<l, c>> \notin Withdrawn
            BY <3>3 DEF Withdrawn
      <3> QED BY <2>1, <3>4, <3>5 DEF NewLinks
    <2> QED BY <2>2, <2>3
  <1>3. [Next]_vars => UNCHANGED <<entry, links>> \/ WriteEntries
        BY DEF Next, GroupSteps, EntrySteps, Tick, PlanChanges, CatalogueChanges, GroupsTrigger,
               YearsFetched, StoreYear, GroupsStart, ClassesFetched, CatalogueComplete, UpsertGroups,
               RetireGroups, FinishGroups, GroupsFail, EntriesTrigger, YearOpened, EntriesFetched,
               WindowComplete, FinishEntries, EntriesFail, Crash, tables, vars
  <1> QED BY <1>1, <1>2, <1>3

(* Every stored lesson is attended by a class.                             *)
THEOREM LessonsAttendedHolds == Spec => []LessonsAttended
  <1>1. Init => LessonsAttended
        BY DEF Init, LessonsAttended
  <1> QED BY <1>1, AttendedStep, TypeCorrect, PTL DEF Spec

(***************************************************************************)
(* Refinement of LastGood                                                  *)
(***************************************************************************)
Stores == [o \in {"groups", "entries"} |-> IF o = "groups" THEN Active ELSE links]
Answers == [o \in {"groups", "entries"} |-> IF o = "groups" THEN GroupsAnswer ELSE EntriesAnswer]

ListedLinks == {k \in Links : k[1] \in Kept /\ k[2] \in entryJob.got[k[1]].classes}

LEMMA AnswerTypes ==
  ASSUME TypeInv
  PROVE  /\ GroupsAnswer \subseteq LG!Answer
         /\ EntriesAnswer \subseteq LG!Answer
  <1>1. ASSUME NEW u \in BOOLEAN, NEW S \in SUBSET (Links \cup Classes)
        PROVE  [usable |-> u, present |-> S] \in LG!Answer
        BY <1>1 DEF LG!Answer
  <1>2. (groupJob.seen # {}) \in BOOLEAN /\ groupJob.seen \in SUBSET (Links \cup Classes)
        BY TypeInvParts DEF GroupJob
  <1>3. (Kept # {}) \in BOOLEAN /\ ListedLinks \in SUBSET (Links \cup Classes)
        BY DEF ListedLinks
  <1>4. [usable |-> groupJob.seen # {}, present |-> groupJob.seen] \in LG!Answer
        BY <1>1, <1>2
  <1>5. [usable |-> Kept # {}, present |-> ListedLinks] \in LG!Answer
        BY <1>1, <1>3
  <1> QED BY <1>4, <1>5 DEF GroupsAnswer, EntriesAnswer, ListedLinks

(* Forget: no table changes, and the answers held stay or go.              *)
LEMMA ForgetStep ==
  ASSUME TypeInv, UNCHANGED <<group, links>>,
         GroupsAnswer' \subseteq GroupsAnswer, EntriesAnswer' \subseteq EntriesAnswer
  PROVE  LG!Forget
  <1>1. UNCHANGED Stores
        BY DEF Stores, Active
  <1>2. \A o \in {"groups", "entries"} : Answers'[o] \subseteq Answers[o]
        BY DEF Answers
  <1>3. Answers' \in [{"groups", "entries"} -> SUBSET LG!Answer]
        BY AnswerTypes DEF Answers
  <1> QED BY <1>1, <1>2, <1>3 DEF LG!Forget, Stores, Answers

LEMMA RefineInit == Init => LG!Init
  <1> SUFFICES ASSUME Init PROVE LG!Init
      OBVIOUS
  <1>1. Active = {} /\ links = {}
        BY DEF Init, Active
  <1>2. GroupsAnswer = {} /\ EntriesAnswer = {}
        BY IdleTypes DEF Init, GroupsAnswer, EntriesAnswer
  <1> QED BY <1>1, <1>2 DEF LG!Init

(* The group job: its answer is complete when every year has been read,    *)
(* and is applied by the upsert and by the retirement.                     *)
LEMMA RefineGroupSteps == TypeInv /\ GroupSteps => [LG!Next]_(LG!vars)
  <1> SUFFICES ASSUME TypeInv, GroupSteps PROVE [LG!Next]_(LG!vars)
      OBVIOUS
  <1>0. groupJob \in GroupJob /\ GroupType /\ SeenSound
        BY TypeInvParts DEF TablesType, JobsHold
  <1>1. UNCHANGED <<links, entryJob>>
        BY DEF GroupSteps, GroupsTrigger, YearsFetched, StoreYear, GroupsStart, ClassesFetched,
               CatalogueComplete, UpsertGroups, RetireGroups, FinishGroups, tables
  <1>2. UNCHANGED EntriesAnswer
        BY <1>1 DEF EntriesAnswer, Kept
  <1>3. CASE GroupsTrigger \/ YearsFetched \/ StoreYear \/ GroupsStart \/ ClassesFetched \/ FinishGroups
    <2>1. UNCHANGED group
          BY <1>3 DEF GroupsTrigger, YearsFetched, StoreYear, GroupsStart, ClassesFetched,
                      FinishGroups, tables
    <2>2. groupJob'.pc \in {"idle", "years", "store", "classes"}
          BY <1>0, <1>3, IdleTypes DEF GroupsTrigger, YearsFetched, StoreYear, GroupsStart,
                                       ClassesFetched, FinishGroups, GroupJob
    <2>3. GroupsAnswer' = {}
          BY <2>2 DEF GroupsAnswer
    <2>4. GroupsAnswer' \subseteq GroupsAnswer
          BY <2>3
    <2>5. LG!Forget
          BY <1>1, <1>2, <2>1, <2>4, ForgetStep
    <2> QED BY <2>5 DEF LG!Next
  <1>4. CASE CatalogueComplete
    <2>1. UNCHANGED group /\ GroupsAnswer = {}
          BY <1>4 DEF CatalogueComplete, tables, GroupsAnswer
    <2>2. CASE groupJob.seen = {}
      <3>1. GroupsAnswer' \subseteq GroupsAnswer
            BY <1>4, <2>2, IdleTypes DEF CatalogueComplete, CatalogueUsable, GroupsAnswer
      <3>2. LG!Forget
            BY <1>1, <1>2, <2>1, <3>1, ForgetStep
      <3> QED BY <3>2 DEF LG!Next
    <2>3. CASE groupJob.seen # {}
      <3> DEFINE a == [usable |-> groupJob.seen # {}, present |-> groupJob.seen]
      <3>1. groupJob'.pc = "upsert" /\ groupJob'.seen = groupJob.seen
            BY <1>0, <1>4, <2>3 DEF CatalogueComplete, CatalogueUsable, GroupJob
      <3>2. GroupsAnswer' = {a}
            BY <3>1 DEF GroupsAnswer
      <3>3. a \in LG!Answer
        <4>1. ASSUME NEW u \in BOOLEAN PROVE [usable |-> u, present |-> groupJob.seen] \in LG!Answer
              BY <1>0 DEF LG!Answer, GroupJob
        <4>2. (groupJob.seen # {}) \in BOOLEAN
              OBVIOUS
        <4> QED BY <4>1, <4>2
      <3>4. LG!Receive("groups")
        <4> HIDE DEF a
        <4>1. Answers'["groups"] = {a} /\ Answers["groups"] = {}
              BY <2>1, <3>2 DEF Answers
        <4>2. Answers' = [Answers EXCEPT !["groups"] = @ \cup {a}]
              BY <1>2, <2>1, <3>2 DEF Answers
        <4>3. UNCHANGED Stores
              BY <1>1, <2>1 DEF Stores, Active
        <4> QED BY <3>3, <4>1, <4>2, <4>3 DEF LG!Receive, Stores, Answers
      <3> QED BY <3>4 DEF LG!Next
    <2> QED BY <2>2, <2>3
  <1>5. CASE UpsertGroups \/ RetireGroups
    <2> DEFINE a == [usable |-> groupJob.seen # {}, present |-> groupJob.seen]
    <2>1. /\ groupJob.pc \in {"upsert", "retire"} /\ groupJob'.pc \in {"retire", "finish"}
          /\ groupJob'.seen = groupJob.seen
          BY <1>0, <1>5 DEF UpsertGroups, RetireGroups, GroupJob
    <2>2. GroupsAnswer = {a} /\ GroupsAnswer' = {a}
          BY <2>1 DEF GroupsAnswer
    <2>3. a.usable /\ a.present = groupJob.seen
          BY <1>0, <2>1 DEF SeenSound
    <2>4. Active \cap groupJob.seen \subseteq Active' /\ Active' \subseteq Active \cup groupJob.seen
          BY <1>0, <1>5 DEF UpsertGroups, RetireGroups, Upserted, Active, GroupType
    <2>5. LG!Apply("groups")
      <3> HIDE DEF a
      <3>1. a \in Answers["groups"] /\ Answers' = Answers
            BY <1>2, <2>2 DEF Answers
      <3>2. /\ Stores["groups"] = Active /\ Stores'["groups"] = Active'
            /\ Stores' = [Stores EXCEPT !["groups"] = Stores'["groups"]]
            BY <1>1 DEF Stores
      <3> QED BY <2>3, <2>4, <3>1, <3>2 DEF LG!Apply, Stores, Answers
    <2> QED BY <2>5 DEF LG!Next
  <1> QED BY <1>3, <1>4, <1>5 DEF GroupSteps

(* The entry job: its answer is complete when every class of every year    *)
(* was asked for, and is applied by the transaction.                       *)
LEMMA RefineEntrySteps == TypeInv /\ EntrySteps => [LG!Next]_(LG!vars)
  <1> SUFFICES ASSUME TypeInv, EntrySteps PROVE [LG!Next]_(LG!vars)
      OBVIOUS
  <1>0. entryJob \in EntryJob /\ WriteSound /\ links \subseteq Links
        BY TypeInvParts DEF TablesType, JobsHold
  <1>1. UNCHANGED <<group, groupJob>>
        BY DEF EntrySteps, EntriesTrigger, YearOpened, EntriesFetched, WindowComplete, WriteEntries,
               FinishEntries, tables
  <1>2. UNCHANGED <<GroupsAnswer, Active>>
        BY <1>1 DEF GroupsAnswer, Active
  <1> DEFINE a == [usable |-> Kept # {}, present |-> ListedLinks]
  <1>3. CASE EntriesTrigger \/ YearOpened \/ EntriesFetched \/ FinishEntries
    <2>1. UNCHANGED links
          BY <1>3 DEF EntriesTrigger, YearOpened, EntriesFetched, FinishEntries, tables
    <2>2. entryJob'.pc \in {"idle", "years", "classes", "groups"}
          BY <1>0, <1>3, IdleTypes DEF EntriesTrigger, YearOpened, EntriesFetched, FinishEntries,
                                       EntryJob, IdleEntries
    <2>3. EntriesAnswer' \subseteq EntriesAnswer
          BY <2>2 DEF EntriesAnswer
    <2>4. LG!Forget
          BY <1>1, <1>2, <2>1, <2>3, ForgetStep
    <2> QED BY <2>4 DEF LG!Next
  <1>4. CASE WindowComplete
    <2>1. UNCHANGED links /\ EntriesAnswer = {}
          BY <1>4 DEF WindowComplete, tables, EntriesAnswer
    <2>2. CASE Kept = {}
      <3>1. EntriesAnswer' \subseteq EntriesAnswer
            BY <1>4, <2>2, IdleTypes DEF WindowComplete, WindowUsable, EntriesAnswer
      <3>2. LG!Forget
            BY <1>1, <1>2, <2>1, <3>1, ForgetStep
      <3> QED BY <3>2 DEF LG!Next
    <2>3. CASE Kept # {}
      <3>1. entryJob'.pc = "write" /\ entryJob'.got = entryJob.got
            BY <1>0, <1>4, <2>3 DEF WindowComplete, WindowUsable, EntryJob
      <3>2. EntriesAnswer' = {a}
            BY <3>1 DEF EntriesAnswer, Kept, ListedLinks
      <3>3. a \in LG!Answer
        <4>1. ASSUME NEW u \in BOOLEAN PROVE [usable |-> u, present |-> ListedLinks] \in LG!Answer
              BY DEF LG!Answer, ListedLinks
        <4>2. (Kept # {}) \in BOOLEAN
              OBVIOUS
        <4> QED BY <4>1, <4>2
      <3>4. LG!Receive("entries")
        <4> HIDE DEF a
        <4>1. Answers'["entries"] = {a} /\ Answers["entries"] = {}
              BY <2>1, <3>2 DEF Answers
        <4>2. Answers' = [Answers EXCEPT !["entries"] = @ \cup {a}]
              BY <1>2, <2>1, <3>2 DEF Answers
        <4>3. UNCHANGED Stores
              BY <1>2, <2>1 DEF Stores
        <4> QED BY <3>3, <4>1, <4>2, <4>3 DEF LG!Receive, Stores, Answers
      <3> QED BY <3>4 DEF LG!Next
    <2> QED BY <2>2, <2>3
  <1>5. CASE WriteEntries
    <2>1. /\ entryJob.pc = "write" /\ entryJob'.pc = "finish" /\ entryJob'.got = entryJob.got
          /\ links' = NewLinks
          BY <1>0, <1>5 DEF WriteEntries, EntryJob
    <2>2. EntriesAnswer = {a} /\ EntriesAnswer' = {a}
          BY <2>1 DEF EntriesAnswer, Kept, ListedLinks
    <2>3. a.usable /\ a.present = ListedLinks
          BY <1>0, <2>1 DEF WriteSound
    <2>4. links \cap ListedLinks \subseteq links' /\ links' \subseteq links \cup ListedLinks
          BY <2>1 DEF NewLinks, Attached, Withdrawn, ListedLinks
    <2>5. LG!Apply("entries")
      <3> HIDE DEF a
      <3>1. a \in Answers["entries"] /\ Answers' = Answers
            BY <1>2, <2>2 DEF Answers
      <3>2. /\ Stores["entries"] = links /\ Stores'["entries"] = links'
            /\ Stores' = [Stores EXCEPT !["entries"] = Stores'["entries"]]
            BY <1>2 DEF Stores
      <3> QED BY <2>3, <2>4, <3>1, <3>2 DEF LG!Apply, Stores, Answers
    <2> QED BY <2>5 DEF LG!Next
  <1> QED BY <1>3, <1>4, <1>5 DEF EntrySteps

LEMMA RefineStep == TypeInv /\ [Next]_vars => [LG!Next]_(LG!vars)
  <1> SUFFICES ASSUME TypeInv, [Next]_vars PROVE [LG!Next]_(LG!vars)
      OBVIOUS
  <1>1. CASE GroupsFail \/ EntriesFail \/ Crash
    <2>1. /\ UNCHANGED <<group, links>>
          /\ groupJob' \in {groupJob, IdleGroups} /\ entryJob' \in {entryJob, IdleEntries}
          BY <1>1 DEF GroupsFail, EntriesFail, Crash, tables
    <2>2. GroupsAnswer' \subseteq GroupsAnswer
          BY <2>1, IdleTypes DEF GroupsAnswer
    <2>3. EntriesAnswer' \subseteq EntriesAnswer
      <3>1. CASE entryJob' = entryJob
            BY <3>1 DEF EntriesAnswer, Kept
      <3>2. CASE entryJob' = IdleEntries
            BY <3>2, IdleTypes DEF EntriesAnswer
      <3> QED BY <2>1, <3>1, <3>2
    <2> QED BY <2>1, <2>2, <2>3, ForgetStep DEF LG!Next
  <1>2. CASE Tick \/ PlanChanges \/ CatalogueChanges \/ UNCHANGED vars
    <2>1. UNCHANGED <<group, links, groupJob, entryJob>>
          BY <1>2 DEF Tick, PlanChanges, CatalogueChanges, tables, vars
    <2>2. UNCHANGED <<Stores, Answers>>
          BY <2>1 DEF Stores, Answers, Active, GroupsAnswer, EntriesAnswer, Kept
    <2> QED BY <2>2 DEF LG!vars, Stores, Answers
  <1> QED BY <1>1, <1>2, RefineGroupSteps, RefineEntrySteps DEF Next

(* Both jobs implement LastGood: a class is retired, and a link withdrawn, *)
(* only on the strength of a complete, non-empty answer that does not list *)
(* it, however the jobs interleave and whatever fails.                     *)
THEOREM LastGoodHolds == Spec => LastGoodKept
  <1> QED BY TypeCorrect, RefineInit, RefineStep, PTL DEF Spec, LastGoodKept, LG!Spec
=============================================================================
