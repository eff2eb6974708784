----------------------------- MODULE Timetable -----------------------------
(***************************************************************************)
(* The timetable import of the backend: two worker jobs mirror the public  *)
(* WebUntis view into the tables the API serves.                           *)
(*                                                                         *)
(*  - The group job (syncContext, then syncGroups) stores the school years *)
(*    one statement at a time, reads the class catalogue of every year     *)
(*    that touches the window, upserts the classes in one transaction and  *)
(*    then, in a statement of its own, retires the classes not listed.     *)
(*  - The entry job (syncEntries) asks, year by year, for the lessons of   *)
(*    every class of the catalogue, one request each, and applies what it  *)
(*    collected in one transaction: upsert the lessons, add their links to *)
(*    classes, withdraw links of lessons no longer listed, delete lessons  *)
(*    left without a class.                                                *)
(*                                                                         *)
(* The jobs have one overlap guard each, so they interleave; WebUntis may  *)
(* change between any two requests, and any request or statement may fail. *)
(* A lesson keeps of its content a date and one value, None when it has    *)
(* nothing that could be shown as its title.                               *)
(***************************************************************************)
EXTENDS Integers, FiniteSets

CONSTANTS
    Classes,      \* WebUntis class ids
    Lessons,      \* keys of lessons (ids[], sorted and joined)
    Years,        \* school year ids
    First, Last,  \* first and last day of each school year
    Contents,     \* contents of a lesson
    Plans,        \* what WebUntis may list: lessons with date and classes
    Catalogues,   \* the classes WebUntis may offer in each year
    None,         \* null
    Lookback,     \* WEBUNTIS_LOOKBACK_DAYS
    Lookahead,    \* WEBUNTIS_LOOKAHEAD_DAYS
    MaxDay,       \* bound: last day of the model
    MaxEdits,     \* bound: changes made in WebUntis
    MaxFaults     \* bound: failed requests, failed statements and crashes

Days == 0 .. MaxDay
Links == Lessons \X Classes

(* A lesson as WebUntis lists it, and as it is stored.                     *)
Listed == [date : Int, content : Contents \cup {None}, classes : SUBSET Classes]
Entry == [date : Int, content : Contents]

ASSUME BoundsAssumption ==
    /\ MaxDay \in Nat /\ MaxEdits \in Nat /\ MaxFaults \in Nat
    /\ Lookback \in Nat /\ Lookahead \in Nat

ASSUME DataAssumption ==
    /\ None \notin Listed \cup Entry \cup Contents \cup Years
    /\ \A cs \in SUBSET Classes : cs # None
    /\ First \in [Years -> Int] /\ Last \in [Years -> Int]
    /\ Plans \subseteq [Lessons -> Listed \cup {None}]
    /\ Catalogues \subseteq [Years -> {None} \cup SUBSET Classes]

VARIABLES
    day,          \* today
    plan,         \* the lessons WebUntis lists
    offered,      \* the classes of each year; None: not published yet
    contexts,     \* table timetable_contexts: the years stored
    group,        \* table timetable_groups: unknown, active or inactive
    entry,        \* table timetable_entries
    links,        \* table timetable_entry_groups
    groupJob,     \* the group job
    entryJob,     \* the entry job
    edits,        \* history: changes made so far
    faults        \* history: faults so far

world == <<day, plan, offered>>
tables == <<contexts, group, entry, links>>
vars == <<day, plan, offered, contexts, group, entry, links, groupJob, entryJob,
          edits, faults>>

(***************************************************************************)
(* Windows and school years                                                *)
(***************************************************************************)
From(d) == d - Lookback
To(d) == d + Lookahead
Window(d) == From(d) .. To(d)

(* contextsFor: the stored years that touch the window, by their first day *)
(* (validFrom), and the part of the window that lies in a year.            *)
Covering(d) == {y \in contexts : First[y] <= To(d) /\ Last[y] >= From(d)}
Earliest(S) == {y \in S : \A z \in S : First[y] <= First[z]}
ClipShort(d, y) == {x \in Window(d) : First[y] <= x /\ x < Last[y]}     \* mutant
Clip(d, y) == {x \in Window(d) : First[y] <= x /\ x <= Last[y]}

(***************************************************************************)
(* The jobs                                                                *)
(***************************************************************************)
GroupJob == [pc : {"idle", "years", "store", "classes", "upsert", "retire", "finish"},
             todo : SUBSET Years,       \* years to store, then years to read
             seen : SUBSET Classes]     \* classes listed so far
IdleGroups == [pc |-> "idle", todo |-> {}, seen |-> {}]

EntryJob == [pc : {"idle", "years", "classes", "groups", "write", "finish"},
             day : Days,                \* the day its window belongs to
             todo : SUBSET Years,       \* years to read
             year : Years \cup {None},  \* the year being read
             left : SUBSET Classes,     \* classes of that year to ask for
             asked : SUBSET Classes,    \* requestedGroupIds
             got : [Lessons -> Listed \cup {None}],   \* normalize
             known : SUBSET Classes]    \* groupIdByExternal
Nothing == [l \in Lessons |-> None]
IdleEntries == [pc |-> "idle", day |-> 0, todo |-> {}, year |-> None, left |-> {},
                asked |-> {}, got |-> Nothing, known |-> {}]

Init ==
    /\ day = 0
    /\ plan \in Plans
    /\ offered \in Catalogues
    /\ contexts = {}
    /\ group = [c \in Classes |-> "unknown"]
    /\ entry = [l \in Lessons |-> None]
    /\ links = {}
    /\ groupJob = IdleGroups
    /\ entryJob = IdleEntries
    /\ edits = 0
    /\ faults = 0

(* One more fault, if the bound allows it.                                 *)
Fault == faults < MaxFaults /\ faults' = faults + 1

(***************************************************************************)
(* The world                                                               *)
(***************************************************************************)
Tick == /\ day < MaxDay
        /\ day' = day + 1
        /\ UNCHANGED <<plan, offered, tables, groupJob, entryJob, edits, faults>>

PlanChanges == /\ edits < MaxEdits
               /\ edits' = edits + 1
               /\ \E p \in Plans \ {plan} : plan' = p
               /\ UNCHANGED <<day, offered, tables, groupJob, entryJob, faults>>

CatalogueChanges == /\ edits < MaxEdits
                    /\ edits' = edits + 1
                    /\ \E o \in Catalogues \ {offered} : offered' = o
                    /\ UNCHANGED <<day, plan, tables, groupJob, entryJob, faults>>

(***************************************************************************)
(* The group job                                                           *)
(***************************************************************************)
Published == {y \in Years : offered[y] # None}

GroupsTrigger ==
    /\ groupJob.pc = "idle"
    /\ groupJob' = [groupJob EXCEPT !.pc = "years"]
    /\ UNCHANGED <<world, tables, entryJob, edits, faults>>

(* fetchAppData and fetchSchoolYears                                       *)
YearsFetched ==
    /\ groupJob.pc = "years"
    /\ groupJob' = [groupJob EXCEPT !.pc = "store", !.todo = Published]
    /\ UNCHANGED <<world, tables, entryJob, edits, faults>>

(* The years are upserted one statement each, the current one last; any    *)
(* order is allowed here.                                                  *)
StoreYear ==
    /\ groupJob.pc = "store"
    /\ \E y \in groupJob.todo :
          /\ contexts' = contexts \cup {y}
          /\ groupJob' = [groupJob EXCEPT !.todo = @ \ {y}]
    /\ UNCHANGED <<world, group, entry, links, entryJob, edits, faults>>

(* syncGroups begins: the years that touch the window are read.            *)
GroupsStart ==
    /\ groupJob.pc = "store" /\ groupJob.todo = {}
    /\ groupJob' = IF Covering(day) = {} THEN IdleGroups
                   ELSE [groupJob EXCEPT !.pc = "classes", !.todo = Covering(day)]
    /\ UNCHANGED <<world, tables, entryJob, edits, faults>>

(* fetchClasses, once per year.  A year WebUntis does not publish (any     *)
(* more) is answered with an error.                                        *)
ClassesFetched ==
    /\ groupJob.pc = "classes" /\ groupJob.todo # {}
    /\ \E y \in Earliest(groupJob.todo) :
          groupJob' = IF offered[y] = None THEN IdleGroups
                      ELSE [groupJob EXCEPT !.todo = @ \ {y}, !.seen = @ \cup offered[y]]
    /\ UNCHANGED <<world, tables, entryJob, edits, faults>>

(* An empty catalogue ends the run and keeps what is stored.               *)
CatalogueAccepted(seen) == TRUE     \* mutant
CatalogueUsable(seen) == seen # {}
CatalogueComplete ==
    /\ groupJob.pc = "classes" /\ groupJob.todo = {}
    /\ groupJob' = IF CatalogueUsable(groupJob.seen) THEN [groupJob EXCEPT !.pc = "upsert"]
                   ELSE IdleGroups
    /\ UNCHANGED <<world, tables, entryJob, edits, faults>>

(* The transaction writes the differences; a retired class that is listed  *)
(* again counts as one.                                                    *)
CreatedOnly(seen) ==                \* mutant: a retired class is not revived
    [c \in Classes |-> IF c \in seen /\ group[c] = "unknown" THEN "active" ELSE group[c]]
Upserted(seen) == [c \in Classes |-> IF c \in seen THEN "active" ELSE group[c]]
UpsertGroups ==
    /\ groupJob.pc = "upsert"
    /\ group' = Upserted(groupJob.seen)
    /\ groupJob' = [groupJob EXCEPT !.pc = "retire"]
    /\ UNCHANGED <<world, contexts, entry, links, entryJob, edits, faults>>

RetireGroups ==
    /\ groupJob.pc = "retire"
    /\ group' = [c \in Classes |-> IF group[c] = "active" /\ c \notin groupJob.seen
                                   THEN "inactive" ELSE group[c]]
    /\ groupJob' = [groupJob EXCEPT !.pc = "finish"]
    /\ UNCHANGED <<world, contexts, entry, links, entryJob, edits, faults>>

FinishGroups ==
    /\ groupJob.pc = "finish"
    /\ groupJob' = IdleGroups
    /\ UNCHANGED <<world, tables, entryJob, edits, faults>>

(* failRun: a request or a statement failed; nothing is undone.            *)
GroupsFail ==
    /\ groupJob.pc # "idle"
    /\ Fault
    /\ groupJob' = IdleGroups
    /\ UNCHANGED <<world, tables, entryJob, edits>>

(***************************************************************************)
(* The entry job                                                           *)
(***************************************************************************)
EntriesTrigger ==
    /\ entryJob.pc = "idle"
    /\ Covering(day) # {}
    /\ entryJob' = [IdleEntries EXCEPT !.pc = "years", !.day = day, !.todo = Covering(day)]
    /\ UNCHANGED <<world, tables, groupJob, edits, faults>>

(* The catalogue of the next year.  An empty one fails the run.            *)
YearOpened ==
    /\ entryJob.pc = "years" /\ entryJob.todo # {}
    /\ \E y \in Earliest(entryJob.todo) :
          entryJob' = IF offered[y] \in {None, {}} THEN IdleEntries
                      ELSE [entryJob EXCEPT !.pc = "classes", !.todo = @ \ {y}, !.year = y,
                                            !.left = offered[y], !.asked = @ \cup offered[y]]
    /\ UNCHANGED <<world, tables, groupJob, edits, faults>>

(* What WebUntis lists for one class in a part of the window, as normalize *)
(* reads it: lessons without a title are rejected.                         *)
Answered(c, dates) == {l \in Lessons : /\ plan[l] # None
                                       /\ plan[l].date \in dates
                                       /\ c \in plan[l].classes
                                       /\ plan[l].content # None}

(* A lesson listed for several classes is kept once: as it was listed      *)
(* first, with all its classes.                                            *)
LastClassWins(got, l, c) ==         \* mutant: the classes are not united
    [plan[l] EXCEPT !.classes = {c}]
Merged(got, l, c) ==
    IF got[l] = None THEN [plan[l] EXCEPT !.classes = {c}]
    ELSE [got[l] EXCEPT !.classes = @ \cup {c}]

EntriesFetched ==
    /\ entryJob.pc = "classes" /\ entryJob.left # {}
    /\ \E c \in entryJob.left :
          LET new == Answered(c, Clip(entryJob.day, entryJob.year))
          IN  entryJob' = [entryJob EXCEPT
                  !.pc = IF entryJob.left # {c} THEN @
                         ELSE IF entryJob.todo = {} THEN "groups" ELSE "years",
                  !.left = @ \ {c},
                  !.got = [l \in Lessons |-> IF l \in new THEN Merged(entryJob.got, l, c)
                                             ELSE entryJob.got[l]]]
    /\ UNCHANGED <<world, tables, groupJob, edits, faults>>

(* The window is complete.  If it is empty the stored lessons are kept;    *)
(* otherwise the rows of the classes are looked up.                        *)
Kept == {l \in Lessons : entryJob.got[l] # None}
WindowAccepted(kept) == TRUE        \* mutant
WindowUsable(kept) == kept # {}
WindowComplete ==
    /\ entryJob.pc = "groups"
    /\ entryJob' = IF WindowUsable(Kept)
                   THEN [entryJob EXCEPT !.pc = "write",
                            !.known = {c \in entryJob.asked : group[c] # "unknown"}]
                   ELSE IdleEntries
    /\ UNCHANGED <<world, tables, groupJob, edits, faults>>

InWindow(e) == e # None /\ e.date \in Window(entryJob.day)

(* The links after the transaction: those of the lessons kept are only     *)
(* added to, those of other lessons of the window are withdrawn for the    *)
(* classes the answer covers.                                              *)
AttachedUnknown ==                  \* mutant: also to classes without a row
    {k \in Links : k[1] \in Kept /\ k[2] \in entryJob.got[k[1]].classes}
Attached == {k \in Links : /\ k[1] \in Kept
                            /\ k[2] \in entryJob.got[k[1]].classes \cap entryJob.known}
WithdrawNone == {}                  \* mutant
Withdrawn == {k \in links : /\ k[2] \in entryJob.known /\ k[1] \notin Kept
                            /\ InWindow(entry[k[1]])}
NewLinks == (links \cup Attached) \ Withdrawn

(* The entries after the transaction: a lesson of the window that no class *)
(* attends is deleted.                                                     *)
Written(l) == IF l \in Kept THEN [date |-> entryJob.got[l].date,
                                  content |-> entryJob.got[l].content]
              ELSE entry[l]
OrphanedNow(l) ==                   \* mutant: only lessons that have just lost a link
    /\ \E c \in Classes : <<l, c>> \in Withdrawn
    /\ \A c \in Classes : <<l, c>> \notin NewLinks
Orphaned(l) == \A c \in Classes : <<l, c>> \notin NewLinks
NewEntry(l) == IF InWindow(Written(l)) /\ Orphaned(l) THEN None ELSE Written(l)

WriteEntries ==
    /\ entryJob.pc = "write"
    /\ links' = NewLinks
    /\ entry' = [l \in Lessons |-> NewEntry(l)]
    /\ entryJob' = [entryJob EXCEPT !.pc = "finish"]
    /\ UNCHANGED <<world, contexts, group, groupJob, edits, faults>>

FinishEntries ==
    /\ entryJob.pc = "finish"
    /\ entryJob' = IdleEntries
    /\ UNCHANGED <<world, tables, groupJob, edits, faults>>

EntriesFail ==
    /\ entryJob.pc # "idle"
    /\ Fault
    /\ entryJob' = IdleEntries
    /\ UNCHANGED <<world, tables, groupJob, edits>>

(* The worker dies and is started again.                                   *)
Crash ==
    /\ Fault
    /\ groupJob' = IdleGroups
    /\ entryJob' = IdleEntries
    /\ UNCHANGED <<world, tables, edits>>

GroupSteps == \/ GroupsTrigger \/ YearsFetched \/ StoreYear \/ GroupsStart \/ ClassesFetched
              \/ CatalogueComplete \/ UpsertGroups \/ RetireGroups \/ FinishGroups
EntrySteps == \/ EntriesTrigger \/ YearOpened \/ EntriesFetched
              \/ WindowComplete \/ WriteEntries \/ FinishEntries

Next == \/ Tick \/ PlanChanges \/ CatalogueChanges
        \/ GroupSteps \/ GroupsFail
        \/ EntrySteps \/ EntriesFail
        \/ Crash

Spec == Init /\ [][Next]_vars

(* Cron starts both jobs again and again; requests time out and retries    *)
(* are bounded, so a run that was started goes on or fails.                *)
Fairness == WF_vars(GroupSteps) /\ WF_vars(EntrySteps)
FairSpec == Spec /\ Fairness

(***************************************************************************)
(* Properties                                                              *)
(***************************************************************************)
(* Type invariant, with the foreign keys of the link table.                *)
TypeOK ==
    /\ day \in Days /\ plan \in Plans /\ offered \in Catalogues
    /\ contexts \subseteq Years
    /\ group \in [Classes -> {"unknown", "active", "inactive"}]
    /\ entry \in [Lessons -> Entry \cup {None}]
    /\ links \subseteq Links
    /\ \A l \in Lessons, c \in Classes :
          <<l, c>> \in links => entry[l] # None /\ group[c] # "unknown"
    /\ groupJob \in GroupJob /\ entryJob \in EntryJob
    /\ edits \in 0 .. MaxEdits /\ faults \in 0 .. MaxFaults

(* Every stored lesson is attended by a class: a lesson nobody attends is  *)
(* shown to nobody, and once it has left the window no run cleans it up.   *)
(* Holds whatever the order of the jobs, although the classes are looked   *)
(* up outside the transaction that writes (syncEntries).                   *)
LessonsAttended ==
    \A l \in Lessons : entry[l] # None => \E c \in Classes : <<l, c>> \in links

(* Both jobs keep the rule of LastGood: a link disappears, or a class is   *)
(* retired, only after the whole window, or catalogue, was read without an *)
(* error, was not empty and does not list it; nothing appears that was not *)
(* listed.  Failures and crashes remove nothing.                           *)
Active == {c \in Classes : group[c] = "active"}
GroupsAnswer ==
    IF groupJob.pc \in {"upsert", "retire", "finish"}
    THEN {[usable |-> groupJob.seen # {}, present |-> groupJob.seen]} ELSE {}
EntriesAnswer ==
    IF entryJob.pc \in {"write", "finish"}
    THEN {[usable |-> Kept # {},
           present |-> {k \in Links : k[1] \in Kept /\ k[2] \in entryJob.got[k[1]].classes}]}
    ELSE {}
LG == INSTANCE LastGood WITH
        Owners <- {"groups", "entries"}, Items <- Links \cup Classes,
        store <- [o \in {"groups", "entries"} |-> IF o = "groups" THEN Active ELSE links],
        inbox <- [o \in {"groups", "entries"} |->
                    IF o = "groups" THEN GroupsAnswer ELSE EntriesAnswer]
LastGoodKept == LG!Spec

(* What WebUntis offers in the years that touch the window.                *)
Touching(d) == {y \in Years : First[y] <= To(d) /\ Last[y] >= From(d) /\ offered[y] # None}
OfferedNow == UNION {offered[y] : y \in Touching(day)}
Offers(l, c) == /\ plan[l] # None /\ plan[l].content # None
                /\ c \in plan[l].classes
                /\ plan[l].date \in Window(day)
                /\ \E y \in Touching(day) : /\ c \in offered[y]
                                            /\ First[y] <= plan[l].date
                                            /\ plan[l].date <= Last[y]
YearsReadable == \A y \in Covering(day) : offered[y] # None
CataloguesFilled == YearsReadable /\ \A y \in Covering(day) : offered[y] # {}

(* A lesson WebUntis keeps offering in the window ends up stored as it is  *)
(* listed, with its class, for good: also across the change of the school  *)
(* year, where the window is read in two parts (syncEntries, contextsFor). *)
StoredAsListed(l, c) ==
    /\ <<l, c>> \in links /\ plan[l] # None
    /\ entry[l] = [date |-> plan[l].date, content |-> plan[l].content]
EndsUpComplete == \A l \in Lessons, c \in Classes :
    <>[](CataloguesFilled /\ Offers(l, c)) => <>[]StoredAsListed(l, c)

(* A lesson that no class is offered any more ends up withdrawn from the   *)
(* window, as long as the window is not empty (syncEntries).               *)
EndsUpWithdrawn == \A l \in Lessons, c \in Classes :
    <>[](/\ CataloguesFilled /\ c \in OfferedNow
         /\ \A d \in Classes : ~Offers(l, d)
         /\ \E m \in Lessons, d \in Classes : Offers(m, d)) =>
        <>[](<<l, c>> \in links => entry[l].date \notin Window(day))

(* The classes served in the picker end up being the classes offered, be   *)
(* they new, gone or offered again (syncGroups).                           *)
EndsUpOffered == \A c \in Classes :
    /\ <>[](YearsReadable /\ c \in OfferedNow) => <>[](group[c] = "active")
    /\ <>[](YearsReadable /\ OfferedNow # {} /\ c \notin OfferedNow) =>
            <>[](group[c] # "active")
=============================================================================
