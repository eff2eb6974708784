------------------------------ MODULE Canteen ------------------------------
(***************************************************************************)
(* The canteen import of the backend and the synthetic data of user tests, *)
(* which share the tables the menu is served from.                         *)
(*                                                                         *)
(* One run of the worker (syncAll) walks the canteens in the order of the  *)
(* registry.  For each it opens an audit row, asks the source, keeps the   *)
(* entries that name a dish of this canteen and applies them in one        *)
(* transaction: dishes are matched by their plan id, whatever canteen or   *)
(* source the stored row belongs to, and dishes of the canteen that are    *)
(* not listed are withdrawn between the first and the last day for which   *)
(* a dish was named.  An entry without a name is a placeholder: it keeps   *)
(* the row of its plan id, and a day with placeholders only is left alone. *)
(*                                                                         *)
(* A failing audit row ends the whole run.  The seed of the user test      *)
(* writes and removes rows of its own source beside the imports.           *)
(***************************************************************************)
EXTENDS Integers, Sequences, FiniteSets

CONSTANTS
    Canteens,     \* canteens
    Registry,     \* CANTEENS: the active canteens, in order
    Plans,        \* plan ids (sourcePlanId)
    TestPlans,    \* the negative plan ids of the user test
    Dates,        \* calendar days, as integers
    Dishes,       \* everything a row says of its dish, prices left out
    PriceLists,   \* the prices of a dish: groups and amounts
    Codes,        \* ingredient and marker codes
    Labels,       \* labels of codes, with the dictionary they come from
    Sources,      \* what the source may answer to the canteens
    TestMeals,    \* data sets of the user test
    TestLabels,   \* and its labels of codes
    Blank,        \* the empty name of a placeholder
    Broken,       \* an answer that is no JSON or fails its schema
    None,         \* null
    Retries,      \* CANTEEN_RETRY_ATTEMPTS
    MaxEdits,     \* bound: changes of the source, seeds and redeployments
    MaxFaults     \* bound: failed requests, failed statements and crashes

(* An entry of an answer, an answer, and a stored row.                     *)
Entry == [id : Plans, loc : Canteens, date : Dates, dish : Dishes \cup {Blank},
          prices : PriceLists]
Answer == [list : Seq(Entry),
           ingredients : [Codes -> Labels \cup {None}],
           markers : [Codes -> Labels \cup {None}]]
Row == [source : {"meine-mensa", "user-test"}, canteen : Canteens, date : Dates,
        dish : Dishes, prices : PriceLists]

ASSUME BoundsAssumption ==
    MaxEdits \in Nat /\ MaxFaults \in Nat /\ Retries \in Nat

ASSUME RegistryAssumption ==
    /\ Registry \in Seq(Canteens) /\ Registry # <<>>
    /\ \A c \in Canteens : \E i \in 1 .. Len(Registry) : Registry[i] = c

ASSUME DataAssumption ==
    /\ Dates \subseteq Int
    /\ Blank \notin Dishes
    /\ None \notin Row \cup Labels \cup Answer
    /\ Broken \notin Answer
    /\ Sources \subseteq [Canteens -> Answer \cup {Broken}]
    /\ TestPlans \subseteq Plans
    /\ TestMeals \subseteq [TestPlans -> Row \cup {None}]
    /\ TestLabels \in [Codes -> Labels \cup {None}]
    /\ \A t \in TestMeals, p \in TestPlans : t[p] # None => t[p].source = "user-test"

(* The user test numbers its dishes downwards from -8 000 000; the source  *)
(* counts upwards.                                                         *)
ASSUME NumbersAssumption ==
    \A s \in Sources, c \in Canteens : s[c] # Broken =>
        \A i \in 1 .. Len(s[c].list) : s[c].list[i].id \notin TestPlans

VARIABLES
    source,       \* what the source answers
    enabled,      \* USER_TEST_DATA_ENABLED
    canteens,     \* table canteens
    meals,        \* tables meals and meal_prices
    dictionary,   \* table ingredient_definitions
    synced,       \* table sync_runs: the canteens with a successful run
    testRuns,     \* the same, of the rows the seed adds
    job,          \* the run of the worker
    steady,       \* history: the entries every answer has offered so far
    edits,        \* history: changes so far
    faults        \* history: faults so far

tables == <<canteens, meals, dictionary, synced, testRuns>>
world == <<source, enabled, steady, edits>>
vars == <<source, enabled, canteens, meals, dictionary, synced, testRuns, job,
          steady, edits, faults>>

(***************************************************************************)
(* Answers                                                                 *)
(***************************************************************************)
Listed(a) == {a.list[i] : i \in 1 .. Len(a.list)}

(* The entries for canteen c that name a dish, and those that do not.      *)
(* Entries for another canteen are rejected.                               *)
Named(a, c) == {e \in Listed(a) : e.loc = c /\ e.dish # Blank}
Placeholders(a, c) == {e \in Listed(a) : e.loc = c /\ e.dish = Blank}
NamedIds(a, c) == {e.id : e \in Named(a, c)}

(* lastPerKey: the last entry that names a dish for plan id p.             *)
LastOf(a, c, p) ==
    LET At(i) == a.list[i] \in Named(a, c) /\ a.list[i].id = p
    IN  a.list[CHOOSE i \in 1 .. Len(a.list) :
                  At(i) /\ \A j \in 1 .. Len(a.list) : At(j) => j <= i]
(* The days whose menu the answer confirms: between the first and the last *)
(* day with a named dish, without the days that have placeholders only.    *)
NamedDates(a, c) == {e.date : e \in Named(a, c)}
BlankDates(a, c) == {e.date : e \in Placeholders(a, c)} \ NamedDates(a, c)
ConfirmedUpwards(a, c) ==           \* mutant: no last day
    {d \in Dates : \E x \in NamedDates(a, c) : x <= d} \ BlankDates(a, c)
Confirmed(a, c) ==
    {d \in Dates : \E x, y \in NamedDates(a, c) : x <= d /\ d <= y} \ BlankDates(a, c)

KeptIds(a, c) == NamedIds(a, c) \cup {e.id : e \in Placeholders(a, c)}

(* The label of a code, if the answer has one: the markers come last.      *)
Defined(a, k) == IF a.markers[k] # None THEN a.markers[k] ELSE a.ingredients[k]

(***************************************************************************)
(* The run                                                                 *)
(***************************************************************************)
Job == [pc : {"idle", "begin", "fetch", "persist", "failed", "empty", "success"},
        at : 1 .. Len(Registry),    \* the canteen it has come to
        tries : 0 .. Retries,       \* requests that failed
        answer : Answer \cup {None}]
Idle == [pc |-> "idle", at |-> 1, tries |-> 0, answer |-> None]
Current == Registry[job.at]

(* The entry by which canteen c alone offers plan id p.                    *)
OfferedBy(src, c) ==
    IF src[c] = Broken THEN {}
    ELSE {LastOf(src[c], c, p) :
            p \in {q \in NamedIds(src[c], c) :
                      \A d \in Canteens \ {c} :
                          src[d] # Broken => q \notin NamedIds(src[d], d)}}
Offered(src) == UNION {OfferedBy(src, c) : c \in Canteens}

Init ==
    /\ source \in Sources
    /\ enabled \in BOOLEAN
    /\ canteens = {}
    /\ meals = [p \in Plans |-> None]
    /\ dictionary = [k \in Codes |-> None]
    /\ synced = {}
    /\ testRuns = {}
    /\ job = Idle
    /\ steady = Offered(source)
    /\ edits = 0
    /\ faults = 0

Fault == faults < MaxFaults /\ faults' = faults + 1
Edit == edits < MaxEdits /\ edits' = edits + 1

SourceChanges == /\ Edit
                 /\ \E s \in Sources \ {source} : source' = s
                 /\ steady' = steady \cap Offered(source')
                 /\ UNCHANGED <<enabled, tables, job, faults>>

(* The overlap guard lets one run begin, which first writes the canteens   *)
(* of the registry (seedCanteens).                                         *)
Trigger ==
    /\ job.pc = "idle"
    /\ canteens' = Canteens
    /\ job' = [Idle EXCEPT !.pc = "begin"]
    /\ UNCHANGED <<world, meals, dictionary, synced, testRuns, faults>>

OpenRun ==
    /\ job.pc = "begin"
    /\ Current \in canteens
    /\ job' = [job EXCEPT !.pc = "fetch"]
    /\ UNCHANGED <<world, tables, faults>>

(* The source answers.  An answer without a named dish of this canteen is  *)
(* as good as empty; a broken one is not asked for again.                  *)
Fetched ==
    /\ job.pc = "fetch"
    /\ LET a == source[Current]
       IN  job' = IF a = Broken THEN [job EXCEPT !.pc = "failed"]
                  ELSE IF Named(a, Current) = {} THEN [job EXCEPT !.pc = "empty"]
                  ELSE [job EXCEPT !.pc = "persist", !.answer = a]
    /\ UNCHANGED <<world, tables, faults>>

(* No answer in time, no connection or a 5xx: asked again while attempts   *)
(* are left.  Other statuses fail at once.                                 *)
RequestFails ==
    /\ job.pc = "fetch"
    /\ Fault
    /\ \/ /\ job.tries < Retries
          /\ job' = [job EXCEPT !.tries = @ + 1]
       \/ job' = [job EXCEPT !.pc = "failed"]
    /\ UNCHANGED <<world, tables>>

(* The transaction: dishes are written, replaced or taken over, those not  *)
(* listed are withdrawn from the confirmed days.                           *)
RowOf(e) == [source |-> "meine-mensa", canteen |-> e.loc, date |-> e.date,
             dish |-> e.dish, prices |-> e.prices]
Stored(a, c, p) == RowOf(LastOf(a, c, p))
WithdrawnAnySource(a, c) ==         \* mutant: whoever wrote the row
    {p \in Plans : /\ meals[p] # None
                   /\ meals[p].canteen = c
                   /\ meals[p].date \in Confirmed(a, c)
                   /\ p \notin KeptIds(a, c)}
WithdrawnBeforeLast(a, c) ==        \* mutant: lt for lte
    {p \in WithdrawnAnySource(a, c) :
        /\ meals[p].source = "meine-mensa"
        /\ \E d \in NamedDates(a, c) : meals[p].date < d}
Withdrawn(a, c) ==
    {p \in Plans : /\ meals[p] # None
                   /\ meals[p].source = "meine-mensa"
                   /\ meals[p].canteen = c
                   /\ meals[p].date \in Confirmed(a, c)
                   /\ p \notin KeptIds(a, c)}
Persist ==
    /\ job.pc = "persist"
    /\ LET a == job.answer
           c == Current
       IN  /\ meals' = [p \in Plans |->
                          IF p \in NamedIds(a, c) THEN Stored(a, c, p)
                          ELSE IF p \in Withdrawn(a, c) THEN None
                          ELSE meals[p]]
           /\ dictionary' = [k \in Codes |->
                               IF Defined(a, k) # None THEN Defined(a, k)
                               ELSE dictionary[k]]
    /\ job' = [job EXCEPT !.pc = "success"]
    /\ UNCHANGED <<world, canteens, synced, testRuns, faults>>

(* The transaction is rolled back.                                         *)
PersistFails ==
    /\ job.pc = "persist"
    /\ Fault
    /\ job' = [job EXCEPT !.pc = "failed"]
    /\ UNCHANGED <<world, tables>>

(* The audit row is closed and the next canteen follows.                   *)
StampsAny(status) == TRUE           \* mutant
Stamps(status) == status = "success"
NextJobNone == Idle                 \* mutant: ends after the first canteen
NextJob == IF job.at = Len(Registry) THEN Idle
           ELSE [Idle EXCEPT !.pc = "begin", !.at = job.at + 1]
CloseRun ==
    /\ job.pc \in {"failed", "empty", "success"}
    /\ synced' = IF Stamps(job.pc) THEN synced \cup {Current} ELSE synced
    /\ job' = NextJob
    /\ UNCHANGED <<world, canteens, meals, dictionary, testRuns, faults>>

(* Opening or closing an audit row fails outside every try block: the run  *)
(* is over, the canteens behind this one are not synchronised.             *)
AuditFails ==
    /\ job.pc \in {"begin", "failed", "empty", "success"}
    /\ Fault
    /\ job' = Idle
    /\ UNCHANGED <<world, tables>>

Crash ==
    /\ job.pc # "idle"
    /\ Fault
    /\ job' = Idle
    /\ UNCHANGED <<world, tables>>

(***************************************************************************)
(* The user test                                                           *)
(***************************************************************************)
(* seed: writes its rows over those of the same numbers, removes what an   *)
(* earlier seed wrote, labels its codes, and reports a successful run for  *)
(* every canteen.                                                          *)
Seed ==
    /\ enabled
    /\ Edit
    /\ canteens' = Canteens
    /\ \E t \in TestMeals :
          meals' = [p \in Plans |->
                      IF p \in TestPlans /\ t[p] # None THEN t[p]
                      ELSE IF meals[p] # None /\ meals[p].source = "user-test" THEN None
                      ELSE meals[p]]
    /\ dictionary' = [k \in Codes |-> IF TestLabels[k] # None THEN TestLabels[k]
                                      ELSE dictionary[k]]
    /\ testRuns' = Canteens
    /\ UNCHANGED <<source, enabled, synced, job, steady, faults>>

IsTestRow(r) == r.source = "user-test"
Remove ==
    /\ Edit
    /\ meals' = [p \in Plans |-> IF meals[p] # None /\ IsTestRow(meals[p]) THEN None
                                 ELSE meals[p]]
    /\ testRuns' = {}
    /\ UNCHANGED <<source, enabled, canteens, dictionary, synced, job, steady, faults>>

(* The switch is changed and the processes are started again with it.      *)
Redeploy ==
    /\ Edit
    /\ enabled' = ~enabled
    /\ job' = Idle
    /\ UNCHANGED <<source, tables, steady, faults>>

SyncSteps == Trigger \/ OpenRun \/ Fetched \/ Persist \/ CloseRun
FaultSteps == RequestFails \/ PersistFails \/ AuditFails \/ Crash
TestSteps == Seed \/ Remove

Next == SourceChanges \/ SyncSteps \/ FaultSteps \/ TestSteps \/ Redeploy

Spec == Init /\ [][Next]_vars

(* Cron starts the run again and again, every request has a timeout, and a *)
(* statement returns or throws.                                            *)
FairSpec == Spec /\ WF_vars(SyncSteps)

(***************************************************************************)
(* Properties                                                              *)
(***************************************************************************)
TypeOK ==
    /\ source \in Sources /\ enabled \in BOOLEAN
    /\ canteens \subseteq Canteens
    /\ meals \in [Plans -> Row \cup {None}]
    /\ \A p \in Plans : meals[p] # None =>
          (meals[p].source = "user-test" <=> p \in TestPlans)
    /\ dictionary \in [Codes -> Labels \cup {None}]
    /\ synced \subseteq Canteens /\ testRuns \subseteq Canteens
    /\ job \in Job
    /\ (job.pc = "persist" => job.answer # None)
    /\ edits \in 0 .. MaxEdits /\ faults \in 0 .. MaxFaults

(* A canteen that reports a successful synchronisation serves everything   *)
(* its source has listed all along, exactly as listed: no run of the same  *)
(* or of the other canteen, no failure and no seed loses a dish again      *)
(* (persist, and where syncCanteen records "success").                     *)
StampHonest ==
    \A e \in steady : e.loc \in synced => meals[e.id] = RowOf(e)

(* "Real imports and the controlled user-test seed must never delete one   *)
(* another's data": no step changes rows of both (persist, seed, remove).  *)
RowsOf(src) == [p \in Plans |-> IF meals[p] # None /\ meals[p].source = src
                                THEN meals[p] ELSE None]
SourcesSeparate ==
    [][RowsOf("meine-mensa")' = RowsOf("meine-mensa") \/
       RowsOf("user-test")' = RowsOf("user-test")]_vars

(* The rule at the head of the service: "a failed, invalid or unexpectedly *)
(* empty upstream response must NEVER remove data that is already stored". *)
(* An imported dish leaves its day only if an answer names it elsewhere,   *)
(* or does not list it and speaks of that day: it names another dish, or   *)
(* says nothing of it between two days with names.                         *)
Imported == {p \in Plans : meals[p] # None /\ meals[p].source = "meine-mensa"}
SpeaksOf(a, c, d) ==
    \/ \E e \in Named(a, c) : e.date = d
    \/ /\ \E e, f \in Named(a, c) : e.date < d /\ d < f.date
       /\ \A e \in Placeholders(a, c) : e.date # d
Vouches(a, c, p, x, d) ==
    IF p \in NamedIds(a, c) THEN x = c /\ d = LastOf(a, c, p).date
    ELSE \/ \E e \in Placeholders(a, c) : e.id = p
         \/ x # c
         \/ ~SpeaksOf(a, c, d)
Vouched(a, c) ==
    {t \in Plans \X Canteens \X Dates : Vouches(a, c, t[1], t[2], t[3])}
Places == {<<p, meals[p].canteen, meals[p].date>> : p \in Imported}
Held == IF job.pc \in {"persist", "success"}
        THEN {[usable |-> TRUE, present |-> Vouched(job.answer, Current)]}
        ELSE {}
Source == {"meine-mensa"}
LG == INSTANCE LastGood WITH
        Owners <- Source, Items <- Plans \X Canteens \X Dates,
        store <- [o \in Source |-> Places], inbox <- [o \in Source |-> Held]
LastGoodKept == LG!Spec

Entries == UNION {UNION {Listed(s[c]) : c \in {d \in Canteens : s[d] # Broken}} : s \in Sources}

(* What a canteen alone keeps listing ends up stored as listed, for good,  *)
(* also when the dish came from the other canteen, and whatever run was    *)
(* broken off by a failing audit row (syncAll).                            *)
EndsUpServed == \A e \in Entries :
    <>[](e \in Offered(source)) => <>[](meals[e.id] = RowOf(e))

(* A dish its canteen has withdrawn ends up gone from the confirmed days   *)
(* (persist, deleteMany).                                                  *)
Withdraws(src, c, p) ==
    src[c] # Broken /\ NamedIds(src[c], c) # {} /\ p \notin KeptIds(src[c], c)
OnDayOf(src, c, p) ==
    /\ p \in Imported /\ meals[p].canteen = c
    /\ src[c] # Broken /\ meals[p].date \in Confirmed(src[c], c)
EndsUpWithdrawn == \A p \in Plans, c \in Canteens :
    <>[]Withdraws(source, c, p) => <>[](~OnDayOf(source, c, p))
=============================================================================
