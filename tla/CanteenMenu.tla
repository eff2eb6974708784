----------------------------- MODULE CanteenMenu -----------------------------
(***************************************************************************)
(* GET /v1/canteens/{slug}/menu: the menu as clients get it while imports  *)
(* write the tables behind it.                                             *)
(*                                                                         *)
(* A menu is built by three queries that do not share a transaction: the   *)
(* dishes, the dictionary of codes, and then the prices of the rows the    *)
(* first query has returned.  Built menus are kept per canteen and range,  *)
(* the dictionary is kept longer and shared by all.  Requests for a menu   *)
(* in the making wait for it.                                              *)
(*                                                                         *)
(* The tables are written by whole transactions (see Canteen): a row keeps *)
(* its identity as long as its plan id stays stored.                       *)
(***************************************************************************)
EXTENDS Integers, Sequences, MealSemantics, TtlCache

CONSTANTS
    Plans,        \* plan ids
    Contents,     \* rows: [canteen, date, name, codes, sprint, prices]
    Imports,      \* what the imports may store: dishes and dictionary
    Keys,         \* requests: [canteen, from, to]
    MenuTtl,      \* MENU_CACHE_TTL_MS
    DictTtl,      \* the time the dictionary is kept
    Capacity,     \* DEFAULT_MAX_ENTRIES
    BuildTime,    \* bound: how long the queries of a build take
    MaxEdits,     \* bound: imports
    MaxFaults     \* bound: failed queries and restarts

Row == [row : 0 .. MaxEdits, is : Contents]
Table == [Plans -> Row \cup {None}]
Dictionary == [Codes -> Labels \cup {None}]

ASSUME MenuAssumption ==
    /\ Imports \subseteq [menu : [Plans -> Contents \cup {None}], dict : Dictionary]
    /\ \A x \in Contents : x.codes \subseteq Codes
    /\ None \notin Contents \cup Row \cup Table \cup Dictionary \cup Nat
    /\ MenuTtl \in Nat \ {0} /\ DictTtl \in Nat \ {0} /\ Capacity \in Nat \ {0}
    /\ BuildTime \in Nat /\ MaxEdits \in Nat /\ MaxFaults \in Nat

VARIABLES
    meals,        \* tables meals and meal_prices, with the identity of the rows
    labels,       \* table ingredient_definitions
    menuCache,    \* menuDaysCache
    dictCache,    \* definitionsCache
    dictFlight,   \* the dictionary query under way: its age, or None
    builds,       \* the menus in the making
    pending,      \* the keys of menuDaysCache that are in flight
    answer,       \* history: what a request has just been answered
    seen,         \* history: the import that the last answer for a key was built on
    gone,         \* history: the time since a plan id was last stored like this
    known,        \* history: the time since a code got its present label
    edits,        \* history: imports so far
    faults        \* history: faults so far

tables == <<meals, labels>>
caches == <<menuCache, dictCache>>
history == <<seen, gone, known>>
vars == <<meals, labels, menuCache, dictCache, dictFlight, builds, pending, answer,
          seen, gone, known, edits, faults>>

NewBuild(k, dict) == [key |-> k, age |-> 0, dishes |-> None, dict |-> dict, import |-> 0]
Revised(b, new) == (builds \ {b}) \cup {new}

(***************************************************************************)
(* Mapping rows to an answer                                               *)
(***************************************************************************)
(* The rows of a canteen and range, and the prices of rows by identity.    *)
InRangeExclusive(k, x) ==           \* mutant: lt for lte
    x.canteen = k.canteen /\ k.from <= x.date /\ x.date < k.to
InRange(k, x) == x.canteen = k.canteen /\ k.from <= x.date /\ x.date <= k.to
PricesOf(m, p, row) == IF m[p] # None /\ m[p].row = row THEN m[p].is.prices ELSE {}

(* A dish as it is delivered: its codes with their labels (a code that has *)
(* none is shown as it is), what it contains, and its prices.              *)
Dish(m, dict, p, r) ==
    LET x == r.is
        semantics == Classify(x.codes, x.sprint, dict)
    IN  [plan |-> p, name |-> x.name, markers |-> {<<c, dict[c]>> : c \in x.codes},
         traits |-> semantics.traits, allergens |-> semantics.allergens,
         prices |-> PricesOf(m, p, r.row)]

(* Every day of the range is there, also the empty ones.                   *)
Days(k, dishes, m, dict) ==
    [d \in k.from .. k.to |->
        {Dish(m, dict, p, dishes[p]) :
            p \in {q \in Plans : /\ dishes[q] # None
                                 /\ InRange(k, dishes[q].is)
                                 /\ dishes[q].is.date = d}}]

(***************************************************************************)
(* Imports                                                                 *)
(***************************************************************************)
ContentOf(r) == IF r = None THEN None ELSE r.is
Horizon == MenuTtl + BuildTime
Settling == MenuTtl + DictTtl + 2 * BuildTime

Init ==
    /\ \E i \in Imports : LET menu == i.menu IN
          /\ labels = i.dict
          /\ meals = [p \in Plans |-> IF menu[p] = None THEN None
                                      ELSE [row |-> 0, is |-> menu[p]]]
          /\ gone = [p \in Plans |-> [x \in Contents \cup {None} |->
                        IF menu[p] = x THEN 0 ELSE Horizon]]
    /\ known = [c \in Codes |-> Settling]
    /\ menuCache = EmptyCache /\ dictCache = EmptyCache /\ dictFlight = None
    /\ builds = {} /\ pending = {}
    /\ answer = None
    /\ seen = [k \in Keys |-> 0]
    /\ edits = 0 /\ faults = 0

Fault == faults < MaxFaults /\ faults' = faults + 1

(* An import commits.                                                      *)
Import ==
    /\ edits < MaxEdits
    /\ edits' = edits + 1
    /\ \E i \in Imports : LET menu == i.menu  dict == i.dict IN
          /\ meals' = [p \in Plans |->
                IF menu[p] = None THEN None
                ELSE [row |-> IF meals[p] = None THEN edits + 1 ELSE meals[p].row,
                      is |-> menu[p]]]
          /\ labels' = dict
          /\ gone' = [p \in Plans |-> [x \in Contents \cup {None} |->
                        IF menu[p] = x THEN 0 ELSE gone[p][x]]]
          /\ known' = [c \in Codes |-> IF dict[c] = labels[c] THEN known[c] ELSE 0]
    /\ answer' = None
    /\ UNCHANGED <<caches, dictFlight, builds, pending, seen, faults>>

(***************************************************************************)
(* Requests                                                                *)
(***************************************************************************)
(* A menu that is kept is delivered.                                       *)
Answers(k, value) == /\ answer' = [key |-> k, days |-> value.days]
                     /\ seen' = [seen EXCEPT ![k] = value.import]
Kept(k) ==
    /\ IsHit(menuCache, k)
    /\ menuCache' = Touched(menuCache, k)
    /\ Answers(k, Hit(menuCache, k))
    /\ UNCHANGED <<tables, dictCache, dictFlight, builds, pending, gone, known, edits, faults>>

(* Otherwise one build is begun, unless there is one already.  It takes    *)
(* the dictionary that is kept, or waits for the query under way, or       *)
(* starts it.                                                              *)
MayBeginAlways(k) == TRUE               \* mutant: every request builds
MayBegin(k) == k \notin pending
Begin(k) ==
    /\ ~IsHit(menuCache, k)
    /\ MayBegin(k)
    /\ menuCache' = Missed(menuCache, k)
    /\ pending' = pending \cup {k}
    /\ IF IsHit(dictCache, "all")
       THEN /\ builds' = builds \cup {NewBuild(k, Hit(dictCache, "all"))}
            /\ dictCache' = Touched(dictCache, "all")
            /\ UNCHANGED dictFlight
       ELSE /\ builds' = builds \cup {NewBuild(k, None)}
            /\ dictCache' = Missed(dictCache, "all")
            /\ dictFlight' = IF dictFlight = None THEN 0 ELSE dictFlight
    /\ answer' = None
    /\ UNCHANGED <<tables, history, edits, faults>>
Request(k) == Kept(k) \/ Begin(k)

(***************************************************************************)
(* Builds                                                                  *)
(***************************************************************************)
ReadDishes(b) ==
    /\ b.dishes = None
    /\ builds' = Revised(b, [b EXCEPT !.dishes = meals, !.import = edits])
    /\ answer' = None
    /\ UNCHANGED <<tables, caches, dictFlight, pending, history, edits, faults>>

(* The dictionary is kept and handed to every build that waits for it.     *)
Waiting(b) == b.dict = None
ReadDictionary ==
    /\ dictFlight # None
    /\ dictCache' = StoredIn(dictCache, "all", labels, DictTtl, 1)
    /\ dictFlight' = None
    /\ builds' = {IF Waiting(b) THEN [b EXCEPT !.dict = labels] ELSE b : b \in builds}
    /\ answer' = None
    /\ UNCHANGED <<tables, menuCache, pending, history, edits, faults>>

(* The prices of the rows that were read: the menu is complete, is kept    *)
(* and delivered to all who wait for it.                                   *)
ReadPrices(b) ==
    /\ b.dishes # None /\ ~Waiting(b)
    /\ LET value == [days |-> Days(b.key, b.dishes, meals, b.dict), import |-> b.import]
       IN  /\ menuCache' = StoredIn(menuCache, b.key, value, MenuTtl, Capacity)
           /\ Answers(b.key, value)
    /\ builds' = builds \ {b}
    /\ pending' = pending \ {b.key}
    /\ UNCHANGED <<tables, dictCache, dictFlight, gone, known, edits, faults>>

(* A query fails: so does the build, and nothing is kept.  A failing       *)
(* dictionary query fails every build that waits for it.                   *)
StillPending(keys) == pending           \* mutant: cleared only after success
Cleared(keys) == pending \ keys
BuildFails(b) ==
    /\ b.dishes = None \/ ~Waiting(b)
    /\ Fault
    /\ builds' = builds \ {b}
    /\ pending' = Cleared({b.key})
    /\ answer' = None
    /\ UNCHANGED <<tables, caches, dictFlight, history, edits>>
DictionaryFails ==
    /\ dictFlight # None
    /\ Fault
    /\ dictFlight' = None
    /\ LET failed == {b \in builds : Waiting(b)}
       IN  /\ builds' = builds \ failed
           /\ pending' = Cleared({b.key : b \in failed})
    /\ answer' = None
    /\ UNCHANGED <<tables, caches, history, edits>>

(* The API is started again.                                               *)
Restart ==
    /\ Fault
    /\ menuCache' = EmptyCache /\ dictCache' = EmptyCache /\ dictFlight' = None
    /\ builds' = {} /\ pending' = {}
    /\ answer' = None
    /\ UNCHANGED <<tables, history, edits>>

(* Time passes; no query takes longer than BuildTime.                      *)
UpTo(n, most) == IF n < most THEN n + 1 ELSE most
Tick ==
    /\ \A b \in builds : b.age < BuildTime
    /\ dictFlight # None => dictFlight < BuildTime
    /\ menuCache' = Aged(menuCache) /\ dictCache' = Aged(dictCache)
    /\ dictFlight' = IF dictFlight = None THEN None ELSE dictFlight + 1
    /\ builds' = {[b EXCEPT !.age = @ + 1] : b \in builds}
    /\ gone' = [p \in Plans |-> [x \in Contents \cup {None} |->
                  IF ContentOf(meals[p]) = x THEN 0 ELSE UpTo(gone[p][x], Horizon)]]
    /\ known' = [c \in Codes |-> UpTo(known[c], Settling)]
    /\ answer' = None
    /\ UNCHANGED <<tables, pending, seen, edits, faults>>

QuerySteps == ReadDictionary \/ \E b \in builds : ReadDishes(b) \/ ReadPrices(b)
FaultSteps == DictionaryFails \/ Restart \/ \E b \in builds : BuildFails(b)

Next == Import \/ (\E k \in Keys : Request(k)) \/ QuerySteps \/ FaultSteps \/ Tick

Spec == Init /\ [][Next]_vars

(* Queries return or throw, time passes, and clients keep asking.          *)
FairSpec == Spec /\ WF_vars(QuerySteps) /\ WF_vars(Tick)
                 /\ \A k \in Keys : WF_vars(Request(k))

(***************************************************************************)
(* Properties                                                              *)
(***************************************************************************)
TypeOK ==
    /\ meals \in Table /\ labels \in Dictionary
    /\ CacheOK(menuCache, Capacity) /\ CachedKeys(menuCache) \subseteq Keys
    /\ CacheOK(dictCache, 1) /\ CachedKeys(dictCache) \subseteq {"all"}
    /\ dictFlight \in {None} \cup 0 .. BuildTime
    /\ pending = {b.key : b \in builds} /\ pending \subseteq Keys
    /\ \A b \in builds : /\ b.age \in 0 .. BuildTime
                         /\ b.dishes \in Table \cup {None}
                         /\ Waiting(b) => dictFlight # None
    /\ edits \in 0 .. MaxEdits /\ faults \in 0 .. MaxFaults

(* What a request is told of a dish was stored not longer ago than a menu  *)
(* is built and kept, also when an import wrote while it was built, and so *)
(* were its prices (menuDaysCache, buildDays).                             *)
Shown == IF answer = None THEN {} ELSE UNION {answer.days[d] : d \in DOMAIN answer.days}
Recent(p) == {x \in Contents \cup {None} : gone[p][x] < Horizon}
MenuRecent ==
    \A s \in Shown :
        /\ \E x \in Recent(s.plan) \ {None} : x.name = s.name
        /\ \E x \in Recent(s.plan) : s.prices = IF x = None THEN {} ELSE x.prices

(* A dish that has been stored all that time is in every answer for its    *)
(* canteen and day, with its prices: no import, failure or restart makes   *)
(* it flicker.                                                             *)
SteadyShown ==
    answer # None => \A p \in Plans :
        LET x == ContentOf(meals[p])
        IN  /\ Recent(p) = {x} /\ x # None
            /\ x.canteen = answer.key.canteen
            /\ x.date \in answer.key.from .. answer.key.to
            => \E s \in answer.days[x.date] :
                    s.plan = p /\ s.name = x.name /\ s.prices = x.prices

(* Whoever must avoid something sees it: what a code or its label has      *)
(* stood for longer than both caches keep is among the allergens of every  *)
(* dish with that code, a subtype together with its parent (classifyMeal,  *)
(* definitionsCache).                                                      *)
Declared(c) == {a \in Allergens :
                   \/ CodeToAllergen[c] = a
                   \/ /\ CodeToAllergen[c] = None /\ labels[c] # None
                      /\ LabelToAllergen[labels[c]] = a}
AllergensKnown ==
    \A s \in Shown : \A m \in s.markers : known[m[1]] = Settling =>
        \A a \in Declared(m[1]) : a \in s.allergens /\ Parent[a] \in s.allergens \cup {None}

(* Nobody is shown an older menu after a newer one: concurrent requests    *)
(* share a build, so an overtaken one never replaces its successor         *)
(* (pending).                                                              *)
ServedForward == [][\A k \in Keys : seen'[k] >= seen[k]]_vars

(* Every menu keeps being answered, whatever has failed, and once imports  *)
(* stop the answers are what is stored (getOrSet, finally).                *)
Present(k) == Days(k, meals, meals, labels)
EndsUpFresh ==
    /\ \A k \in Keys : []<>(answer # None /\ answer.key = k)
    /\ <>[](answer # None => answer.days = Present(answer.key))
=============================================================================
