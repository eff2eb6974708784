--------------------------- MODULE CanteenProofs ---------------------------
(***************************************************************************)
(* Proofs about Canteen, for any canteens, registry, answers, data sets of *)
(* the user test and bounds.                                               *)
(*                                                                         *)
(* The inductive invariant is CanteenInv.  StampHonest says that a dish    *)
(* which has been offered all along (steady) is stored as offered once its *)
(* canteen reports success.  It is preserved only because the answer a run *)
(* is about to apply agrees with everything steady: the entry it holds for *)
(* such a dish is the steady one, and the answer of another canteen does   *)
(* not name it (AnswerSound); and because success is reported for tables   *)
(* that already hold those entries (WrittenSound).                         *)
(***************************************************************************)
EXTENDS Canteen, TLAPS, NaturalsInduction, WellFoundedInduction

(***************************************************************************)
(* The last of several entries                                             *)
(***************************************************************************)
LEMMA NatMin ==
  ASSUME NEW T \in SUBSET Nat, T # {}
  PROVE  \E m \in T : \A x \in T : m <= x
  <1> DEFINE R == OpToRel(<, Nat)
  <1>1. \A x, y \in Nat : x < y => <<x, y>> \in R
        BY DEF OpToRel
  <1>2. IsWellFoundedOn(R, Nat)
        BY NatLessThanWellFounded
  <1> HIDE DEF R
  <1>3. PICK m \in T : \A y \in T : ~(<<y, m>> \in R)
        BY <1>2, WFMin
  <1>4. \A x \in T : ~(x < m)
        BY <1>1, <1>3
  <1>5. \A x \in T : x \in Nat /\ m \in Nat
        OBVIOUS
  <1>6. \A x \in T : m <= x
        BY <1>4, <1>5
  <1> QED BY <1>6

LEMMA LastIndex ==
  ASSUME NEW n \in Nat, NEW S \in SUBSET (1 .. n), S # {}
  PROVE  \E m \in S : \A x \in S : x <= m
  <1> DEFINE T == {n - x : x \in S}
  <1>0. \A x \in S : x \in Int /\ 1 <= x /\ x <= n
        OBVIOUS
  <1>1. \A x \in S : n - x \in Nat
        BY <1>0
  <1>2. T \in SUBSET Nat
        BY <1>1
  <1>3. T # {}
        OBVIOUS
  <1>4. PICK t \in T : \A u \in T : t <= u
        BY <1>2, <1>3, NatMin
  <1>5. PICK m \in S : t = n - m
        BY <1>4
  <1>6. \A x \in S : n - m <= n - x
        BY <1>4, <1>5
  <1>7. \A x \in S : x <= m
        BY <1>0, <1>6
  <1> QED BY <1>7

(* lastPerKey finds an entry of the answer that names the plan id.         *)
LEMMA LastOfNamed ==
  ASSUME NEW a \in Answer, NEW c \in Canteens, NEW p \in NamedIds(a, c)
  PROVE  LastOf(a, c, p) \in Named(a, c) /\ LastOf(a, c, p).id = p
  <1> DEFINE n == Len(a.list)
             At(i) == a.list[i] \in Named(a, c) /\ a.list[i].id = p
             S == {i \in 1 .. n : At(i)}
  <1>1. n \in Nat
        BY DEF Answer
  <1>2. S \in SUBSET (1 .. n) /\ S # {}
        BY DEF NamedIds, Named, Listed
  <1>3. PICK m \in S : \A i \in S : i <= m
        BY <1>1, <1>2, LastIndex
  <1>4. \E i \in 1 .. n : At(i) /\ \A j \in 1 .. n : At(j) => j <= i
        BY <1>3
  <1> DEFINE k == CHOOSE i \in 1 .. n : At(i) /\ \A j \in 1 .. n : At(j) => j <= i
  <1>5. At(k)
        BY <1>4
  <1>6. LastOf(a, c, p) = a.list[k]
        BY DEF LastOf
  <1> QED BY <1>5, <1>6

(***************************************************************************)
(* The invariant                                                           *)
(***************************************************************************)
(* An answer agrees with what is steady: it holds the steady entries of    *)
(* its canteen, and none for a dish that is steady elsewhere.              *)
Agrees(a, c) ==
    \A e \in steady :
        IF e.loc = c THEN e.id \in NamedIds(a, c) /\ LastOf(a, c, e.id) = e
                     ELSE e.id \notin NamedIds(a, c)
FromSource(a, c) == a # Broken /\ \E s \in Sources : a = s[c]

SteadyOffered == steady \subseteq Offered(source)
AnswerSound ==
    job.pc \in {"persist", "success"} =>
        /\ FromSource(job.answer, Current)
        /\ Named(job.answer, Current) # {}
        /\ Agrees(job.answer, Current)
WrittenSound ==
    job.pc = "success" => \A e \in steady : e.loc = Current => meals[e.id] = RowOf(e)

CanteenInv == TypeOK /\ SteadyOffered /\ AnswerSound /\ WrittenSound /\ StampHonest

(* TypeOK in parts.                                                        *)
MealsType ==
    /\ meals \in [Plans -> Row \cup {None}]
    /\ \A p \in Plans : meals[p] # None => (meals[p].source = "user-test" <=> p \in TestPlans)
TablesType ==
    /\ canteens \subseteq Canteens
    /\ dictionary \in [Codes -> Labels \cup {None}]
    /\ synced \subseteq Canteens /\ testRuns \subseteq Canteens
WorldType == source \in Sources /\ enabled \in BOOLEAN
JobType == job \in Job /\ (job.pc = "persist" => job.answer # None)
CountersType == edits \in 0 .. MaxEdits /\ faults \in 0 .. MaxFaults

LEMMA TypeParts ==
  TypeOK <=> MealsType /\ TablesType /\ WorldType /\ JobType /\ CountersType
  BY DEF TypeOK, MealsType, TablesType, WorldType, JobType, CountersType

LEMMA CurrentType == ASSUME JobType PROVE Current \in Canteens
  BY RegistryAssumption DEF JobType, Job, Current

LEMMA IdleType == Idle \in Job /\ Idle.pc = "idle" /\ Idle.answer = None
  BY RegistryAssumption, BoundsAssumption DEF Idle, Job

LEMMA NextJobType ==
  ASSUME JobType PROVE NextJob \in Job /\ NextJob.pc \in {"idle", "begin"}
  <1>1. job.at \in 1 .. Len(Registry) /\ Len(Registry) \in Nat
        BY RegistryAssumption DEF JobType, Job
  <1>2. CASE job.at = Len(Registry)
        BY <1>2, IdleType DEF NextJob
  <1>3. CASE job.at # Len(Registry)
    <2>1. job.at + 1 \in 1 .. Len(Registry)
          BY <1>1, <1>3
    <2> QED BY <1>3, <2>1, IdleType DEF NextJob, Idle, Job
  <1> QED BY <1>2, <1>3

(* An answer of the source is an answer, and numbers no dish as the user   *)
(* test does.                                                              *)
LEMMA AnswerOfSource ==
  ASSUME NEW c \in Canteens, NEW a, FromSource(a, c)
  PROVE  /\ a \in Answer /\ a # None
         /\ \A e \in Listed(a) : e \in Entry /\ e.id \notin TestPlans
  <1>1. PICK s \in Sources : a = s[c] /\ s[c] # Broken
        BY DEF FromSource
  <1>2. a \in Answer
        BY <1>1, DataAssumption
  <1>3. a.list \in Seq(Entry)
        BY <1>2 DEF Answer
  <1>4. \A i \in 1 .. Len(a.list) : a.list[i] \in Entry /\ a.list[i].id \notin TestPlans
        BY <1>1, <1>3, NumbersAssumption
  <1> QED BY <1>2, <1>4, DataAssumption DEF Listed

(* What the transaction writes for a plan id: the row of an entry of the   *)
(* answer that names it.                                                   *)
LEMMA StoredType ==
  ASSUME NEW c \in Canteens, NEW a, FromSource(a, c), NEW p \in NamedIds(a, c)
  PROVE  /\ Stored(a, c, p) \in Row
         /\ Stored(a, c, p).source = "meine-mensa" /\ Stored(a, c, p).canteen = c
         /\ Stored(a, c, p).date = LastOf(a, c, p).date
         /\ p \in Plans \ TestPlans
  <1> DEFINE e == LastOf(a, c, p)
  <1>1. e \in Named(a, c) /\ e.id = p
        BY AnswerOfSource, LastOfNamed
  <1>2. e \in Entry /\ e.id \notin TestPlans /\ e.loc = c /\ e.dish # Blank
        BY <1>1, AnswerOfSource DEF Named
  <1> HIDE DEF e
  <1>3. /\ e.dish \in Dishes /\ e.id \in Plans /\ e.loc \in Canteens
        /\ e.date \in Dates /\ e.prices \in PriceLists
        BY <1>2 DEF Entry
  <1>4. RowOf(e) \in Row /\ RowOf(e).source = "meine-mensa" /\ RowOf(e).canteen = c
        /\ RowOf(e).date = e.date
        BY <1>2, <1>3 DEF RowOf, Row
  <1> QED BY <1>1, <1>2, <1>3, <1>4 DEF e, Stored

(* What is offered is named by the answer to its own canteen only, and     *)
(* never carries a number of the user test.                                *)
LEMMA OfferedSound ==
  ASSUME NEW src \in Sources, NEW e \in Offered(src)
  PROVE  /\ e.loc \in Canteens /\ src[e.loc] # Broken
         /\ e.id \in NamedIds(src[e.loc], e.loc) /\ LastOf(src[e.loc], e.loc, e.id) = e
         /\ \A d \in Canteens \ {e.loc} : src[d] # Broken => e.id \notin NamedIds(src[d], d)
         /\ e.id \in Plans \ TestPlans /\ RowOf(e) \in Row
  <1>1. PICK c \in Canteens : e \in OfferedBy(src, c)
        BY DEF Offered
  <1>2. src[c] # Broken
        BY <1>1 DEF OfferedBy
  <1>3. PICK p \in NamedIds(src[c], c) :
            /\ e = LastOf(src[c], c, p)
            /\ \A d \in Canteens \ {c} : src[d] # Broken => p \notin NamedIds(src[d], d)
        BY <1>1, <1>2 DEF OfferedBy
  <1>4. FromSource(src[c], c)
        BY <1>2 DEF FromSource
  <1>5. e \in Named(src[c], c) /\ e.id = p
        BY <1>3, <1>4, AnswerOfSource, LastOfNamed
  <1>6. e.loc = c
        BY <1>5 DEF Named
  <1>7. e.id \in Plans \ TestPlans /\ RowOf(e) \in Row
        BY <1>3, <1>4, <1>5, StoredType DEF Stored
  <1> QED BY <1>2, <1>3, <1>5, <1>6, <1>7

(* Hence the answer that a run receives agrees with what is steady.        *)
LEMMA AnswerAgrees ==
  ASSUME WorldType, SteadyOffered, NEW c \in Canteens, source[c] # Broken
  PROVE  FromSource(source[c], c) /\ Agrees(source[c], c)
  <1>1. source \in Sources
        BY DEF WorldType
  <1>2. \A e \in steady : e \in Offered(source)
        BY DEF SteadyOffered
  <1>3. ASSUME NEW e \in steady
        PROVE  IF e.loc = c THEN e.id \in NamedIds(source[c], c) /\ LastOf(source[c], c, e.id) = e
                            ELSE e.id \notin NamedIds(source[c], c)
        BY <1>1, <1>2, OfferedSound
  <1> QED BY <1>1, <1>3 DEF Agrees, FromSource

(* Less steady, and no change of the job, keeps what the run holds.        *)
LEMMA SteadyShrinks ==
  ASSUME AnswerSound, WrittenSound, StampHonest, steady' \subseteq steady,
         UNCHANGED <<job, synced>>,
         \A e \in steady' : meals[e.id] = RowOf(e) => meals'[e.id] = RowOf(e)
  PROVE  AnswerSound' /\ WrittenSound' /\ StampHonest'
  <1>1. UNCHANGED Current
        BY DEF Current
  <1>2. AnswerSound'
        BY <1>1 DEF AnswerSound, Agrees, FromSource
  <1>3. WrittenSound'
        BY <1>1 DEF WrittenSound
  <1>4. StampHonest'
        BY DEF StampHonest
  <1> QED BY <1>2, <1>3, <1>4

(* A job that holds no answer needs nothing but the tables.                *)
LEMMA NothingHeld ==
  ASSUME SteadyOffered, StampHonest, UNCHANGED <<source, steady, meals, synced>>,
         job'.pc \notin {"persist", "success"}
  PROVE  SteadyOffered' /\ AnswerSound' /\ WrittenSound' /\ StampHonest'
  BY DEF SteadyOffered, AnswerSound, WrittenSound, StampHonest, Offered, OfferedBy

LEMMA FaultType == CountersType /\ Fault /\ edits' = edits => CountersType'
  BY BoundsAssumption DEF CountersType, Fault
LEMMA EditType == CountersType /\ Edit /\ faults' = faults => CountersType'
  BY BoundsAssumption DEF CountersType, Edit

LEMMA InitInv == Init => CanteenInv
  <1> SUFFICES ASSUME Init PROVE CanteenInv
      OBVIOUS
  <1>1. TypeOK
        BY IdleType, BoundsAssumption DEF Init, TypeOK
  <1>2. SteadyOffered /\ AnswerSound /\ WrittenSound /\ StampHonest
        BY IdleType DEF Init, SteadyOffered, AnswerSound, WrittenSound, StampHonest
  <1> QED BY <1>1, <1>2 DEF CanteenInv

(***************************************************************************)
(* Steps of the run that leave the dishes alone                            *)
(***************************************************************************)
LEMMA InvWorld == CanteenInv /\ (SourceChanges \/ Redeploy) => CanteenInv'
  <1> SUFFICES ASSUME CanteenInv, SourceChanges \/ Redeploy PROVE CanteenInv'
      OBVIOUS
  <1> USE TypeParts DEF CanteenInv, tables
  <1>1. CASE SourceChanges
    <2>1. TypeOK'
          BY <1>1, EditType DEF SourceChanges, MealsType, TablesType, WorldType, JobType, CountersType,
                                TypeOK
    <2>2. SteadyOffered' /\ steady' \subseteq steady
          BY <1>1 DEF SourceChanges, SteadyOffered, Offered, OfferedBy
    <2>3. AnswerSound' /\ WrittenSound' /\ StampHonest'
          BY <1>1, <2>2, SteadyShrinks DEF SourceChanges
    <2> QED BY <2>1, <2>2, <2>3
  <1>2. CASE Redeploy
    <2>1. TypeOK'
          BY <1>2, EditType, IdleType DEF Redeploy, MealsType, TablesType, WorldType, JobType,
                                CountersType, TypeOK
    <2>2. SteadyOffered' /\ AnswerSound' /\ WrittenSound' /\ StampHonest'
          BY <1>2, IdleType, NothingHeld DEF Redeploy
    <2> QED BY <2>1, <2>2
  <1> QED BY <1>1, <1>2

LEMMA InvBegin == CanteenInv /\ (Trigger \/ OpenRun) => CanteenInv'
  <1> SUFFICES ASSUME CanteenInv, Trigger \/ OpenRun PROVE CanteenInv'
      OBVIOUS
  <1> USE TypeParts DEF CanteenInv, tables, world
  <1>1. job' \in Job /\ job'.pc \in {"begin", "fetch"}
    <2>1. CASE Trigger
          BY <2>1, IdleType DEF Trigger, Idle, Job
    <2>2. CASE OpenRun
          BY <2>2 DEF OpenRun, Job, JobType
    <2> QED BY <2>1, <2>2
  <1>2. TypeOK'
        BY <1>1 DEF Trigger, OpenRun, MealsType, TablesType, WorldType, JobType, CountersType, TypeOK
  <1>3. SteadyOffered' /\ AnswerSound' /\ WrittenSound' /\ StampHonest'
        BY <1>1, NothingHeld DEF Trigger, OpenRun
  <1> QED BY <1>2, <1>3

LEMMA InvFault == CanteenInv /\ FaultSteps => CanteenInv'
  <1> SUFFICES ASSUME CanteenInv, FaultSteps PROVE CanteenInv'
      OBVIOUS
  <1> USE TypeParts DEF CanteenInv, tables, world
  <1>1. UNCHANGED <<world, tables>> /\ Fault
        BY DEF FaultSteps, RequestFails, PersistFails, AuditFails, Crash
  <1>2. job' \in Job /\ job'.pc \in {"idle", "fetch", "failed"}
    <2>1. CASE RequestFails
      <3>1. job.tries < Retries => job.tries + 1 \in 0 .. Retries
            BY BoundsAssumption DEF JobType, Job
      <3> QED BY <2>1, <3>1 DEF RequestFails, JobType, Job
    <2>2. CASE PersistFails
          BY <2>2 DEF PersistFails, JobType, Job
    <2>3. CASE AuditFails \/ Crash
          BY <2>3, IdleType DEF AuditFails, Crash
    <2> QED BY <2>1, <2>2, <2>3 DEF FaultSteps
  <1>3. TypeOK'
        BY <1>1, <1>2, FaultType DEF MealsType, TablesType, WorldType, JobType, CountersType, TypeOK
  <1>4. SteadyOffered' /\ AnswerSound' /\ WrittenSound' /\ StampHonest'
        BY <1>1, <1>2, NothingHeld
  <1> QED BY <1>3, <1>4

LEMMA InvFetched == CanteenInv /\ Fetched => CanteenInv'
  <1> SUFFICES ASSUME CanteenInv, Fetched PROVE CanteenInv'
      OBVIOUS
  <1> USE TypeParts DEF CanteenInv, tables, world
  <1> DEFINE a == source[Current]
  <1>1. Current \in Canteens
        BY CurrentType
  <1>2. CASE a = Broken \/ Named(a, Current) = {}
    <2>1. job' \in Job /\ job'.pc \in {"failed", "empty"}
          BY <1>2 DEF Fetched, JobType, Job
    <2>2. TypeOK'
          BY <2>1 DEF Fetched, MealsType, TablesType, WorldType, JobType, CountersType, TypeOK
    <2>3. SteadyOffered' /\ AnswerSound' /\ WrittenSound' /\ StampHonest'
          BY <2>1, NothingHeld DEF Fetched
    <2> QED BY <2>2, <2>3
  <1>3. CASE a # Broken /\ Named(a, Current) # {}
    <2>1. FromSource(a, Current) /\ Agrees(a, Current)
          BY <1>1, <1>3, AnswerAgrees
    <2>2. a \in Answer /\ a # None
          BY <1>1, <2>1, AnswerOfSource
    <2>3. job' = [job EXCEPT !.pc = "persist", !.answer = a]
          BY <1>3 DEF Fetched
    <2>4. job' \in Job /\ job'.pc = "persist" /\ job'.answer = a /\ job'.at = job.at
          BY <2>2, <2>3 DEF JobType, Job
    <2>5. TypeOK'
          BY <2>2, <2>4 DEF Fetched, MealsType, TablesType, WorldType, JobType, CountersType, TypeOK
    <2>6. Current' = Current
          BY <2>4 DEF Current
    <2>7. AnswerSound'
          BY <1>3, <2>1, <2>4, <2>6 DEF AnswerSound, FromSource, Agrees, Fetched
    <2>8. SteadyOffered' /\ WrittenSound' /\ StampHonest'
          BY <2>4 DEF Fetched, SteadyOffered, Offered, OfferedBy, WrittenSound, StampHonest
    <2> QED BY <2>5, <2>7, <2>8
  <1> QED BY <1>2, <1>3

LEMMA InvClose == CanteenInv /\ CloseRun => CanteenInv'
  <1> SUFFICES ASSUME CanteenInv, CloseRun PROVE CanteenInv'
      OBVIOUS
  <1> USE TypeParts DEF CanteenInv, tables, world
  <1>1. job' \in Job /\ job'.pc \in {"idle", "begin"}
        BY NextJobType DEF CloseRun
  <1>2. Current \in Canteens
        BY CurrentType
  <1>3. TypeOK'
        BY <1>1, <1>2 DEF CloseRun, MealsType, TablesType, WorldType, JobType, CountersType, TypeOK
  <1>4. SteadyOffered' /\ AnswerSound' /\ WrittenSound'
        BY <1>1 DEF CloseRun, SteadyOffered, Offered, OfferedBy, AnswerSound, WrittenSound
  <1>5. StampHonest'
        BY DEF CloseRun, Stamps, StampHonest, WrittenSound
  <1> QED BY <1>3, <1>4, <1>5

(***************************************************************************)
(* The transaction                                                         *)
(***************************************************************************)
LEMMA PersistRows ==
  ASSUME CanteenInv, Persist
  PROVE  LET a == job.answer
             c == Current
         IN  /\ Current \in Canteens /\ FromSource(a, c) /\ Agrees(a, c)
             /\ \A p \in Plans : p \in NamedIds(a, c) => meals'[p] = Stored(a, c, p)
             /\ \A p \in Plans : p \in Withdrawn(a, c) \ NamedIds(a, c) => meals'[p] = None
             /\ \A p \in Plans : p \notin Withdrawn(a, c) \cup NamedIds(a, c) =>
                                    meals'[p] = meals[p]
             /\ job' = [job EXCEPT !.pc = "success"] /\ Current' = Current
  BY TypeParts, CurrentType DEF Persist, CanteenInv, AnswerSound, Current, JobType, Job

LEMMA InvPersist == CanteenInv /\ Persist => CanteenInv'
  <1> SUFFICES ASSUME CanteenInv, Persist PROVE CanteenInv'
      OBVIOUS
  <1> USE TypeParts DEF CanteenInv, tables, world
  <1> DEFINE a == job.answer
             c == Current
  <1>1. /\ c \in Canteens /\ FromSource(a, c) /\ Agrees(a, c) /\ Current' = c
        /\ job' = [job EXCEPT !.pc = "success"]
        BY PersistRows
  <1>2. a \in Answer
        BY <1>1, AnswerOfSource
  <1>3. MealsType'
    <2>1. meals' = [p \in Plans |-> IF p \in NamedIds(a, c) THEN Stored(a, c, p)
                                    ELSE IF p \in Withdrawn(a, c) THEN None ELSE meals[p]]
          BY DEF Persist
    <2>2. \A p \in NamedIds(a, c) : /\ Stored(a, c, p) \in Row
                                    /\ Stored(a, c, p).source = "meine-mensa" /\ p \notin TestPlans
          BY <1>1, StoredType
    <2> HIDE DEF a, c
    <2> QED BY <2>1, <2>2 DEF MealsType
  <1>4. TablesType'
    <2>1. \A k \in Codes : Defined(a, k) \in Labels \cup {None}
          BY <1>2 DEF Answer, Defined
    <2>2. dictionary' = [k \in Codes |-> IF Defined(a, k) # None THEN Defined(a, k)
                                         ELSE dictionary[k]]
          BY DEF Persist
    <2> HIDE DEF a
    <2> QED BY <2>1, <2>2 DEF Persist, TablesType
  <1>5. JobType' /\ job'.pc = "success" /\ job'.answer = a
        BY <1>1 DEF JobType, Job
  <1>6. TypeOK'
        BY <1>3, <1>4, <1>5 DEF Persist, WorldType, CountersType, TypeOK, MealsType, TablesType, JobType
  <1>7. SteadyOffered'
        BY DEF Persist, SteadyOffered, Offered, OfferedBy
  <1>8. AnswerSound'
        BY <1>1, <1>5 DEF Persist, AnswerSound, FromSource, Agrees
  <1>9. ASSUME NEW e \in steady, e.loc = c PROVE meals'[e.id] = RowOf(e)
    <2>1. e.id \in NamedIds(a, c) /\ LastOf(a, c, e.id) = e
          BY <1>1, <1>9 DEF Agrees
    <2>2. e.id \in Plans
          BY <1>1, <2>1, StoredType
    <2>3. meals'[e.id] = Stored(a, c, e.id)
          BY <2>1, <2>2, PersistRows
    <2> QED BY <2>1, <2>3 DEF Stored
  <1>10. ASSUME NEW e \in steady, e.loc # c, meals[e.id] = RowOf(e)
         PROVE  meals'[e.id] = RowOf(e)
    <2>1. e.id \in Plans
          BY OfferedSound DEF SteadyOffered, WorldType
    <2>2. e.id \notin NamedIds(a, c)
          BY <1>1, <1>10 DEF Agrees
    <2>3. meals[e.id].canteen = e.loc
          BY <1>10 DEF RowOf
    <2>4. e.id \notin Withdrawn(a, c)
          BY <1>10, <2>3 DEF Withdrawn
    <2>5. meals'[e.id] = meals[e.id]
          BY <2>1, <2>2, <2>4, PersistRows
    <2> QED BY <1>10, <2>5
  <1>11. WrittenSound'
        BY <1>1, <1>9 DEF Persist, WrittenSound
  <1>12. StampHonest'
        BY <1>9, <1>10 DEF Persist, StampHonest
  <1> QED BY <1>6, <1>7, <1>8, <1>11, <1>12

(***************************************************************************)
(* The user test                                                           *)
(***************************************************************************)
(* Neither the seed nor the removal touches an imported dish, or leaves    *)
(* one of its own under a number of the source.                            *)
LEMMA TestRows ==
  ASSUME TypeOK, TestSteps
  PROVE  /\ MealsType'
         /\ \A p \in Plans : meals[p] # None /\ meals[p].source = "meine-mensa" =>
                                meals'[p] = meals[p]
         /\ \A p \in Plans : meals'[p] # None /\ meals'[p].source = "meine-mensa" =>
                                meals'[p] = meals[p]
  <1> USE TypeParts
  <1>1. CASE Seed
    <2>1. PICK t \in TestMeals :
              meals' = [p \in Plans |->
                          IF p \in TestPlans /\ t[p] # None THEN t[p]
                          ELSE IF meals[p] # None /\ meals[p].source = "user-test" THEN None
                          ELSE meals[p]]
          BY <1>1 DEF Seed
    <2>2. \A p \in TestPlans : t[p] # None => t[p] \in Row /\ t[p].source = "user-test"
          BY <2>1, DataAssumption
    <2> QED BY <2>1, <2>2 DEF MealsType
  <1>2. CASE Remove
        BY <1>2 DEF Remove, IsTestRow, MealsType
  <1> QED BY <1>1, <1>2 DEF TestSteps

LEMMA InvTest == CanteenInv /\ TestSteps => CanteenInv'
  <1> SUFFICES ASSUME CanteenInv, TestSteps PROVE CanteenInv'
      OBVIOUS
  <1> USE TypeParts DEF CanteenInv, tables, world
  <1>1. MealsType'
        BY TestRows
  <1>2. TablesType'
        BY DataAssumption DEF TestSteps, Seed, Remove, TablesType
  <1>3. UNCHANGED <<source, enabled, steady, job, synced>> /\ CountersType'
        BY EditType DEF TestSteps, Seed, Remove
  <1>4. TypeOK'
        BY <1>1, <1>2, <1>3 DEF MealsType, TablesType, WorldType, JobType, CountersType, TypeOK
  <1>5. ASSUME NEW e \in steady, meals[e.id] = RowOf(e) PROVE meals'[e.id] = RowOf(e)
    <2>1. e.id \in Plans \ TestPlans
          BY OfferedSound DEF SteadyOffered, WorldType
    <2>2. meals[e.id].source = "meine-mensa"
          BY <1>5 DEF RowOf
    <2>3. meals[e.id] # None
          BY <1>5, OfferedSound, DataAssumption DEF SteadyOffered, WorldType
    <2> QED BY <1>5, <2>1, <2>2, <2>3, TestRows
  <1>6. SteadyOffered'
        BY <1>3 DEF SteadyOffered, Offered, OfferedBy
  <1>7. AnswerSound' /\ WrittenSound' /\ StampHonest'
        BY <1>3, <1>5, SteadyShrinks
  <1> QED BY <1>4, <1>6, <1>7

LEMMA InvNext == CanteenInv /\ [Next]_vars => CanteenInv'
  <1> SUFFICES ASSUME CanteenInv, [Next]_vars PROVE CanteenInv'
      OBVIOUS
  <1>1. CASE Next
        BY <1>1, InvWorld, InvBegin, InvFetched, InvPersist, InvClose, InvFault, InvTest
        DEF Next, SyncSteps
  <1>2. CASE UNCHANGED vars
        BY <1>2 DEF vars, CanteenInv, TypeOK, SteadyOffered, Offered, OfferedBy, AnswerSound,
                    FromSource, Agrees, Current, WrittenSound, StampHonest
  <1> QED BY <1>1, <1>2

LEMMA InvHolds == Spec => []CanteenInv
  <1> QED BY InitInv, InvNext, PTL DEF Spec

(* The tables and the run of the worker always have their shape; a row     *)
(* belongs to the user test if and only if its number does.                *)
THEOREM TypeOKHolds == Spec => []TypeOK
  <1>1. CanteenInv => TypeOK
        BY DEF CanteenInv
  <1> QED BY <1>1, InvHolds, PTL

(* A canteen with a successful synchronisation serves what its source has  *)
(* listed all along, whatever the other canteen's runs, failures and the   *)
(* user test do to the same table.                                         *)
THEOREM StampHonestHolds == Spec => []StampHonest
  <1>1. CanteenInv => StampHonest
        BY DEF CanteenInv
  <1> QED BY <1>1, InvHolds, PTL

(***************************************************************************)
(* Imports and seeds leave each other alone                                *)
(***************************************************************************)
LEMMA SeparateStep ==
  CanteenInv /\ [Next]_vars =>
    [RowsOf("meine-mensa")' = RowsOf("meine-mensa") \/
     RowsOf("user-test")' = RowsOf("user-test")]_vars
  <1> SUFFICES ASSUME CanteenInv, Next
               PROVE  RowsOf("meine-mensa")' = RowsOf("meine-mensa") \/
                      RowsOf("user-test")' = RowsOf("user-test")
      OBVIOUS
  <1> USE TypeParts DEF CanteenInv
  <1>1. CASE UNCHANGED meals
        BY <1>1 DEF RowsOf
  <1>2. CASE Persist
    <2>1. ASSUME NEW p \in Plans
          PROVE  \/ meals'[p] = meals[p]
                 \/ /\ meals[p] = None \/ meals[p].source # "user-test"
                    /\ meals'[p] = None \/ meals'[p].source # "user-test"
      <3>1. CASE p \in NamedIds(job.answer, Current)
        <4>1. p \notin TestPlans /\ Stored(job.answer, Current, p).source = "meine-mensa"
              BY <1>2, <3>1, PersistRows, StoredType
        <4>2. meals'[p] = Stored(job.answer, Current, p)
              BY <1>2, <3>1, PersistRows
        <4> QED BY <4>1, <4>2 DEF MealsType
      <3>2. CASE p \in Withdrawn(job.answer, Current) \ NamedIds(job.answer, Current)
            BY <1>2, <3>2, PersistRows DEF Withdrawn
      <3>3. CASE p \notin Withdrawn(job.answer, Current) \cup NamedIds(job.answer, Current)
            BY <1>2, <3>3, PersistRows
      <3> QED BY <3>1, <3>2, <3>3
    <2> QED BY <2>1 DEF RowsOf
  <1>3. CASE TestSteps
        BY <1>3, TestRows DEF RowsOf
  <1>4. UNCHANGED meals \/ Persist \/ TestSteps
        BY DEF Next, SourceChanges, SyncSteps, Trigger, OpenRun, Fetched, CloseRun, FaultSteps,
               RequestFails, PersistFails, AuditFails, Crash, Redeploy, tables
  <1> QED BY <1>1, <1>2, <1>3, <1>4

(* No step of the import changes a row of the user test, and no seed or    *)
(* removal changes an imported one.                                        *)
THEOREM SourcesSeparateHolds == Spec => SourcesSeparate
  <1> QED BY InvHolds, SeparateStep, PTL DEF Spec, SourcesSeparate

(***************************************************************************)
(* The import implements LastGood                                          *)
(***************************************************************************)
LEMMA ForgetStep ==
  ASSUME UNCHANGED Places, Held' \subseteq Held, Held \subseteq LG!Answer
  PROVE  LG!Forget
  <1> DEFINE inb == [o \in Source |-> Held]
  <1>1. inb' \in [Source -> SUBSET LG!Answer]
        OBVIOUS
  <1>2. \A o \in Source : inb'[o] \subseteq inb[o]
        OBVIOUS
  <1> QED BY <1>1, <1>2 DEF LG!Forget

LEMMA AnswerVouched ==
  ASSUME NEW a, NEW c
  PROVE  [usable |-> TRUE, present |-> Vouched(a, c)] \in LG!Answer
  <1>1. Vouched(a, c) \in SUBSET (Plans \X Canteens \X Dates)
        BY DEF Vouched
  <1> QED BY <1>1 DEF LG!Answer

LEMMA HeldType == Held \subseteq LG!Answer
  BY AnswerVouched DEF Held

(* What is withdrawn lies on a day the answer speaks of.                   *)
LEMMA ConfirmedSpoken ==
  ASSUME NEW a \in Answer, NEW c \in Canteens, NEW d \in Confirmed(a, c),
         \A e \in Listed(a) : e \in Entry
  PROVE  SpeaksOf(a, c, d)
  <1>1. PICK x, y \in NamedDates(a, c) : x <= d /\ d <= y
        BY DEF Confirmed
  <1>2. PICK e, f \in Named(a, c) : e.date = x /\ f.date = y
        BY <1>1 DEF NamedDates
  <1>3. d \in Int /\ x \in Int /\ y \in Int
        BY <1>2, DataAssumption DEF Confirmed, Named, Entry
  <1>4. CASE d \in NamedDates(a, c)
        BY <1>4 DEF SpeaksOf, NamedDates
  <1>5. CASE d \notin NamedDates(a, c)
    <2>1. x < d /\ d < y
          BY <1>1, <1>3, <1>5
    <2>2. \A g \in Placeholders(a, c) : g.date # d
          BY <1>5 DEF Confirmed, BlankDates
    <2> QED BY <1>2, <2>1, <2>2 DEF SpeaksOf
  <1> QED BY <1>4, <1>5

LEMMA RefineInit == Init => LG!Init
  <1> SUFFICES ASSUME Init PROVE LG!Init
      OBVIOUS
  <1>1. Imported = {}
        BY DEF Init, Imported
  <1>2. Places = {} /\ Held = {}
        BY <1>1, IdleType DEF Init, Places, Held
  <1> QED BY <1>2 DEF LG!Init

(* The transaction applies the answer.                                     *)
LEMMA RefinePersist == CanteenInv /\ Persist => LG!Apply("meine-mensa")
  <1> SUFFICES ASSUME CanteenInv, Persist PROVE LG!Apply("meine-mensa")
      OBVIOUS
  <1> USE TypeParts DEF CanteenInv
  <1> DEFINE a == job.answer
             c == Current
             ans == [usable |-> TRUE, present |-> Vouched(a, c)]
  <1>1. /\ c \in Canteens /\ FromSource(a, c) /\ Current' = c
        /\ job' = [job EXCEPT !.pc = "success"]
        BY PersistRows
  <1>2. a \in Answer /\ \A e \in Listed(a) : e \in Entry
        BY <1>1, AnswerOfSource
  <1>3. Held = {ans} /\ Held' = {ans}
    <2>1. job.pc = "persist" /\ job'.pc = "success" /\ job'.answer = a
          BY <1>1 DEF Persist, JobType, Job
    <2> QED BY <1>1, <2>1 DEF Held, Vouched, Vouches
  <1>4. ASSUME NEW t \in Places, t \in Vouched(a, c) PROVE t \in Places'
    <2>1. PICK p \in Imported : t = <<p, meals[p].canteen, meals[p].date>>
          BY DEF Places
    <2>2. Vouches(a, c, p, meals[p].canteen, meals[p].date)
          BY <1>4, <2>1 DEF Vouched
    <2>3. p \in Plans /\ meals[p] # None /\ meals[p].source = "meine-mensa"
          BY <2>1 DEF Imported
    <2>4. CASE p \in NamedIds(a, c)
      <3>1. meals'[p] = Stored(a, c, p) /\ Stored(a, c, p) \in Row
            BY <1>1, <2>3, <2>4, PersistRows, StoredType
      <3>2. /\ meals'[p].source = "meine-mensa" /\ meals'[p].canteen = c
            /\ meals'[p].date = LastOf(a, c, p).date
            BY <1>1, <2>4, <3>1, StoredType
      <3>3. meals[p].canteen = c /\ meals[p].date = LastOf(a, c, p).date
            BY <2>2, <2>4 DEF Vouches
      <3>4. p \in Imported'
            BY <2>3, <3>1, <3>2, DataAssumption DEF Imported
      <3> QED BY <2>1, <3>2, <3>3, <3>4 DEF Places
    <2>5. CASE p \notin NamedIds(a, c)
      <3>1. p \notin Withdrawn(a, c)
        <4>1. CASE \E e \in Placeholders(a, c) : e.id = p
              BY <4>1 DEF Withdrawn, KeptIds
        <4>2. CASE meals[p].canteen # c
              BY <4>2 DEF Withdrawn
        <4>3. CASE ~SpeaksOf(a, c, meals[p].date)
              BY <1>1, <1>2, <4>3, ConfirmedSpoken DEF Withdrawn
        <4> QED BY <2>2, <2>5, <4>1, <4>2, <4>3 DEF Vouches
      <3>2. meals'[p] = meals[p]
            BY <2>3, <2>5, <3>1, PersistRows
      <3> QED BY <2>1, <2>3, <3>2 DEF Places, Imported
    <2> QED BY <2>4, <2>5
  <1>5. ASSUME NEW t \in Places' PROVE t \in Places \cup Vouched(a, c)
    <2>1. PICK p \in Imported' : t = <<p, meals'[p].canteen, meals'[p].date>>
          BY DEF Places
    <2>2. p \in Plans /\ meals'[p] # None /\ meals'[p].source = "meine-mensa"
          BY <2>1 DEF Imported
    <2>3. CASE p \in NamedIds(a, c)
      <3>1. meals'[p] = Stored(a, c, p) /\ Stored(a, c, p) \in Row
            BY <1>1, <2>2, <2>3, PersistRows, StoredType
      <3>2. meals'[p].canteen = c /\ meals'[p].date = LastOf(a, c, p).date
            BY <1>1, <2>3, <3>1, StoredType
      <3>3. meals'[p].date \in Dates
            BY <3>1 DEF Row
      <3> QED BY <1>1, <2>1, <2>2, <2>3, <3>2, <3>3 DEF Vouched, Vouches
    <2>4. CASE p \notin NamedIds(a, c)
      <3>1. meals'[p] = meals[p]
            BY <2>2, <2>4, PersistRows
      <3> QED BY <2>1, <2>2, <3>1 DEF Places, Imported
    <2> QED BY <2>3, <2>4
  <1> HIDE DEF a, c
  <1>6. Places \cap ans.present \subseteq Places' /\ Places' \subseteq Places \cup ans.present
        BY <1>4, <1>5
  <1>7. ans.usable
        OBVIOUS
  <1> HIDE DEF ans
  <1> QED BY <1>3, <1>6, <1>7 DEF LG!Apply, Source

LEMMA RefineStep == CanteenInv /\ [Next]_vars => [LG!Next]_(LG!vars)
  <1> SUFFICES ASSUME CanteenInv, [Next]_vars PROVE [LG!Next]_(LG!vars)
      OBVIOUS
  <1> USE TypeParts DEF CanteenInv
  <1>1. CASE Persist
        BY <1>1, RefinePersist DEF LG!Next, Source
  <1>2. CASE Fetched
    <2> DEFINE ans == [usable |-> TRUE, present |-> Vouched(job'.answer, Current')]
    <2>1. UNCHANGED Places /\ Held = {}
          BY <1>2 DEF Fetched, tables, Places, Imported, Held
    <2>2. Held' = {} \/ Held' = {ans}
          BY DEF Held
    <2>3. CASE Held' = {}
          BY <2>1, <2>3, ForgetStep, HeldType DEF LG!Next
    <2>4. CASE Held' = {ans}
      <3>1. ans \in LG!Answer
            BY AnswerVouched
      <3> HIDE DEF ans
      <3>2. LG!Receive("meine-mensa")
            BY <2>1, <2>4, <3>1 DEF LG!Receive, Source
      <3> QED BY <3>2 DEF LG!Next, Source
    <2> QED BY <2>2, <2>3, <2>4
  <1>3. CASE CloseRun \/ FaultSteps \/ Redeploy \/ Trigger \/ OpenRun
    <2>1. UNCHANGED Places
          BY <1>3 DEF CloseRun, FaultSteps, RequestFails, PersistFails, AuditFails, Crash, Redeploy,
                      Trigger, OpenRun, tables, Places, Imported
    <2>2. job'.pc \notin {"persist", "success"}
          BY <1>3, NextJobType, IdleType DEF CloseRun, FaultSteps, RequestFails, PersistFails,
             AuditFails, Crash, Redeploy, Trigger, OpenRun, JobType, Job
    <2>3. Held' = {}
          BY <2>2 DEF Held
    <2> QED BY <2>1, <2>3, ForgetStep, HeldType DEF LG!Next
  <1>4. CASE SourceChanges \/ TestSteps \/ UNCHANGED vars
    <2>1. UNCHANGED job /\ (UNCHANGED meals \/ TestSteps)
          BY <1>4 DEF SourceChanges, TestSteps, Seed, Remove, vars, tables
    <2>2. UNCHANGED Held
          BY <2>1 DEF Held, Current
    <2>3. UNCHANGED Places
      <3>1. CASE UNCHANGED meals
            BY <3>1 DEF Places, Imported
      <3>2. CASE TestSteps
            BY <3>2, TestRows DEF Places, Imported
      <3> QED BY <2>1, <3>1, <3>2
    <2> QED BY <2>2, <2>3 DEF LG!vars
  <1> QED BY <1>1, <1>2, <1>3, <1>4 DEF Next, SyncSteps

(* The import implements LastGood: an imported dish leaves its day only on *)
(* the strength of an answer that names it elsewhere, or that names dishes *)
(* around that day and not this one.                                       *)
THEOREM LastGoodHolds == Spec => LastGoodKept
  <1> QED BY InvHolds, RefineInit, RefineStep, PTL DEF Spec, LastGoodKept, LG!Spec
=============================================================================
