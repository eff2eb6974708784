------------------------ MODULE CalendarEventProofs ------------------------
(***************************************************************************)
(* The events of a public calendar, from the feed to the client.           *)
(*                                                                         *)
(* The first part is about the expansion of a feed, for every feed, window *)
(* and limits: what the walk emits, what it never loses, and what it       *)
(* charges to the limits.  A master is walked along the dates its rule     *)
(* gives.  They are followed here without an end (RuleDates); the          *)
(* reference looks at those up to its horizon, which are the first ones of *)
(* them.                                                                   *)
(*                                                                         *)
(* The second part is about the routes that serve the events, for any      *)
(* calendars, contents, limits and size of the index: how old, how         *)
(* complete and how named what they answer is.                             *)
(***************************************************************************)
EXTENDS IcsExpansion, CalendarReading, TLAPS, FiniteSetTheorems, WellFoundedInduction

(***************************************************************************)
(* Least and greatest elements                                             *)
(***************************************************************************)
LEMMA LeastOfNaturals ==
    ASSUME NEW S \in SUBSET Nat, S # {}
    PROVE  \E n \in S : \A m \in S : n <= m
<1> DEFINE R == OpToRel(<, Nat)
<1>1. \A x, y \in Nat : <<x, y>> \in R <=> x < y
    BY DEF OpToRel
<1>2. IsWellFoundedOn(R, Nat)
    BY NatLessThanWellFounded
<1> HIDE DEF R
<1>3. PICK n \in S : \A m \in S : ~(<<m, n>> \in R)
    BY <1>2, WFMin
<1>4. ASSUME NEW m \in S PROVE n <= m
    <2>1. n \in Nat /\ m \in Nat
        OBVIOUS
    <2>2. ~(m < n)
        BY <1>1, <1>3, <2>1
    <2> QED
        BY <2>1, <2>2
<1> QED
    BY <1>4

(* By the size of the smallest set that has none.                          *)
Bounded(S) == /\ \E x \in S : \A y \in S : x <= y
              /\ \E x \in S : \A y \in S : y <= x
LEMMA FiniteBounded ==
    ASSUME NEW S, IsFiniteSet(S), S # {}, S \subseteq Int
    PROVE  Bounded(S)
<1> DEFINE Sizes == {Cardinality(T) : T \in {U \in SUBSET S : U # {} /\ ~Bounded(U)}}
<1>1. ASSUME NEW T \in SUBSET S PROVE IsFiniteSet(T) /\ Cardinality(T) \in Nat
    BY FS_Subset, FS_CardinalityType
<1>2. SUFFICES ASSUME Sizes # {} PROVE FALSE
    OBVIOUS
<1>3. PICK n \in Sizes : \A m \in Sizes : n <= m
    <2>1. Sizes \in SUBSET Nat
        BY <1>1
    <2> HIDE DEF Sizes
    <2> QED
        BY <1>2, <2>1, LeastOfNaturals
<1>4. PICK T \in SUBSET S : T # {} /\ ~Bounded(T) /\ n = Cardinality(T)
    OBVIOUS
<1>5. PICK x \in T : TRUE
    BY <1>4
<1> DEFINE U == T \ {x}
<1>6. U \in SUBSET S /\ Cardinality(U) = n - 1 /\ n \in Nat
    BY <1>1, <1>4, FS_RemoveElement
<1>7. U # {} => Bounded(U)
    <2> SUFFICES ASSUME U # {}, ~Bounded(U) PROVE FALSE
        OBVIOUS
    <2>1. Cardinality(U) \in Sizes
        BY <1>6
    <2> HIDE DEF U, Sizes
    <2> QED
        BY <1>3, <1>6, <2>1
<1>8. T = U \cup {x} /\ \A y \in T : y \in Int
    BY <1>4, <1>5
<1> HIDE DEF U, Sizes
<1>9. CASE U = {}
    BY <1>4, <1>5, <1>8, <1>9 DEF Bounded
<1>10. CASE U # {}
    <2>1. PICK a \in U : \A y \in U : a <= y
        BY <1>7, <1>10 DEF Bounded
    <2>2. PICK b \in U : \A y \in U : y <= b
        BY <1>7, <1>10 DEF Bounded
    <2>3. \E z \in T : \A y \in T : z <= y
        <3>1. CASE x <= a
            BY <1>8, <2>1, <3>1
        <3>2. CASE a <= x
            BY <1>8, <2>1, <3>2
        <3> QED
            BY <1>8, <3>1, <3>2
    <2>4. \E z \in T : \A y \in T : y <= z
        <3>1. CASE b <= x
            BY <1>8, <2>2, <3>1
        <3>2. CASE x <= b
            BY <1>8, <2>2, <3>2
        <3> QED
            BY <1>8, <3>1, <3>2
    <2> QED
        BY <1>4, <2>3, <2>4 DEF Bounded
<1> QED
    BY <1>9, <1>10

LEMMA Extremes ==
    ASSUME NEW S, IsFiniteSet(S), S # {}, S \subseteq Int
    PROVE  /\ Least(S) \in S /\ \A x \in S : Least(S) <= x
           /\ Greatest(S) \in S /\ \A x \in S : x <= Greatest(S)
BY FiniteBounded DEF Bounded, Least, Greatest

(***************************************************************************)
(* Clocks.  Away from the changes of the clocks one correction is enough,  *)
(* and what is later on the clock is later in time.                        *)
(***************************************************************************)
QuietAt(t) == t \notin Spring .. Spring + 2 * Hour - 1 /\ t \notin Autumn .. Autumn + 2 * Hour - 1
OnClock(t, clock) == clock = "floating" => QuietAt(t)

LEMMA QuietConversion ==
    ASSUME NEW t \in Int
    PROVE  /\ ZonedWallClockToUtc(t) \in Int
           /\ ZonedWallClockToUtc(t) >= t - 2 * Hour
           /\ QuietAt(t) => ZonedWallClockToUtc(t) = ToUtc(t)
           /\ QuietAt(t) => \A s \in Int : s < t /\ QuietAt(s) =>
                 ZonedWallClockToUtc(s) < ZonedWallClockToUtc(t)
BY ClockAssumption DEF QuietAt, ZonedWallClockToUtc, ToUtc, Offset

LEMMA Absolute ==
    ASSUME NEW t \in Int, NEW clock
    PROVE  /\ ToAbsolute(t, clock) \in Int
           /\ ToAbsolute(t, clock) >= t - 2 * Hour
           /\ OnClock(t, clock) => \A s \in Int : s < t /\ OnClock(s, clock) =>
                 ToAbsolute(s, clock) < ToAbsolute(t, clock)
<1>1. Hour \in Nat
    BY ClockAssumption
<1> QED
    BY <1>1, QuietConversion DEF ToAbsolute, OnClock

(***************************************************************************)
(* The dates of a rule                                                     *)
(***************************************************************************)
IsRule(m) == /\ m \in Component /\ IsFiniteSet(m.dates) /\ m.dates # {}
After(m, k) == Greatest(m.dates) + k * m.every
RuleDates(m) ==
    m.dates \cup {After(m, k) : k \in IF m.every = 0 THEN {} ELSE Nat \ {0}}

LEMMA RuleBounds ==
    ASSUME NEW m, IsRule(m)
    PROVE  /\ m.dates \subseteq Int /\ m.every \in Nat /\ m.length \in Nat
           /\ Least(m.dates) \in m.dates /\ \A x \in m.dates : Least(m.dates) <= x
           /\ Greatest(m.dates) \in m.dates /\ \A x \in m.dates : x <= Greatest(m.dates)
           /\ RuleDates(m) \subseteq Int
<1>1. m.dates \subseteq Int /\ m.every \in Nat /\ m.length \in Nat
    BY DEF IsRule, Component
<1>2. /\ Least(m.dates) \in m.dates /\ \A x \in m.dates : Least(m.dates) <= x
      /\ Greatest(m.dates) \in m.dates /\ \A x \in m.dates : x <= Greatest(m.dates)
    BY <1>1, Extremes DEF IsRule
<1>3. ASSUME NEW k \in Nat PROVE After(m, k) \in Int
    BY <1>1, <1>2 DEF After
<1> QED
    BY <1>1, <1>2, <1>3 DEF RuleDates

LEMMA Steps ==
    ASSUME NEW e \in Nat, e > 0, NEW j \in Nat, NEW k \in Nat
    PROVE  /\ k * e >= k
           /\ (k + 1) * e = k * e + e
           /\ j < k => j * e + e <= k * e
           /\ j * e < k * e => j < k
<1>1. ASSUME NEW i \in Nat PROVE i * e >= i /\ i * e \in Nat
    <2>1. i * (e - 1) \in Nat
        BY SMT
    <2>2. i * e = i * (e - 1) + i
        BY SMT
    <2> QED
        BY <2>1, <2>2
<1>2. (k + 1) * e = k * e + e
    BY SMT
<1>3. ASSUME j < k PROVE j * e + e <= k * e
    <2>1. k - j - 1 \in Nat
        BY <1>3
    <2>2. (k - j - 1) * e \in Nat
        BY <1>1, <2>1
    <2>3. k * e = j * e + e + (k - j - 1) * e
        BY SMT
    <2> QED
        BY <1>1, <2>2, <2>3
<1>4. ASSUME j * e < k * e PROVE j < k
    <2>1. CASE j = k
        BY <1>1, <1>4, <2>1
    <2>2. CASE k < j
        <3>1. j - k \in Nat
            BY <2>2
        <3>2. (j - k) * e \in Nat
            BY <1>1, <3>1
        <3>3. j * e = k * e + (j - k) * e
            BY SMT
        <3> QED
            BY <1>1, <1>4, <3>2, <3>3
    <2> QED
        BY <2>1, <2>2
<1> QED
    BY <1>1, <1>2, <1>3, <1>4

(* The iterator delivers the dates of a rule one after the other.          *)
LEMMA NextDateRight ==
    ASSUME NEW m, IsRule(m), NEW x \in RuleDates(m) \cup {None}
    PROVE  \/ /\ NextDate(m, x) = None /\ x # None
              /\ \A y \in RuleDates(m) : y <= x
           \/ /\ NextDate(m, x) \in RuleDates(m)
              /\ x # None => x < NextDate(m, x)
              /\ \A y \in RuleDates(m) : x = None \/ x < y => NextDate(m, x) <= y
<1> DEFINE G == Greatest(m.dates)
           e == m.every
<1>1. /\ m.dates \subseteq Int /\ e \in Nat /\ G \in m.dates
      /\ \A y \in m.dates : y <= G
      /\ RuleDates(m) \subseteq Int /\ None \notin Int
    BY RuleBounds, FeedsAssumption
<1>2. IsFiniteSet(m.dates) /\ m.dates # {}
    BY DEF IsRule
<1>3. /\ e = 0 => RuleDates(m) = m.dates
      /\ e > 0 => RuleDates(m) = m.dates \cup {G + k * e : k \in Nat \ {0}}
    BY <1>1 DEF RuleDates, After
<1>4. NextDate(m, x) = IF Later(m, x) # {} THEN Least(Later(m, x))
                       ELSE IF e > 0 THEN x + e ELSE None
    BY DEF NextDate
<1>5. e > 0 => \A k \in Nat \ {0} : k * e >= e /\ k * e \in Int
    <2> SUFFICES ASSUME e > 0, NEW k \in Nat \ {0} PROVE k * e >= e /\ k * e \in Int
        OBVIOUS
    <2>1. 0 < k => 0 * e + e <= k * e
        BY <1>1, Steps
    <2> QED
        BY <1>1, <2>1
<1> HIDE DEF G, e
<1>6. CASE Later(m, x) # {}
    <2>1. Later(m, x) \subseteq m.dates
        BY DEF Later
    <2>2. /\ Least(Later(m, x)) \in Later(m, x)
          /\ \A y \in Later(m, x) : Least(Later(m, x)) <= y
        BY <1>1, <1>2, <1>6, <2>1, FS_Subset, Extremes
    <2> DEFINE d == NextDate(m, x)
    <2>3. d \in m.dates /\ d <= G /\ (x # None => x < d)
          /\ \A y \in m.dates : x = None \/ x < y => d <= y
        BY <1>1, <1>4, <1>6, <2>1, <2>2 DEF Later
    <2> HIDE DEF d
    <2>4. \A y \in RuleDates(m) \ m.dates : d <= y
        BY <1>1, <1>3, <1>5, <2>3
    <2>5. d \in RuleDates(m)
        BY <2>3 DEF RuleDates
    <2> QED
        BY <2>3, <2>4, <2>5 DEF d
<1>7. CASE Later(m, x) = {}
    <2>1. x # None /\ x \in Int /\ \A y \in m.dates : y <= x
        BY <1>1, <1>2, <1>7 DEF Later
    <2>2. CASE e = 0
        BY <1>1, <1>3, <1>4, <1>7, <2>1, <2>2
    <2>3. CASE e > 0
        <3>1. PICK k \in Nat : x = G + k * e
            <4>1. CASE x \in m.dates
                <5>1. x = G + 0 * e
                    BY <1>1, <2>1, <4>1
                <5> QED
                    BY <5>1
            <4>2. CASE x \notin m.dates
                BY <1>3, <2>1, <2>3, <4>2
            <4> QED
                BY <4>1, <4>2
        <3>2. NextDate(m, x) = G + (k + 1) * e
            <4>1. (k + 1) * e = k * e + e
                BY <1>1, <2>3, Steps
            <4>2. k * e \in Int
                BY <1>1
            <4> QED
                BY <1>1, <1>4, <1>7, <2>3, <3>1, <4>1, <4>2
        <3>3. NextDate(m, x) \in RuleDates(m)
            BY <1>3, <2>3, <3>2
        <3>4. x < NextDate(m, x)
            BY <1>1, <1>4, <1>7, <2>1, <2>3
        <3>5. ASSUME NEW y \in RuleDates(m), x < y PROVE NextDate(m, x) <= y
            <4>1. y \notin m.dates
                BY <1>1, <2>1, <3>5
            <4>2. PICK j \in Nat : y = G + j * e
                BY <1>3, <2>3, <4>1
            <4>3. k * e \in Int /\ j * e \in Int
                BY <1>1
            <4>4. k * e < j * e
                BY <1>1, <3>1, <3>5, <4>2, <4>3
            <4>5. k * e + e <= j * e
                BY <1>1, <2>3, <4>4, Steps
            <4>6. (k + 1) * e = k * e + e
                BY <1>1, <2>3, Steps
            <4> QED
                BY <1>1, <3>2, <4>2, <4>3, <4>5, <4>6
        <3> QED
            BY <2>1, <3>3, <3>4, <3>5
    <2> QED
        BY <1>1, <2>2, <2>3
<1> QED
    BY <1>6, <1>7

(* The dates up to a horizon are the first ones of them.                   *)
LEMMA HorizonRight ==
    ASSUME NEW m, IsRule(m), NEW h \in Int
    PROVE  /\ AllDates(m, h) \subseteq RuleDates(m) /\ IsFiniteSet(AllDates(m, h))
           /\ m.dates \subseteq AllDates(m, h)
           /\ \A d \in RuleDates(m) : d <= h => d \in AllDates(m, h)
           /\ \A d \in RuleDates(m), c \in AllDates(m, h) : d <= c => d \in AllDates(m, h)
<1> DEFINE G == Greatest(m.dates)
           e == m.every
           most == h - Least(m.dates) + 1
           Count == IF e = 0 THEN {} ELSE 1 .. most
<1>1. /\ m.dates \subseteq Int /\ e \in Nat /\ G \in m.dates /\ Least(m.dates) \in m.dates
      /\ \A y \in m.dates : Least(m.dates) <= y /\ y <= G
    BY RuleBounds
<1>2. AllDates(m, h) = m.dates \cup {G + k * e : k \in Count}
    BY DEF AllDates
<1>3. /\ e = 0 => RuleDates(m) = m.dates
      /\ e > 0 => RuleDates(m) = m.dates \cup {G + k * e : k \in Nat \ {0}}
    BY <1>1 DEF RuleDates, After
<1>4. most \in Int /\ G \in Int
    BY <1>1
<1>5. IsFiniteSet(AllDates(m, h))
    <2>1. IsFiniteSet(Count)
        BY <1>4, FS_Interval, FS_EmptySet
    <2>2. IsFiniteSet({G + k * e : k \in Count})
        <3> DEFINE F == [k \in Count |-> G + k * e]
        <3>1. {G + k * e : k \in Count} = {F[k] : k \in Count}
            OBVIOUS
        <3>2. F \in Surjection(Count, {F[k] : k \in Count})
            BY DEF Surjection
        <3> HIDE DEF F, Count
        <3> QED
            BY <2>1, <3>1, <3>2, FS_Surjection
    <2>3. IsFiniteSet(m.dates)
        BY DEF IsRule
    <2> DEFINE T == {G + k * e : k \in Count}
    <2>4. AllDates(m, h) = m.dates \cup T /\ IsFiniteSet(T)
        BY <1>2, <2>2
    <2> HIDE DEF T
    <2> QED
        BY <2>3, <2>4, FS_Union
<1> HIDE DEF G, e, most
<1>6. ASSUME NEW d \in RuleDates(m) \ m.dates
      PROVE  e > 0 /\ \E k \in Nat \ {0} : d = G + k * e
    BY <1>1, <1>3, <1>6
<1>7. AllDates(m, h) \subseteq RuleDates(m)
    BY <1>1, <1>2, <1>3, <1>4
<1>8. ASSUME NEW d \in RuleDates(m) \ m.dates, d <= h PROVE d \in AllDates(m, h)
    <2>1. e > 0 /\ \E k \in Nat \ {0} : d = G + k * e
        BY <1>6
    <2>2. PICK k \in Nat \ {0} : d = G + k * e
        BY <2>1
    <2>3. k * e >= k /\ k * e \in Int
        BY <1>1, <2>1, Steps
    <2>4. k <= h - G
        BY <1>4, <1>8, <2>2, <2>3
    <2>5. k \in 1 .. most
        BY <1>1, <1>4, <2>4 DEF most
    <2> QED
        BY <1>1, <1>2, <2>1, <2>2, <2>5
<1>9. ASSUME NEW d \in RuleDates(m) \ m.dates, NEW c \in AllDates(m, h), d <= c
      PROVE  d \in AllDates(m, h)
    <2>1. e > 0 /\ \E k \in Nat \ {0} : d = G + k * e
        BY <1>6
    <2>2. PICK k \in Nat \ {0} : d = G + k * e
        BY <2>1
    <2>3. k * e >= e /\ k * e \in Int
        <3>1. 0 < k => 0 * e + e <= k * e
            BY <1>1, <2>1, Steps
        <3> QED
            BY <1>1, <3>1
    <2>4. c \notin m.dates
        BY <1>1, <1>4, <1>9, <2>1, <2>2, <2>3
    <2>5. PICK j \in 1 .. most : c = G + j * e
        BY <1>2, <2>1, <2>4
    <2>6. j \in Nat /\ j * e \in Int
        BY <1>1, <1>4, <2>5
    <2>7. k <= j
        <3>1. j < k => j * e + e <= k * e
            BY <1>1, <2>1, <2>6, Steps
        <3> QED
            BY <1>1, <1>4, <1>9, <2>1, <2>2, <2>3, <2>5, <2>6, <3>1
    <2>8. k \in 1 .. most
        BY <1>4, <2>5, <2>7
    <2> QED
        BY <1>1, <1>2, <2>1, <2>2, <2>8
<1> QED
    BY <1>2, <1>5, <1>7, <1>8, <1>9

(***************************************************************************)
(* The components of a feed                                                *)
(***************************************************************************)
LEMMA FeedRight ==
    ASSUME NEW f \in Feeds
    PROVE  /\ DOMAIN f = 1 .. Len(f) /\ Len(f) \in Nat
           /\ \A i \in DOMAIN f : IsRule(f[i])
           /\ \A i, j \in DOMAIN f : f[i].uid = f[j].uid => f[i].clock = f[j].clock
<1>1. f \in Seq(Component)
    BY FeedsAssumption
<1> QED
    BY <1>1, FeedsAssumption DEF IsRule

LEMMA LastOf ==
    ASSUME NEW f \in Feeds, NEW S \in SUBSET (DOMAIN f), S # {}
    PROVE  Greatest(S) \in S
<1>1. IsFiniteSet(DOMAIN f) /\ DOMAIN f \subseteq Int
    BY FeedRight, FS_Interval
<1>2. IsFiniteSet(S)
    BY <1>1, FS_Subset
<1> QED
    BY <1>1, <1>2, Extremes

LEMMA MasterRight ==
    ASSUME NEW f \in Feeds, NEW u \in MasterUids(f)
    PROVE  /\ \E i \in DOMAIN f : MasterOf(f, u) = f[i]
           /\ IsRule(MasterOf(f, u))
           /\ MasterOf(f, u).uid = u /\ MasterOf(f, u).slot = None
<1>1. MastersOf(f, u) \in SUBSET (DOMAIN f) /\ MastersOf(f, u) # {}
    BY DEF MastersOf, MasterUids
<1>2. PICK i \in MastersOf(f, u) : MasterOf(f, u) = f[i]
    BY <1>1, LastOf DEF MasterOf
<1> QED
    BY <1>1, <1>2, FeedRight DEF MastersOf

LEMMA OverrideRight ==
    ASSUME NEW f \in Feeds, NEW u, NEW s, HasOverride(f, u, s)
    PROVE  /\ \E i \in DOMAIN f : OverrideOf(f, u, s) = f[i]
           /\ IsRule(OverrideOf(f, u, s))
           /\ OverrideOf(f, u, s).uid = u /\ OverrideOf(f, u, s).slot = s
<1>1. OverridesOf(f, u, s) \in SUBSET (DOMAIN f) /\ OverridesOf(f, u, s) # {}
    BY DEF OverridesOf, HasOverride
<1>2. PICK i \in OverridesOf(f, u, s) : OverrideOf(f, u, s) = f[i]
    BY <1>1, LastOf DEF OverrideOf
<1> QED
    BY <1>1, <1>2, FeedRight DEF OverridesOf

LEMMA HorizonOfFeed ==
    ASSUME NEW f \in Feeds
    PROVE  /\ Horizon(f) \in Int /\ WindowEnd + 2 * Hour <= Horizon(f)
           /\ \A i \in DOMAIN f : f[i].slot # None => f[i].slot <= Horizon(f)
<1> DEFINE All == {f[i].slot : i \in DOMAIN f}
           S == {WindowEnd + 2 * Hour} \cup (All \ {None})
<1>1. All \subseteq Int \cup {None}
    BY FeedRight DEF IsRule, Component
<1>2. IsFiniteSet(All)
    <2>1. IsFiniteSet(DOMAIN f)
        BY FeedRight, FS_Interval
    <2> DEFINE F == [i \in DOMAIN f |-> f[i].slot]
    <2>2. F \in Surjection(DOMAIN f, All)
        BY DEF Surjection
    <2> HIDE DEF F, All
    <2> QED
        BY <2>1, <2>2, FS_Surjection
<1>3. WindowEnd + 2 * Hour \in Int
    BY ClockAssumption, LimitsAssumption
<1>4. IsFiniteSet(All \ {None}) /\ IsFiniteSet({WindowEnd + 2 * Hour})
    BY <1>2, FS_Subset, FS_Singleton
<1> HIDE DEF All
<1>5. IsFiniteSet(S) /\ S # {} /\ S \subseteq Int
    BY <1>1, <1>3, <1>4, FS_Union
<1>6. Greatest(S) \in S /\ \A x \in S : x <= Greatest(S)
    BY <1>5, Extremes
<1>7. Horizon(f) = Greatest(S)
    BY DEF Horizon, All
<1> QED
    BY <1>5, <1>6, <1>7 DEF All

(* In a quiet feed the walk and the reference mean the same instants.      *)
LEMMA QuietRight ==
    ASSUME NEW f \in Feeds, Quiet(f), NEW i \in DOMAIN f
    PROVE  /\ \A d \in AllDates(f[i], Horizon(f)) :
                 OnClock(d, f[i].clock) /\ OnClock(d + f[i].length, f[i].clock)
           /\ f[i].slot # None => OnClock(f[i].slot, f[i].clock)
<1>1. ASSUME f[i].clock = "floating", NEW t \in TimesOf(f, f[i]) PROVE QuietAt(t)
    BY <1>1 DEF Quiet, QuietAt
<1>2. /\ \A d \in AllDates(f[i], Horizon(f)) :
             d \in TimesOf(f, f[i]) /\ d + f[i].length \in TimesOf(f, f[i])
      /\ f[i].slot # None => f[i].slot \in TimesOf(f, f[i])
    BY DEF TimesOf
<1> QED
    BY <1>1, <1>2 DEF OnClock

LEMMA SameInstant ==
    ASSUME NEW c, NEW t \in Int, OnClock(t, c.clock)
    PROVE  ToAbsolute(t, c.clock) = Instant(c, t)
BY QuietConversion DEF ToAbsolute, Instant, OnClock

LEMMA OccurrenceMeant ==
    ASSUME NEW f \in Feeds, NEW i \in DOMAIN f, NEW slot \in Int \cup {None},
           NEW d \in AllDates(f[i], Horizon(f)), f[i].uid \in Uids
    PROVE  /\ OccurrenceAt(f[i], slot, d) \in Occurrence
           /\ Quiet(f) /\ (slot # None => OnClock(slot, f[i].clock)) =>
                 OccurrenceAt(f[i], slot, d) = Meant(f[i], slot, d)
<1> DEFINE c == f[i]
<1>1. IsRule(c) /\ c.clock \in {"date", "instant", "floating"} /\ c.cancelled \in BOOLEAN
    BY FeedRight DEF IsRule, Component
<1>2. d \in Int /\ d + c.length \in Int
    BY <1>1, HorizonOfFeed, HorizonRight, RuleBounds
<1>3. None \notin Int
    BY FeedsAssumption
<1> HIDE DEF c
<1>4. OccurrenceAt(c, slot, d) \in Occurrence
    <2>1. (slot # None => ToAbsolute(slot, c.clock) \in Int) /\ ToAbsolute(d, c.clock) \in Int
          /\ ToAbsolute(d + c.length, c.clock) \in Int
        BY <1>2, Absolute
    <2>2. c.uid \in Uids
        BY DEF c
    <2> QED
        BY <1>1, <2>1, <2>2 DEF OccurrenceAt, Occurrence
<1>5. ASSUME Quiet(f), slot # None => OnClock(slot, c.clock)
      PROVE  OccurrenceAt(c, slot, d) = Meant(c, slot, d)
    <2>1. OnClock(d, c.clock) /\ OnClock(d + c.length, c.clock)
        BY <1>5, QuietRight DEF c
    <2>2. /\ ToAbsolute(d, c.clock) = Instant(c, d)
          /\ ToAbsolute(d + c.length, c.clock) = Instant(c, d + c.length)
          /\ slot # None => ToAbsolute(slot, c.clock) = Instant(c, slot)
        BY <1>2, <1>5, <2>1, SameInstant
    <2> QED
        BY <2>2 DEF OccurrenceAt, Meant
<1> QED
    BY <1>4, <1>5 DEF c

LEMMA SingleMeant ==
    ASSUME NEW f \in Feeds, NEW i \in DOMAIN f, f[i].uid \in Uids
    PROVE  /\ Single(f[i]) \in Occurrence
           /\ Single(f[i]).uid = f[i].uid
           /\ Single(f[i]).slot = IF f[i].slot = None THEN None
                                   ELSE ToAbsolute(f[i].slot, f[i].clock)
           /\ Quiet(f) => Single(f[i]) = Alone(f[i])
<1>1. IsRule(f[i]) /\ f[i].slot \in Int \cup {None}
    BY FeedRight DEF IsRule, Component
<1>2. Least(f[i].dates) \in AllDates(f[i], Horizon(f))
    BY <1>1, HorizonOfFeed, HorizonRight, RuleBounds
<1>3. Quiet(f) /\ f[i].slot # None => OnClock(f[i].slot, f[i].clock)
    BY QuietRight
<1>4. Single(f[i]) = OccurrenceAt(f[i], f[i].slot, Least(f[i].dates))
    BY DEF Single
<1>5. Alone(f[i]) = Meant(f[i], f[i].slot, Least(f[i].dates))
    BY DEF Alone
<1>6. /\ OccurrenceAt(f[i], f[i].slot, Least(f[i].dates)).uid = f[i].uid
      /\ OccurrenceAt(f[i], f[i].slot, Least(f[i].dates)).slot =
            IF f[i].slot = None THEN None ELSE ToAbsolute(f[i].slot, f[i].clock)
    BY DEF OccurrenceAt
<1> QED
    BY <1>1, <1>2, <1>3, <1>4, <1>5, <1>6, OccurrenceMeant

(***************************************************************************)
(* A series, date by date                                                  *)
(***************************************************************************)
SeriesDates(f, u) == AllDates(MasterOf(f, u), Horizon(f))
SlotOf(f, u, d) == ToAbsolute(d, MasterOf(f, u).clock)

LEMMA OverriddenRight ==
    ASSUME NEW f, NEW u, NEW d \in Int
    PROVE  d \in Overridden(f, u) <=> HasOverride(f, u, d)
BY FeedsAssumption DEF Overridden, HasOverride, OverridesOf

LEMMA DetailsRight ==
    ASSUME NEW f \in Feeds, NEW u \in MasterUids(f), NEW d \in SeriesDates(f, u)
    PROVE  /\ d \in Int
           /\ Details(f, u, d) \in Occurrence /\ Details(f, u, d).uid = u
           /\ Details(f, u, d).slot = SlotOf(f, u, d)
           /\ Quiet(f) => /\ OnClock(d, MasterOf(f, u).clock)
                          /\ Details(f, u, d) = IF d \in Overridden(f, u)
                                                THEN Alone(OverrideOf(f, u, d))
                                                ELSE Meant(MasterOf(f, u), d, d)
<1> DEFINE m == MasterOf(f, u)
<1>1. PICK i \in DOMAIN f : m = f[i]
    BY MasterRight
<1>2. IsRule(m) /\ m.uid = u /\ u \in Uids
    BY MasterRight DEF MasterUids
<1>3. d \in Int /\ None \notin Int
    BY <1>2, HorizonOfFeed, HorizonRight, RuleBounds, FeedsAssumption DEF SeriesDates
<1>4. Quiet(f) => OnClock(d, m.clock)
    BY <1>1, QuietRight DEF SeriesDates
<1>5. d \in Overridden(f, u) <=> HasOverride(f, u, d)
    BY <1>3, OverriddenRight
<1>6. CASE HasOverride(f, u, d)
    <2>1. PICK j \in DOMAIN f : OverrideOf(f, u, d) = f[j] /\ f[j].uid = u /\ f[j].slot = d
        BY <1>6, OverrideRight
    <2>2. f[j].clock = m.clock
        BY <1>1, <1>2, <2>1, FeedRight
    <2>3. Details(f, u, d) = Single(f[j])
        BY <1>6, <2>1 DEF Details
    <2> HIDE DEF m
    <2>4. /\ Single(f[j]) \in Occurrence /\ Single(f[j]).uid = u
          /\ Single(f[j]).slot = ToAbsolute(d, m.clock)
          /\ Quiet(f) => Single(f[j]) = Alone(f[j])
        BY <1>2, <1>3, <2>1, <2>2, SingleMeant
    <2> QED
        BY <1>3, <1>4, <1>5, <1>6, <2>1, <2>3, <2>4 DEF SlotOf, m
<1>7. CASE ~HasOverride(f, u, d)
    <2>1. Details(f, u, d) = OccurrenceAt(m, d, d)
        BY <1>7 DEF Details, MasterDetails
    <2>2. OccurrenceAt(m, d, d).uid = m.uid /\ OccurrenceAt(m, d, d).slot = ToAbsolute(d, m.clock)
        BY <1>3 DEF OccurrenceAt
    <2>3. d \in AllDates(f[i], Horizon(f)) /\ f[i].uid \in Uids
        BY <1>1, <1>2 DEF SeriesDates
    <2> HIDE DEF m
    <2>4. /\ OccurrenceAt(m, d, d) \in Occurrence
          /\ Quiet(f) => OccurrenceAt(m, d, d) = Meant(m, d, d)
        BY <1>1, <1>3, <1>4, <2>3, OccurrenceMeant
    <2> QED
        BY <1>2, <1>3, <1>4, <1>5, <1>7, <2>1, <2>2, <2>4 DEF SlotOf, m
<1> QED
    BY <1>6, <1>7

LEMMA SlotOrder ==
    ASSUME NEW f \in Feeds, Quiet(f), NEW u \in MasterUids(f),
           NEW c \in SeriesDates(f, u), NEW d \in SeriesDates(f, u), c < d
    PROVE  SlotOf(f, u, c) < SlotOf(f, u, d)
<1>1. c \in Int /\ d \in Int /\ OnClock(c, MasterOf(f, u).clock) /\ OnClock(d, MasterOf(f, u).clock)
    BY DetailsRight
<1> QED
    BY <1>1, Absolute DEF SlotOf

LEMMA SeriesRight ==
    ASSUME NEW f \in Feeds, Quiet(f), NEW u \in MasterUids(f)
    PROVE  /\ Recurring(MasterOf(f, u)) =>
                 Series(f, u) = {Details(f, u, d) : d \in SeriesDates(f, u)}
           /\ ~Recurring(MasterOf(f, u)) => Series(f, u) = {Single(MasterOf(f, u))}
<1> DEFINE m == MasterOf(f, u)
<1>1. \A d \in SeriesDates(f, u) :
         Details(f, u, d) = IF d \in Overridden(f, u) THEN Alone(OverrideOf(f, u, d))
                            ELSE Meant(m, d, d)
    BY DetailsRight
<1>2. ASSUME Recurring(m)
      PROVE  Series(f, u) = {Details(f, u, d) : d \in SeriesDates(f, u)}
    <2>1. Series(f, u) = {Meant(m, d, d) : d \in SeriesDates(f, u) \ Overridden(f, u)}
             \cup {Alone(OverrideOf(f, u, d)) : d \in SeriesDates(f, u) \cap Overridden(f, u)}
        BY <1>2 DEF Series, SeriesDates
    <2> HIDE DEF m
    <2> QED
        BY <1>1, <2>1
<1>3. ASSUME ~Recurring(m) PROVE Series(f, u) = {Single(m)}
    <2>1. PICK i \in DOMAIN f : m = f[i]
        BY MasterRight
    <2>2. m.uid \in Uids
        BY MasterRight DEF MasterUids
    <2>3. Single(m) = Alone(m)
        BY <2>1, <2>2, SingleMeant
    <2> QED
        BY <1>3, <2>3 DEF Series
<1> QED
    BY <1>2, <1>3

LEMMA InReach ==
    ASSUME NEW f \in Feeds, NEW u \in MasterUids(f),
           NEW d \in RuleDates(MasterOf(f, u)), Details(f, u, d).start < WindowEnd
    PROVE  d \in SeriesDates(f, u)
<1> DEFINE m == MasterOf(f, u)
<1>1. IsRule(m) /\ d \in Int /\ Horizon(f) \in Int
    BY MasterRight, RuleBounds, HorizonOfFeed
<1>2. d <= Horizon(f)
    <2>1. CASE HasOverride(f, u, d)
        <3>1. PICK i \in DOMAIN f : OverrideOf(f, u, d) = f[i]
            BY <2>1, OverrideRight
        <3>2. f[i].slot = d /\ d # None
            BY <1>1, <2>1, <3>1, OverrideRight, FeedsAssumption
        <3> QED
            BY <3>2, HorizonOfFeed
    <2>2. CASE ~HasOverride(f, u, d)
        <3>1. Details(f, u, d).start = ToAbsolute(d, m.clock)
            BY <2>2 DEF Details, MasterDetails, OccurrenceAt
        <3>2. ToAbsolute(d, m.clock) >= d - 2 * Hour /\ ToAbsolute(d, m.clock) \in Int
            BY <1>1, Absolute
        <3> HIDE DEF m
        <3>3. d < WindowEnd + 2 * Hour
            BY <1>1, <3>1, <3>2, ClockAssumption, LimitsAssumption
        <3>4. WindowEnd + 2 * Hour <= Horizon(f) /\ WindowEnd + 2 * Hour \in Int
            BY HorizonOfFeed, ClockAssumption, LimitsAssumption
        <3> QED
            BY <1>1, <3>3, <3>4
    <2> QED
        BY <2>1, <2>2
<1> QED
    BY <1>1, <1>2, HorizonRight DEF SeriesDates

(***************************************************************************)
(* The walk                                                                *)
(***************************************************************************)
WalkInv ==
    /\ TypeOK
    /\ masters \subseteq MasterUids(feed) /\ orphans \subseteq Orphans(feed)
    /\ at = None => relevant = 0
    /\ at # None => /\ masters # {} /\ Recurring(Master)
                    /\ at \in SeriesDates(feed, Current)
    /\ status = "grouping" => masters = {} /\ orphans = {} /\ result = << >>
    /\ status = "done" => masters = {} /\ orphans = {}
    /\ status = "perEvent" => at # None /\ relevant > MaxPerEvent

LEMMA CurrentRight ==
    ASSUME feed \in Feeds, masters \subseteq MasterUids(feed), masters # {}
    PROVE  Current \in masters /\ Current \in MasterUids(feed)
<1> DEFINE Begin(u) == Least(MastersOf(feed, u))
           S == {Begin(u) : u \in masters}
<1>1. ASSUME NEW u \in masters PROVE Begin(u) \in Nat
    <2>1. MastersOf(feed, u) # {} /\ MastersOf(feed, u) \subseteq DOMAIN feed
        BY DEF MasterUids, MastersOf
    <2>2. IsFiniteSet(DOMAIN feed) /\ DOMAIN feed \subseteq Nat /\ DOMAIN feed \subseteq Int
        <3>1. DOMAIN feed = 1 .. Len(feed) /\ Len(feed) \in Nat
            BY FeedRight
        <3>2. IsFiniteSet(1 .. Len(feed))
            BY <3>1, FS_Interval
        <3> QED
            BY <3>1, <3>2
    <2>3. IsFiniteSet(MastersOf(feed, u))
        BY <2>1, <2>2, FS_Subset
    <2>4. Begin(u) \in MastersOf(feed, u)
        BY <2>1, <2>2, <2>3, Extremes
    <2> QED
        BY <2>1, <2>2, <2>4
<1> HIDE DEF Begin
<1>2. S \in SUBSET Nat /\ S # {}
    BY <1>1
<1>3. PICK n \in S : \A k \in S : n <= k
    BY <1>2, LeastOfNaturals
<1>4. \E u \in masters : \A v \in masters : Begin(u) <= Begin(v)
    BY <1>3
<1> QED
    BY <1>4 DEF Current, Begin

LEMMA EmitGrows ==
    ASSUME result \in Seq(Occurrence), NEW o \in Occurrence, Emit(o),
           status = "expanding"
    PROVE  /\ result' \in Seq(Occurrence) /\ status' \in {"expanding", "total"}
           /\ Emitted' = Emitted \cup (IF Reaches(o) THEN {o} ELSE {})
           /\ DOMAIN result \subseteq DOMAIN result'
           /\ \A i \in DOMAIN result : result'[i] = result[i]
           /\ \A i \in DOMAIN result' \ DOMAIN result : result'[i] = o /\ i = Len(result) + 1
<1>1. CASE ~Reaches(o)
    BY <1>1 DEF Emit, Emitted
<1>2. CASE Reaches(o)
    <2>1. result' = Append(result, o) /\ status' \in {"expanding", "total"}
        BY <1>2 DEF Emit
    <2>2. /\ result' \in Seq(Occurrence) /\ Len(result') = Len(result) + 1 /\ Len(result) \in Nat
          /\ DOMAIN result = 1 .. Len(result) /\ DOMAIN result' = 1 .. Len(result) + 1
          /\ \A i \in 1 .. Len(result) : result'[i] = result[i]
          /\ result'[Len(result) + 1] = o
        BY <2>1
    <2>3. \A i \in DOMAIN result' \ DOMAIN result : i = Len(result) + 1
        BY <2>2
    <2>4. Emitted' = Emitted \cup {o}
        <3>1. Emitted' = {result'[i] : i \in DOMAIN result'}
            BY DEF Emitted
        <3>2. Emitted = {result[i] : i \in DOMAIN result}
            BY DEF Emitted
        <3>3. DOMAIN result' = DOMAIN result \cup {Len(result) + 1}
            BY <2>2
        <3> QED
            BY <2>2, <3>1, <3>2, <3>3
    <2> QED
        BY <1>2, <2>1, <2>2, <2>3, <2>4
<1> QED
    BY <1>1, <1>2

(* What a step of the walk does: it gives up, it leaves a series that has  *)
(* no further date in reach, or it passes to the next date.                *)
GivesUp == status' = "scan" /\ UNCHANGED <<masters, at, relevant, result>>
Leaves(u) ==
    /\ masters' = masters \ {u} /\ at' = None /\ relevant' = 0 /\ UNCHANGED <<result, status>>
    /\ \/ at # None /\ \A y \in RuleDates(MasterOf(feed, u)) : y <= at
       \/ \E d \in RuleDates(MasterOf(feed, u)) :
            /\ Details(feed, u, d).start >= WindowEnd
            /\ \A y \in RuleDates(MasterOf(feed, u)) : at = None \/ at < y => d <= y
Passes(u, d) ==
    /\ d \in SeriesDates(feed, u) /\ at' = d /\ masters' = masters
    /\ at # None => at < d
    /\ \A y \in RuleDates(MasterOf(feed, u)) : at = None \/ at < y => d <= y
    /\ \/ /\ ~Reaches(Details(feed, u, d)) /\ relevant' = relevant /\ result' = result
          /\ status' = status \/ (status' = "perEvent" /\ relevant > MaxPerEvent)
       \/ /\ Reaches(Details(feed, u, d)) /\ relevant' = relevant + 1
          /\ \/ Emit(Details(feed, u, d))
             \/ result' = result /\ status' = "perEvent" /\ relevant + 1 > MaxPerEvent
Advances(u) ==
    /\ u = Current /\ u \in masters /\ u \in MasterUids(feed) /\ Recurring(MasterOf(feed, u))
    /\ GivesUp \/ Leaves(u) \/ \E d : Passes(u, d)
    /\ status = "expanding" /\ UNCHANGED <<feed, orphans>>

LEMMA OccurrenceStep == ASSUME WalkInv, NextOccurrence PROVE \E u : Advances(u)
<1> DEFINE u == Current
           m == MasterOf(feed, u)
           date == NextDate(m, at)
           o == Details(feed, u, date)
<1>1. /\ status = "expanding" /\ masters # {} /\ Recurring(m) /\ UNCHANGED <<feed, orphans>>
      /\ feed \in Feeds /\ masters \subseteq MasterUids(feed) /\ scanned \in Nat
      /\ relevant \in Nat
      /\ at # None => at \in SeriesDates(feed, u)
    BY DEF NextOccurrence, Master, WalkInv, TypeOK
<1>2. u \in masters /\ u \in MasterUids(feed)
    BY <1>1, CurrentRight
<1>3. IsRule(m) /\ SeriesDates(feed, u) \subseteq RuleDates(m)
    BY <1>1, <1>2, MasterRight, HorizonOfFeed, HorizonRight DEF SeriesDates
<1>4. at \in RuleDates(m) \cup {None}
    BY <1>1, <1>3
<1>5. \/ /\ date = None /\ at # None
         /\ \A y \in RuleDates(m) : y <= at
      \/ /\ date \in RuleDates(m)
         /\ at # None => at < date
         /\ \A y \in RuleDates(m) : at = None \/ at < y => date <= y
    BY <1>3, <1>4, NextDateRight
<1>6. date \in RuleDates(m) => date # None
    BY <1>3, RuleBounds, FeedsAssumption
<1>7. \/ date = None /\ EndOfSeries /\ UNCHANGED <<result, status>>
      \/ date # None /\ status' = "scan" /\ UNCHANGED <<masters, at, relevant, result>>
      \/ date # None /\ o.start >= WindowEnd /\ EndOfSeries /\ UNCHANGED <<result, status>>
      \/ /\ date # None /\ ~(o.start >= WindowEnd)
         /\ at' = date /\ relevant' = Charged(o) /\ UNCHANGED masters
         /\ IF Charged(o) > MaxPerEvent
            THEN status' = "perEvent" /\ UNCHANGED result
            ELSE IF Before(o) THEN UNCHANGED <<result, status>>
            ELSE Emit(o)
    BY DEF NextOccurrence, Master
<1>8. CASE date = None
    <2>1. masters' = masters \ {u} /\ at' = None /\ relevant' = 0 /\ UNCHANGED <<result, status>>
        BY <1>7, <1>8 DEF EndOfSeries
    <2> HIDE DEF date
    <2>2. Leaves(u)
        BY <1>5, <1>6, <1>8, <2>1 DEF Leaves
    <2> QED
        BY <1>1, <1>2, <2>2 DEF Advances
<1>9. CASE date # None /\ status' = "scan" /\ UNCHANGED <<masters, at, relevant, result>>
    <2>1. GivesUp
        BY <1>9 DEF GivesUp
    <2> QED
        BY <1>1, <1>2, <2>1 DEF Advances
<1>10. CASE date # None /\ o.start >= WindowEnd /\ EndOfSeries /\ UNCHANGED <<result, status>>
    <2>1. masters' = masters \ {u} /\ at' = None /\ relevant' = 0 /\ UNCHANGED <<result, status>>
        BY <1>10 DEF EndOfSeries
    <2>2. Details(feed, u, date).start >= WindowEnd
        BY <1>10
    <2> HIDE DEF date
    <2>3. Leaves(u)
        BY <1>5, <1>10, <2>1, <2>2 DEF Leaves
    <2> QED
        BY <1>1, <1>2, <2>3 DEF Advances
<1>11. CASE /\ date # None /\ ~(o.start >= WindowEnd)
            /\ at' = date /\ relevant' = Charged(o) /\ UNCHANGED masters
            /\ IF Charged(o) > MaxPerEvent
               THEN status' = "perEvent" /\ UNCHANGED result
               ELSE IF Before(o) THEN UNCHANGED <<result, status>>
               ELSE Emit(o)
    <2>0. date \in RuleDates(m)
        BY <1>5, <1>11
    <2>1. PICK d \in RuleDates(m) : d = date
        BY <2>0
    <2>2. /\ at # None => at < d
          /\ \A y \in RuleDates(m) : at = None \/ at < y => d <= y
          /\ at' = d
        BY <1>5, <1>6, <1>11, <2>1
    <2>3. d \in SeriesDates(feed, u) /\ Details(feed, u, d) \in Occurrence /\ o.start < WindowEnd
        <3>1. PICK i \in Int : i = o.start
            <4>1. CASE HasOverride(feed, u, d)
                <5>1. PICK j \in DOMAIN feed : OverrideOf(feed, u, d) = feed[j] /\ feed[j].uid = u
                    BY <1>1, <4>1, OverrideRight
                <5>2. Single(feed[j]) \in Occurrence
                    BY <1>1, <1>2, <5>1, SingleMeant DEF MasterUids
                <5> QED
                    BY <2>1, <4>1, <5>1, <5>2 DEF Details, Occurrence
            <4>2. CASE ~HasOverride(feed, u, d)
                <5>1. d \in Int
                    BY <1>3, <2>1, RuleBounds
                <5>2. o.start = ToAbsolute(d, m.clock)
                    BY <2>1, <4>2 DEF Details, MasterDetails, OccurrenceAt
                <5> QED
                    BY <5>1, <5>2, Absolute
            <4> QED
                BY <4>1, <4>2
        <3>2. o.start < WindowEnd
            BY <1>11, <3>1, LimitsAssumption
        <3>3. d \in SeriesDates(feed, u)
            BY <1>1, <1>2, <2>1, <3>2, InReach
        <3> QED
            BY <1>1, <1>2, <3>2, <3>3, DetailsRight
    <2>4. Reaches(o) <=> ~Before(o)
        BY <2>1, <2>3, LimitsAssumption DEF Reaches, Before, Occurrence
    <2>5. o = Details(feed, u, d) /\ masters' = masters
        BY <1>11, <2>1
    <2>6. Passes(u, d)
        <3>1. CASE Before(o)
            <4>1. Charged(o) = relevant
                BY <3>1 DEF Charged
            <4>2. /\ ~Reaches(Details(feed, u, d)) /\ relevant' = relevant /\ result' = result
                  /\ status' = status \/ (status' = "perEvent" /\ relevant > MaxPerEvent)
                BY <1>11, <2>4, <2>5, <3>1, <4>1
            <4> HIDE DEF date, o
            <4> QED
                BY <2>2, <2>3, <2>5, <4>2 DEF Passes
        <3>2. CASE ~Before(o)
            <4>1. Charged(o) = relevant + 1
                BY <3>2 DEF Charged
            <4>2. /\ Reaches(Details(feed, u, d)) /\ relevant' = relevant + 1
                  /\ \/ Emit(Details(feed, u, d))
                     \/ result' = result /\ status' = "perEvent" /\ relevant + 1 > MaxPerEvent
                BY <1>11, <2>4, <2>5, <3>2, <4>1
            <4> HIDE DEF date, o
            <4> QED
                BY <2>2, <2>3, <2>5, <4>2 DEF Passes
        <3> QED
            BY <3>1, <3>2
    <2> QED
        BY <1>1, <1>2, <2>6 DEF Advances
<1> QED
    BY <1>7, <1>8, <1>9, <1>10, <1>11

(* The other steps that emit, seen from the feed.                          *)
Expands(u) ==
    /\ u \in masters /\ u \in MasterUids(feed) /\ ~Recurring(MasterOf(feed, u))
    /\ at = None /\ masters' = masters \ {u}
    /\ Emit(Single(MasterOf(feed, u))) /\ Single(MasterOf(feed, u)) \in Occurrence
    /\ Single(MasterOf(feed, u)).uid = u
    /\ status = "expanding" /\ UNCHANGED <<feed, orphans, at, scanned, relevant>>
TakesOrphan(i) ==
    /\ i \in orphans /\ i \in Orphans(feed) /\ masters = {} /\ at = None
    /\ orphans' = orphans \ {i}
    /\ Emit(Single(feed[i])) /\ Single(feed[i]) \in Occurrence
    /\ status = "expanding" /\ UNCHANGED <<feed, masters, at, scanned, relevant>>

LEMMA OrphanRight ==
    ASSUME NEW f \in Feeds, NEW i \in Orphans(f)
    PROVE  /\ i \in DOMAIN f /\ f[i].uid \in Uids /\ f[i].slot \in Int
           /\ f[i].uid \notin MasterUids(f)
           /\ Single(f[i]) \in Occurrence /\ Single(f[i]).uid = f[i].uid
           /\ Single(f[i]).slot = ToAbsolute(f[i].slot, f[i].clock)
           /\ Quiet(f) => Single(f[i]) = Alone(f[i]) /\ OnClock(f[i].slot, f[i].clock)
<1>1. i \in DOMAIN f /\ f[i].uid # None /\ f[i].slot # None /\ MastersOf(f, f[i].uid) = {}
    BY DEF Orphans
<1>2. f[i].uid \in Uids /\ f[i].slot \in Int
    BY <1>1, FeedRight DEF IsRule, Component
<1> QED
    BY <1>1, <1>2, SingleMeant, QuietRight DEF MasterUids

LEMMA WalkCases ==
    ASSUME WalkInv, [Next]_vars
    PROVE  \/ UNCHANGED vars
           \/ Group
           \/ \E u : Expands(u)
           \/ (\E u : Advances(u)) /\ scanned' \in Nat
           \/ \E i : TakesOrphan(i)
           \/ Finish
<1>1. feed \in Feeds /\ masters \subseteq MasterUids(feed) /\ orphans \subseteq Orphans(feed)
      /\ scanned \in Nat
    BY DEF WalkInv, TypeOK
<1>2. ASSUME SingleEvent PROVE Expands(Current)
    <2>1. masters # {} /\ ~Recurring(Master)
        BY <1>2 DEF SingleEvent
    <2>2. Current \in masters /\ Current \in MasterUids(feed)
        BY <1>1, <2>1, CurrentRight
    <2>3. at = None
        BY <2>1 DEF WalkInv
    <2>4. PICK i \in DOMAIN feed : MasterOf(feed, Current) = feed[i] /\ feed[i].uid = Current
        BY <1>1, <2>2, MasterRight
    <2>5. Current \in Uids
        BY <2>2 DEF MasterUids
    <2>6. Single(MasterOf(feed, Current)) \in Occurrence
          /\ Single(MasterOf(feed, Current)).uid = Current
        BY <1>1, <2>4, <2>5, SingleMeant
    <2>7. /\ Emit(Single(MasterOf(feed, Current))) /\ masters' = masters \ {Current}
          /\ status = "expanding" /\ UNCHANGED <<feed, orphans, at, scanned, relevant>>
        BY <1>2 DEF SingleEvent, Master
    <2> QED
        BY <2>1, <2>2, <2>3, <2>6, <2>7 DEF Expands, Master
<1>3. ASSUME NextOccurrence PROVE (\E u : Advances(u)) /\ scanned' \in Nat
    <2>1. scanned' = scanned \/ scanned' = scanned + 1
        BY <1>3 DEF NextOccurrence
    <2> QED
        BY <1>1, <1>3, <2>1, OccurrenceStep
<1>4. ASSUME OrphanOverride PROVE \E i : TakesOrphan(i)
    <2>1. /\ status = "expanding" /\ masters = {}
          /\ UNCHANGED <<feed, masters, at, scanned, relevant>>
        BY <1>4 DEF OrphanOverride
    <2>2. PICK i \in orphans : Emit(Single(feed[i])) /\ orphans' = orphans \ {i}
        BY <1>4 DEF OrphanOverride
    <2>3. Single(feed[i]) \in Occurrence
        BY <1>1, OrphanRight
    <2>4. at = None
        BY <2>1 DEF WalkInv
    <2>5. TakesOrphan(i)
        BY <1>1, <2>1, <2>2, <2>3, <2>4 DEF TakesOrphan
    <2> QED
        BY <2>5
<1> QED
    BY <1>2, <1>3, <1>4 DEF Next

LEMMA WalkInit == Init => WalkInv
<1> SUFFICES ASSUME Init PROVE WalkInv
    OBVIOUS
<1>1. TypeOK
    BY DEF Init, TypeOK
<1> QED
    BY <1>1 DEF Init, WalkInv

LEMMA WalkStep == WalkInv /\ [Next]_vars => WalkInv'
<1> SUFFICES ASSUME WalkInv, [Next]_vars PROVE WalkInv'
    OBVIOUS
<1>1. /\ feed \in Feeds /\ masters \subseteq Uids /\ orphans \subseteq DOMAIN feed
      /\ at \in Int \cup {None} /\ scanned \in Nat /\ relevant \in Nat
      /\ result \in Seq(Occurrence)
      /\ status \in {"grouping", "expanding", "done",
                   "events", "zone", "total", "perEvent", "scan"}
      /\ masters \subseteq MasterUids(feed) /\ orphans \subseteq Orphans(feed)
      /\ at = None => relevant = 0
      /\ at # None => /\ masters # {} /\ Recurring(Master)
                      /\ at \in SeriesDates(feed, Current)
      /\ status = "grouping" => masters = {} /\ orphans = {} /\ result = << >>
      /\ status = "done" => masters = {} /\ orphans = {}
      /\ status = "perEvent" => at # None /\ relevant > MaxPerEvent
    BY DEF WalkInv, TypeOK
<1>2. masters' = masters /\ feed' = feed => Current' = Current /\ Master' = Master
    BY DEF Current, Master
<1>3. MasterUids(feed) \subseteq Uids /\ Orphans(feed) \subseteq DOMAIN feed
    BY DEF MasterUids, Orphans
<1>4. None \notin Int
    BY FeedsAssumption
<1>5. CASE UNCHANGED vars
    BY <1>1, <1>2, <1>5 DEF vars, WalkInv, TypeOK
<1>6. CASE Group
    <2>1. /\ UNCHANGED <<feed, at, scanned, relevant, result>> /\ status = "grouping"
          /\ status' \in {"events", "zone", "expanding"}
          /\ \/ UNCHANGED <<masters, orphans>>
             \/ masters' = MasterUids(feed) /\ orphans' = Orphans(feed)
        BY <1>6 DEF Group
    <2>2. at = None
        BY <1>1, <2>1
    <2>3. TypeOK'
        BY <1>1, <1>3, <2>1 DEF TypeOK
    <2> QED
        BY <1>1, <2>1, <2>2, <2>3 DEF WalkInv
<1>7. ASSUME NEW u, Expands(u) PROVE WalkInv'
    <2>1. /\ at = None /\ masters' = masters \ {u} /\ status = "expanding"
          /\ UNCHANGED <<feed, orphans, at, scanned, relevant>>
        BY <1>7 DEF Expands
    <2>2. result' \in Seq(Occurrence) /\ status' \in {"expanding", "total"}
        BY <1>1, <1>7, EmitGrows DEF Expands
    <2>3. TypeOK'
        BY <1>1, <2>1, <2>2 DEF TypeOK
    <2> QED
        BY <1>1, <2>1, <2>2, <2>3 DEF WalkInv
<1>8. ASSUME NEW u, Advances(u), scanned' \in Nat PROVE WalkInv'
    <2>1. /\ u = Current /\ u \in masters /\ u \in MasterUids(feed)
          /\ Recurring(MasterOf(feed, u))
          /\ status = "expanding" /\ UNCHANGED <<feed, orphans>>
        BY <1>8 DEF Advances
    <2>2. CASE GivesUp
        <3>1. status' = "scan" /\ UNCHANGED <<masters, at, relevant, result>>
            BY <2>2 DEF GivesUp
        <3>2. TypeOK'
            BY <1>1, <1>8, <2>1, <3>1 DEF TypeOK
        <3> QED
            BY <1>1, <1>2, <2>1, <3>1, <3>2 DEF WalkInv
    <2>3. CASE Leaves(u)
        <3>1. /\ masters' = masters \ {u} /\ at' = None /\ relevant' = 0
              /\ UNCHANGED <<result, status>>
            BY <2>3 DEF Leaves
        <3>2. TypeOK'
            BY <1>1, <1>8, <2>1, <3>1 DEF TypeOK
        <3> QED
            BY <1>1, <2>1, <3>1, <3>2 DEF WalkInv
    <2>4. ASSUME NEW d, Passes(u, d) PROVE WalkInv'
        <3>1. d \in SeriesDates(feed, u) /\ at' = d /\ masters' = masters
            BY <2>4 DEF Passes
        <3>2. d \in Int /\ Details(feed, u, d) \in Occurrence
            BY <1>1, <2>1, <3>1, DetailsRight
        <3>3. relevant' \in {relevant, relevant + 1} /\ result' \in Seq(Occurrence)
              /\ status' \in {"expanding", "total", "perEvent"}
              /\ (status' = "perEvent" => relevant' > MaxPerEvent)
            <4>1. CASE Emit(Details(feed, u, d)) /\ relevant' = relevant + 1
                BY <1>1, <2>1, <3>2, <4>1, EmitGrows
            <4>2. CASE ~(Emit(Details(feed, u, d)) /\ relevant' = relevant + 1)
                BY <1>1, <2>1, <2>4, <4>2 DEF Passes
            <4> QED
                BY <4>1, <4>2
        <3>4. TypeOK'
            BY <1>1, <1>8, <2>1, <3>1, <3>2, <3>3 DEF TypeOK
        <3>5. Recurring(Master)
            BY <2>1 DEF Master
        <3> QED
            BY <1>1, <1>2, <1>4, <2>1, <3>1, <3>2, <3>3, <3>4, <3>5 DEF WalkInv
    <2> QED
        BY <1>8, <2>2, <2>3, <2>4 DEF Advances
<1>9. ASSUME NEW i, TakesOrphan(i) PROVE WalkInv'
    <2>1. /\ at = None /\ masters = {} /\ orphans' = orphans \ {i} /\ status = "expanding"
          /\ UNCHANGED <<feed, masters, at, scanned, relevant>>
        BY <1>9 DEF TakesOrphan
    <2>2. result' \in Seq(Occurrence) /\ status' \in {"expanding", "total"}
        BY <1>1, <1>9, EmitGrows DEF TakesOrphan
    <2>3. TypeOK'
        BY <1>1, <2>1, <2>2 DEF TypeOK
    <2> QED
        BY <1>1, <2>1, <2>2, <2>3 DEF WalkInv
<1>10. CASE Finish
    <2>1. /\ masters = {} /\ orphans = {} /\ status' = "done"
          /\ UNCHANGED <<feed, masters, orphans, at, scanned, relevant, result>>
        BY <1>10 DEF Finish
    <2>2. TypeOK'
        BY <1>1, <2>1 DEF TypeOK
    <2> QED
        BY <1>1, <2>1, <2>2 DEF WalkInv
<1> QED
    BY <1>5, <1>6, <1>7, <1>8, <1>9, <1>10, WalkCases

LEMMA WalkAlways == Spec => []WalkInv
BY WalkInit, WalkStep, PTL DEF Spec

(* The walk reads dates and keeps what it reads apart by its type.         *)
THEOREM TypeOKHolds == Spec => []TypeOK
<1>1. WalkInv => TypeOK
    BY DEF WalkInv
<1> QED
    BY <1>1, WalkAlways, PTL

(***************************************************************************)
(* What is emitted                                                         *)
(***************************************************************************)
LEMMA ReferenceRight ==
    ASSUME NEW f \in Feeds, Quiet(f)
    PROVE  /\ \A u \in MasterUids(f) : Recurring(MasterOf(f, u)) =>
                 \A d \in SeriesDates(f, u) :
                    Reaches(Details(f, u, d)) => Details(f, u, d) \in Reference(f)
           /\ \A u \in MasterUids(f) :
                 ~Recurring(MasterOf(f, u)) /\ Reaches(Single(MasterOf(f, u))) =>
                    Single(MasterOf(f, u)) \in Reference(f)
           /\ \A i \in Orphans(f) : Reaches(Single(f[i])) => Single(f[i]) \in Reference(f)
           /\ \A o \in Reference(f) :
                 /\ Reaches(o)
                 /\ \/ \E u \in MasterUids(f) : o \in Series(f, u)
                    \/ \E i \in Orphans(f) : o = Single(f[i])
<1>1. \A i \in Orphans(f) : Single(f[i]) = Alone(f[i])
    BY OrphanRight
<1>2. ASSUME NEW u \in MasterUids(f)
      PROVE  /\ Recurring(MasterOf(f, u)) =>
                   \A d \in SeriesDates(f, u) : Details(f, u, d) \in Series(f, u)
             /\ ~Recurring(MasterOf(f, u)) => Single(MasterOf(f, u)) \in Series(f, u)
    BY SeriesRight
<1>3. \A o : o \in Reference(f) <=>
         /\ Reaches(o)
         /\ \/ \E u \in MasterUids(f) : o \in Series(f, u)
            \/ \E i \in Orphans(f) : o = Alone(f[i])
    BY DEF Reference
<1> QED
    BY <1>1, <1>2, <1>3

(* Every occurrence the feed yields up to any point of the expansion,      *)
(* whichever limit ends it, is one that the reference lists: a cancelled   *)
(* or moved date never shows as an ordinary one.                           *)
THEOREM EmitsOnlyReferenceHolds == Spec => []EmitsOnlyReference
<1>1. Init => EmitsOnlyReference
    BY DEF Init, EmitsOnlyReference, Emitted
<1>2. WalkInv /\ EmitsOnlyReference /\ [Next]_vars => EmitsOnlyReference'
    <2> SUFFICES ASSUME WalkInv, EmitsOnlyReference, [Next]_vars PROVE EmitsOnlyReference'
        OBVIOUS
    <2>1. feed \in Feeds /\ result \in Seq(Occurrence)
        BY DEF WalkInv, TypeOK
    <2>2. ASSUME feed' = feed, Quiet(feed) => Emitted' \subseteq Reference(feed)
          PROVE  EmitsOnlyReference'
        BY <2>2 DEF EmitsOnlyReference
    <2>3. ASSUME result' = result PROVE Emitted' = Emitted
        BY <2>3 DEF Emitted
    <2>4. ASSUME NEW o \in Occurrence, Emit(o), status = "expanding", feed' = feed,
                 Quiet(feed) /\ Reaches(o) => o \in Reference(feed)
          PROVE  EmitsOnlyReference'
        <3>1. Emitted' = Emitted \cup (IF Reaches(o) THEN {o} ELSE {})
            BY <2>1, <2>4, EmitGrows
        <3>2. Quiet(feed) => Emitted \subseteq Reference(feed)
            BY DEF EmitsOnlyReference
        <3> QED
            BY <2>2, <2>4, <3>1, <3>2
    <2>5. ASSUME feed' = feed, result' = result PROVE EmitsOnlyReference'
        BY <2>2, <2>3, <2>5 DEF EmitsOnlyReference
    <2>6. CASE UNCHANGED vars \/ Group \/ Finish
        BY <2>5, <2>6 DEF vars, Group, Finish
    <2>7. ASSUME NEW u, Expands(u) PROVE EmitsOnlyReference'
        <3>1. /\ u \in MasterUids(feed) /\ ~Recurring(MasterOf(feed, u))
              /\ Emit(Single(MasterOf(feed, u))) /\ Single(MasterOf(feed, u)) \in Occurrence
              /\ status = "expanding" /\ feed' = feed
            BY <2>7 DEF Expands
        <3>2. Quiet(feed) /\ Reaches(Single(MasterOf(feed, u)))
                 => Single(MasterOf(feed, u)) \in Reference(feed)
            BY <2>1, <3>1, ReferenceRight
        <3> QED
            BY <2>4, <3>1, <3>2
    <2>8. ASSUME NEW u, Advances(u) PROVE EmitsOnlyReference'
        <3>1. /\ u \in MasterUids(feed) /\ Recurring(MasterOf(feed, u))
              /\ status = "expanding" /\ feed' = feed
              /\ GivesUp \/ Leaves(u) \/ \E d : Passes(u, d)
            BY <2>8 DEF Advances
        <3>2. CASE GivesUp \/ Leaves(u)
            BY <2>5, <3>1, <3>2 DEF GivesUp, Leaves
        <3>3. ASSUME NEW d, Passes(u, d) PROVE EmitsOnlyReference'
            <4>1. d \in SeriesDates(feed, u)
                  /\ (result' = result \/ Emit(Details(feed, u, d)))
                BY <3>3 DEF Passes
            <4>2. Details(feed, u, d) \in Occurrence
                BY <2>1, <3>1, <4>1, DetailsRight
            <4>3. Quiet(feed) /\ Reaches(Details(feed, u, d))
                     => Details(feed, u, d) \in Reference(feed)
                BY <2>1, <3>1, <4>1, ReferenceRight
            <4> QED
                BY <2>4, <2>5, <3>1, <4>1, <4>2, <4>3
        <3> QED
            BY <3>1, <3>2, <3>3
    <2>9. ASSUME NEW i, TakesOrphan(i) PROVE EmitsOnlyReference'
        <3>1. /\ i \in Orphans(feed) /\ Emit(Single(feed[i])) /\ Single(feed[i]) \in Occurrence
              /\ status = "expanding" /\ feed' = feed
            BY <2>9 DEF TakesOrphan
        <3>2. Quiet(feed) /\ Reaches(Single(feed[i])) => Single(feed[i]) \in Reference(feed)
            BY <2>1, <3>1, ReferenceRight
        <3> QED
            BY <2>4, <3>1, <3>2
    <2> QED
        BY <2>6, <2>7, <2>8, <2>9, WalkCases
<1> QED
    BY <1>1, <1>2, WalkAlways, PTL DEF Spec

(***************************************************************************)
(* Nothing is lost                                                         *)
(***************************************************************************)
Started(u) == {d \in SeriesDates(feed, u) : at # None /\ d <= at}
CompleteInv ==
    Quiet(feed) /\ Monotonic(feed) /\ status \in {"expanding", "done"} =>
        /\ \A u \in MasterUids(feed) \ masters : \A o \in Series(feed, u) :
              Reaches(o) => o \in Emitted
        /\ masters # {} => \A d \in Started(Current) :
              Reaches(Details(feed, Current, d)) => Details(feed, Current, d) \in Emitted
        /\ \A i \in Orphans(feed) \ orphans : Reaches(Single(feed[i])) => Single(feed[i]) \in Emitted

(* A series is left when no date of it is in reach any more.               *)
LEMMA LeftComplete ==
    ASSUME WalkInv, NEW u, Advances(u), Leaves(u), Quiet(feed), Monotonic(feed),
           NEW e \in SeriesDates(feed, u), Reaches(Details(feed, u, e))
    PROVE  e \in Started(u)
<1>1. /\ u = Current /\ u \in masters /\ u \in MasterUids(feed) /\ Recurring(MasterOf(feed, u))
      /\ feed \in Feeds
    BY DEF Advances, WalkInv, TypeOK
<1>2. SeriesDates(feed, u) \subseteq RuleDates(MasterOf(feed, u))
      /\ SeriesDates(feed, u) \subseteq Int /\ Horizon(feed) \in Int
      /\ IsRule(MasterOf(feed, u))
    BY <1>1, MasterRight, HorizonOfFeed, HorizonRight, RuleBounds DEF SeriesDates
<1>3. CASE at # None /\ \A y \in RuleDates(MasterOf(feed, u)) : y <= at
    BY <1>2, <1>3 DEF Started
<1>4. ASSUME NEW d \in RuleDates(MasterOf(feed, u)), Details(feed, u, d).start >= WindowEnd,
             \A y \in RuleDates(MasterOf(feed, u)) : at = None \/ at < y => d <= y
      PROVE  e \in Started(u)
    <2>1. SUFFICES ASSUME at = None \/ at < e PROVE FALSE
        <3>1. at \in Int \cup {None}
            BY DEF WalkInv, TypeOK
        <3> QED
            BY <1>2, <2>1, <3>1 DEF Started
    <2>2. d <= e
        BY <1>2, <1>4, <2>1
    <2>3. d \in SeriesDates(feed, u)
        BY <1>2, <2>2, HorizonRight DEF SeriesDates
    <2>4. /\ Details(feed, u, d) \in Occurrence /\ Details(feed, u, e) \in Occurrence
          /\ Details(feed, u, d).slot = SlotOf(feed, u, d)
          /\ Details(feed, u, e).slot = SlotOf(feed, u, e)
          /\ d \in Int /\ e \in Int
        BY <1>1, <2>3, DetailsRight
    <2>5. SlotOf(feed, u, d) \in Int /\ SlotOf(feed, u, e) \in Int
        BY <2>4, Absolute DEF SlotOf
    <2>6. SlotOf(feed, u, d) <= SlotOf(feed, u, e)
        <3>1. CASE d = e
            BY <2>5, <3>1
        <3>2. CASE d < e
            BY <1>1, <2>3, <2>5, <3>2, SlotOrder
        <3> QED
            BY <2>2, <2>4, <3>1, <3>2
    <2>7. Details(feed, u, d) \in Series(feed, u) /\ Details(feed, u, e) \in Series(feed, u)
        BY <1>1, <2>3, SeriesRight
    <2>8. Details(feed, u, d).slot # None /\ Details(feed, u, e).slot # None
        BY <2>4, <2>5, FeedsAssumption
    <2>9. Details(feed, u, d).start <= Details(feed, u, e).start
        BY <1>1, <2>4, <2>6, <2>7, <2>8 DEF Monotonic
    <2>10. Details(feed, u, d).start \in Int /\ Details(feed, u, e).start \in Int
        BY <2>4 DEF Occurrence
    <2> QED
        BY <1>4, <2>9, <2>10, LimitsAssumption DEF Reaches
<1> QED
    BY <1>3, <1>4 DEF Leaves

LEMMA CompleteStep == WalkInv /\ CompleteInv /\ [Next]_vars => CompleteInv'
<1> SUFFICES ASSUME WalkInv, CompleteInv, [Next]_vars PROVE CompleteInv'
    OBVIOUS
<1>1. /\ feed \in Feeds /\ result \in Seq(Occurrence)
      /\ masters \subseteq MasterUids(feed) /\ orphans \subseteq Orphans(feed)
      /\ at \in Int \cup {None} /\ None \notin Int
    BY FeedsAssumption DEF WalkInv, TypeOK
<1>2. feed' = feed
    BY WalkCases DEF vars, Group, Expands, Advances, TakesOrphan, Finish
<1>3. ASSUME result' = result PROVE Emitted' = Emitted
    BY <1>3 DEF Emitted
(* What has to be shown when the feed is the same.                         *)
<1>4. SUFFICES ASSUME Quiet(feed), Monotonic(feed), status' \in {"expanding", "done"}
      PROVE  /\ \A u \in MasterUids(feed) \ masters' : \A o \in Series(feed, u) :
                    Reaches(o) => o \in Emitted'
             /\ masters' # {} => \A d \in SeriesDates(feed, Current') :
                    at' # None /\ d <= at' /\ Reaches(Details(feed, Current', d))
                       => Details(feed, Current', d) \in Emitted'
             /\ \A i \in Orphans(feed) \ orphans' :
                    Reaches(Single(feed[i])) => Single(feed[i]) \in Emitted'
    BY <1>2 DEF CompleteInv, Started
<1>5. ASSUME status \in {"expanding", "done"}
      PROVE  /\ \A u \in MasterUids(feed) \ masters : \A o \in Series(feed, u) :
                    Reaches(o) => o \in Emitted
             /\ masters # {} => \A d \in SeriesDates(feed, Current) :
                    at # None /\ d <= at /\ Reaches(Details(feed, Current, d))
                       => Details(feed, Current, d) \in Emitted
             /\ \A i \in Orphans(feed) \ orphans :
                    Reaches(Single(feed[i])) => Single(feed[i]) \in Emitted
    BY <1>4, <1>5 DEF CompleteInv, Started
<1>6. masters' = masters => Current' = Current
    BY <1>2 DEF Current
<1>7. CASE UNCHANGED vars
    <2>1. UNCHANGED <<masters, orphans, at, status>> /\ Emitted' = Emitted
        BY <1>3, <1>7 DEF vars
    <2> QED
        BY <1>4, <1>5, <1>6, <2>1
<1>8. CASE Group
    <2>1. /\ status' = "expanding" /\ masters' = MasterUids(feed) /\ orphans' = Orphans(feed)
          /\ at' = at /\ status = "grouping"
        BY <1>4, <1>8 DEF Group
    <2>2. at = None
        BY <2>1 DEF WalkInv
    <2> QED
        BY <2>1, <2>2
<1>9. ASSUME NEW u, Expands(u)
      PROVE  /\ \A v \in MasterUids(feed) \ masters' : \A o \in Series(feed, v) :
                    Reaches(o) => o \in Emitted'
             /\ at' = None /\ orphans' = orphans /\ Emitted \subseteq Emitted'
             /\ status = "expanding"
    <2>1. /\ u \in MasterUids(feed) /\ ~Recurring(MasterOf(feed, u))
          /\ at = None /\ masters' = masters \ {u} /\ u \in masters
          /\ Emit(Single(MasterOf(feed, u))) /\ Single(MasterOf(feed, u)) \in Occurrence
          /\ status = "expanding" /\ UNCHANGED <<orphans, at>>
        BY <1>9 DEF Expands
    <2>2. Emitted' = Emitted \cup (IF Reaches(Single(MasterOf(feed, u)))
                                    THEN {Single(MasterOf(feed, u))} ELSE {})
        BY <1>1, <2>1, EmitGrows
    <2>3. Series(feed, u) = {Single(MasterOf(feed, u))}
        BY <1>1, <1>4, <2>1, SeriesRight
    <2> QED
        BY <1>5, <2>1, <2>2, <2>3
<1>10. ASSUME NEW u, Advances(u), Leaves(u)
       PROVE  /\ \A v \in MasterUids(feed) \ masters' : \A o \in Series(feed, v) :
                    Reaches(o) => o \in Emitted'
              /\ at' = None /\ orphans' = orphans /\ Emitted \subseteq Emitted'
              /\ status = "expanding"
    <2>1. /\ u = Current /\ u \in masters /\ u \in MasterUids(feed)
          /\ Recurring(MasterOf(feed, u)) /\ status = "expanding" /\ orphans' = orphans
        BY <1>10 DEF Advances
    <2>2. masters' = masters \ {u} /\ at' = None /\ Emitted' = Emitted
        BY <1>3, <1>10 DEF Leaves
    <2>3. Series(feed, u) = {Details(feed, u, d) : d \in SeriesDates(feed, u)}
        BY <1>1, <1>4, <2>1, SeriesRight
    <2>4. ASSUME NEW d \in SeriesDates(feed, u), Reaches(Details(feed, u, d))
          PROVE  Details(feed, u, d) \in Emitted
        <3>1. d \in Started(u)
            BY <1>4, <1>10, <2>4, LeftComplete
        <3> QED
            BY <1>5, <2>1, <2>4, <3>1 DEF Started
    <2> QED
        BY <1>5, <2>1, <2>2, <2>3, <2>4
<1>11. ASSUME NEW u, NEW d, Advances(u), Passes(u, d)
       PROVE  /\ masters' = masters /\ orphans' = orphans /\ Emitted \subseteq Emitted'
              /\ status = "expanding"
              /\ \A e \in SeriesDates(feed, Current) :
                    e <= at' /\ Reaches(Details(feed, Current, e))
                       => Details(feed, Current, e) \in Emitted'
    <2>1. /\ u = Current /\ u \in masters /\ u \in MasterUids(feed)
          /\ status = "expanding" /\ orphans' = orphans
        BY <1>11 DEF Advances
    <2>2. /\ masters' = masters /\ at' = d /\ d \in SeriesDates(feed, u)
          /\ at # None => at < d
          /\ \A y \in RuleDates(MasterOf(feed, u)) : at = None \/ at < y => d <= y
        BY <1>11 DEF Passes
    <2>3. d \in Int /\ Details(feed, u, d) \in Occurrence
        BY <1>1, <2>1, <2>2, DetailsRight
    <2>4. /\ Emitted \subseteq Emitted'
          /\ Reaches(Details(feed, u, d)) => Details(feed, u, d) \in Emitted'
        <3>1. CASE ~Reaches(Details(feed, u, d))
            BY <1>3, <1>11, <3>1 DEF Passes
        <3>2. CASE Reaches(Details(feed, u, d))
            <4>1. Emit(Details(feed, u, d))
                BY <1>4, <1>11, <3>2 DEF Passes
            <4> QED
                BY <1>1, <2>1, <2>3, <3>2, <4>1, EmitGrows
        <3> QED
            BY <3>1, <3>2
    <2>5. ASSUME NEW e \in SeriesDates(feed, u), e <= d PROVE e = d \/ (at # None /\ e <= at)
        <3>1. e \in Int
            BY <1>1, <2>1, DetailsRight
        <3>2. e \in RuleDates(MasterOf(feed, u))
            BY <1>1, <2>1, MasterRight, HorizonOfFeed, HorizonRight DEF SeriesDates
        <3> QED
            BY <1>1, <2>2, <2>3, <2>5, <3>1, <3>2
    <2> QED
        BY <1>5, <2>1, <2>2, <2>4, <2>5
<1>12. ASSUME NEW u, Advances(u)
       PROVE  Leaves(u) \/ \E d : Passes(u, d)
    BY <1>4, <1>12 DEF Advances, GivesUp
<1>13. ASSUME NEW i, TakesOrphan(i)
       PROVE  /\ masters' = masters /\ at' = at /\ status = "expanding"
              /\ Emitted \subseteq Emitted'
              /\ \A n \in Orphans(feed) \ orphans' :
                    Reaches(Single(feed[n])) => Single(feed[n]) \in Emitted'
    <2>1. /\ i \in orphans /\ orphans' = orphans \ {i} /\ UNCHANGED <<masters, at>>
          /\ Emit(Single(feed[i])) /\ Single(feed[i]) \in Occurrence /\ status = "expanding"
        BY <1>13 DEF TakesOrphan
    <2>2. Emitted' = Emitted \cup (IF Reaches(Single(feed[i])) THEN {Single(feed[i])} ELSE {})
        BY <1>1, <2>1, EmitGrows
    <2> QED
        BY <1>5, <2>1, <2>2
<1>14. CASE Finish
    <2>1. UNCHANGED <<masters, orphans, at>> /\ status = "expanding" /\ Emitted' = Emitted
        BY <1>3, <1>14 DEF Finish
    <2> QED
        BY <1>5, <1>6, <2>1
<1>15. CASE \E u : Expands(u)
    BY <1>5, <1>9, <1>15
<1>16. CASE \E u : Advances(u)
    <2>1. PICK u : Advances(u)
        BY <1>16
    <2>2. CASE Leaves(u)
        BY <1>5, <1>10, <2>1, <2>2
    <2>3. CASE \E d : Passes(u, d)
        BY <1>5, <1>6, <1>11, <2>1, <2>3
    <2> QED
        BY <1>12, <2>1, <2>2, <2>3
<1>17. CASE \E i : TakesOrphan(i)
    BY <1>5, <1>6, <1>13, <1>17
<1> QED
    BY <1>7, <1>8, <1>14, <1>15, <1>16, <1>17, WalkCases

(* When overrides do not move dates past later ones of their series, a     *)
(* finished expansion is the reference: no date in reach is lost.          *)
THEOREM CompleteWhenMonotonicHolds == Spec => []CompleteWhenMonotonic
<1>1. Init => CompleteInv
    BY DEF Init, CompleteInv
<1>2. Spec => []CompleteInv
    BY <1>1, CompleteStep, WalkAlways, PTL DEF Spec
<1>3. WalkInv /\ CompleteInv /\ EmitsOnlyReference => CompleteWhenMonotonic
    <2> SUFFICES ASSUME WalkInv, CompleteInv, EmitsOnlyReference, status = "done",
                        Quiet(feed), Monotonic(feed)
                 PROVE  Emitted = Reference(feed)
        BY DEF CompleteWhenMonotonic
    <2>1. Emitted \subseteq Reference(feed)
        BY DEF EmitsOnlyReference
    <2>2. masters = {} /\ orphans = {} /\ feed \in Feeds
        BY DEF WalkInv, TypeOK
    <2>3. /\ \A u \in MasterUids(feed) : \A o \in Series(feed, u) : Reaches(o) => o \in Emitted
          /\ \A i \in Orphans(feed) : Reaches(Single(feed[i])) => Single(feed[i]) \in Emitted
        BY <2>2 DEF CompleteInv
    <2>4. ASSUME NEW o \in Reference(feed) PROVE o \in Emitted
        BY <2>2, <2>3, ReferenceRight
    <2> QED
        BY <2>1, <2>4
<1> QED
    BY <1>2, <1>3, WalkAlways, EmitsOnlyReferenceHolds, PTL

(***************************************************************************)
(* Keys                                                                    *)
(***************************************************************************)
(* Where an emitted occurrence came from: a master that is finished, a     *)
(* date of the current one that was passed, or an orphan that was taken.   *)
Finished(o) == o.uid \in MasterUids(feed) \ masters
Passed(o) ==
    /\ masters # {} /\ o.uid = Current
    /\ \E d \in Started(Current) : o.slot = SlotOf(feed, Current, d)
UidTaken(o) == \E i \in Orphans(feed) \ orphans : o = Single(feed[i])
Came(o) == Finished(o) \/ Passed(o) \/ UidTaken(o)

ListedOnce(f) ==
    /\ Quiet(f)
    /\ \A i, j \in Orphans(f) : f[i].uid = f[j].uid /\ f[i].slot = f[j].slot => i = j
KeysInv ==
    /\ \A o \in Emitted : Came(o)
    /\ KeysDistinct

LEMMA TakenUid ==
    ASSUME feed \in Feeds, NEW o, UidTaken(o)
    PROVE  o.uid \notin MasterUids(feed)
BY OrphanRight DEF UidTaken

(* A new occurrence has a key that none of the emitted ones has.           *)
LEMMA FreshKey ==
    ASSUME KeysInv, result \in Seq(Occurrence), NEW o \in Occurrence, Emit(o),
           status = "expanding", feed' = feed,
           \A p \in Emitted : Came(p)' , Reaches(o) => Came(o)',
           ListedOnce(feed) => \A p \in Emitted : Came(p) => Key(p) # Key(o)
    PROVE  KeysInv'
<1>1. /\ Emitted' = Emitted \cup (IF Reaches(o) THEN {o} ELSE {})
      /\ DOMAIN result \subseteq DOMAIN result'
      /\ \A i \in DOMAIN result : result'[i] = result[i]
      /\ \A i \in DOMAIN result' \ DOMAIN result : result'[i] = o /\ i = Len(result) + 1
    BY EmitGrows
<1>2. \A p \in Emitted' : Came(p)'
    BY <1>1
<1>3. ListedOnce(feed) =>
         \A i, j \in DOMAIN result' : Key(result'[i]) = Key(result'[j]) => i = j
    <2> SUFFICES ASSUME ListedOnce(feed), NEW i \in DOMAIN result', NEW j \in DOMAIN result',
                        Key(result'[i]) = Key(result'[j])
                 PROVE  i = j
        OBVIOUS
    <2>1. \A n \in DOMAIN result : Key(result[n]) # Key(o)
        BY DEF KeysInv, Emitted
    <2>2. \A n, k \in DOMAIN result : Key(result[n]) = Key(result[k]) => n = k
        BY DEF KeysInv, KeysDistinct, ListedOnce
    <2> QED
        BY <1>1, <2>1, <2>2
<1>4. KeysDistinct'
    BY <1>3 DEF KeysDistinct, ListedOnce
<1> QED
    BY <1>2, <1>4 DEF KeysInv

LEMMA KeysStep == WalkInv /\ KeysInv /\ [Next]_vars => KeysInv'
<1> SUFFICES ASSUME WalkInv, KeysInv, [Next]_vars PROVE KeysInv'
    OBVIOUS
<1>1. /\ feed \in Feeds /\ result \in Seq(Occurrence)
      /\ masters \subseteq MasterUids(feed) /\ orphans \subseteq Orphans(feed)
      /\ at \in Int \cup {None} /\ None \notin Int
    BY FeedsAssumption DEF WalkInv, TypeOK
<1>2. feed' = feed
    BY WalkCases DEF vars, Group, Expands, Advances, TakesOrphan, Finish
<1>3. masters' = masters => Current' = Current
    BY <1>2 DEF Current
(* Occurrences keep their origin, also when their series is left.          *)
<1>4. ASSUME NEW p, Came(p), masters' = masters \/ masters' = masters \ {Current},
             masters' = masters => at' = at \/ (at' \in Int /\ at # None => at < at'),
             orphans' \subseteq orphans, masters # {}, at' = None \/ at' \in Int,
             masters' = masters => at' # None \/ at = None
      PROVE  Came(p)'
    <2>1. CASE Finished(p)
        BY <1>2, <1>4, <2>1 DEF Came, Finished
    <2>2. CASE UidTaken(p)
        BY <1>2, <1>4, <2>2 DEF Came, UidTaken
    <2>3. CASE Passed(p) /\ masters' = masters \ {Current}
        <3>1. p.uid = Current /\ Current \in MasterUids(feed)
            BY <1>1, <1>4, <2>3, CurrentRight DEF Passed
        <3>2. Finished(p)'
            BY <1>2, <2>3, <3>1 DEF Finished
        <3> QED
            BY <3>2 DEF Came
    <2>4. CASE Passed(p) /\ masters' = masters
        <3>1. PICK d \in SeriesDates(feed, Current) :
                 at # None /\ d <= at /\ p.slot = SlotOf(feed, Current, d)
            BY <2>4 DEF Passed, Started
        <3>2. d \in Int
            BY <1>1, <1>4, <3>1, CurrentRight, DetailsRight
        <3>3. at' # None /\ d <= at'
            BY <1>1, <1>4, <2>4, <3>1, <3>2
        <3>4. Passed(p)'
            BY <1>2, <1>3, <1>4, <2>4, <3>1, <3>3 DEF Passed, Started
        <3> QED
            BY <3>4 DEF Came
    <2> QED
        BY <1>4, <2>1, <2>2, <2>3, <2>4 DEF Came
<1>5. ASSUME result' = result, \A p \in Emitted : Came(p)'
      PROVE  KeysInv'
    <2>1. Emitted' = Emitted /\ (KeysDistinct' <=> KeysDistinct)
        BY <1>2, <1>5 DEF Emitted, KeysDistinct
    <2> QED
        BY <1>5, <2>1 DEF KeysInv
<1>6. CASE UNCHANGED vars
    <2>1. \A p : Came(p) => Came(p)'
        BY <1>2, <1>3, <1>6 DEF vars, Came, Finished, Passed, UidTaken, Started
    <2> QED
        BY <1>5, <1>6, <2>1 DEF vars, KeysInv
<1>7. CASE Group
    <2>1. result = << >> /\ result' = result
        BY <1>7 DEF Group, WalkInv
    <2>2. Emitted = {}
        BY <2>1 DEF Emitted
    <2> QED
        BY <1>5, <2>1, <2>2
<1>8. ASSUME NEW u, Expands(u) PROVE KeysInv'
    <2>0. PICK o \in Occurrence : o = Single(MasterOf(feed, u))
        BY <1>8 DEF Expands
    <2>1. /\ u \in masters /\ u \in MasterUids(feed) /\ at = None /\ masters' = masters \ {u}
          /\ Emit(o) /\ o.uid = u /\ status = "expanding"
          /\ UNCHANGED <<orphans, at>>
        BY <1>8, <2>0 DEF Expands
    <2>2. ASSUME NEW p, Came(p) PROVE ~Passed(p)
        BY <2>1 DEF Passed, Started
    <2>3. ASSUME NEW p, Came(p) PROVE Came(p)'
        BY <1>2, <2>1, <2>2, <2>3 DEF Came, Finished, UidTaken
    <2>4. Came(o)'
        BY <1>2, <2>1 DEF Came, Finished
    <2>5. ASSUME NEW p, Came(p) PROVE Key(p) # Key(o)
        <3>1. p.uid # u
            BY <1>1, <2>1, <2>2, <2>5, TakenUid DEF Came, Finished
        <3> QED
            BY <2>1, <3>1 DEF Key
    <2> QED
        BY <1>1, <1>2, <2>1, <2>3, <2>4, <2>5, FreshKey DEF KeysInv
<1>9. ASSUME NEW u, Advances(u) PROVE KeysInv'
    <2>1. /\ u = Current /\ u \in masters /\ u \in MasterUids(feed)
          /\ status = "expanding" /\ orphans' = orphans
          /\ GivesUp \/ Leaves(u) \/ \E d : Passes(u, d)
        BY <1>9 DEF Advances
    <2>2. CASE GivesUp \/ Leaves(u)
        <3>1. /\ result' = result
              /\ \/ masters' = masters /\ at' = at
                 \/ masters' = masters \ {u} /\ at' = None
            BY <2>2 DEF GivesUp, Leaves
        <3>2. \A p \in Emitted : Came(p)'
            BY <1>1, <1>4, <2>1, <3>1 DEF KeysInv
        <3> QED
            BY <1>5, <3>1, <3>2
    <2>3. ASSUME NEW d, Passes(u, d) PROVE KeysInv'
        <3>1. /\ d \in SeriesDates(feed, u) /\ at' = d /\ masters' = masters
              /\ at # None => at < d
              /\ result' = result \/ Emit(Details(feed, u, d))
            BY <2>3 DEF Passes
        <3>2. PICK o \in Occurrence : /\ o = Details(feed, u, d) /\ o.uid = u
                                      /\ o.slot = SlotOf(feed, u, d) /\ d \in Int
            BY <1>1, <2>1, <3>1, DetailsRight
        <3>3. \A p \in Emitted : Came(p)'
            BY <1>1, <1>4, <2>1, <3>1, <3>2 DEF KeysInv
        <3>4. Came(o)'
            <4>1. Passed(o)'
                BY <1>1, <1>2, <1>3, <2>1, <3>1, <3>2 DEF Passed, Started
            <4> QED
                BY <4>1 DEF Came
        <3>5. ASSUME NEW p, Came(p), Quiet(feed) PROVE Key(p) # Key(o)
            <4>1. CASE Finished(p) \/ UidTaken(p)
                <5>1. p.uid # u
                    BY <1>1, <2>1, <4>1, TakenUid DEF Finished
                <5> QED
                    BY <3>2, <5>1 DEF Key
            <4>2. CASE Passed(p)
                <5>1. PICK c \in SeriesDates(feed, u) :
                         at # None /\ c <= at /\ p.slot = SlotOf(feed, u, c)
                    BY <2>1, <4>2 DEF Passed, Started
                <5>2. c \in Int /\ at \in Int /\ c < d
                    <6>1. c \in Int
                        BY <1>1, <2>1, DetailsRight
                    <6>2. at \in Int /\ c <= at /\ at < d
                        BY <1>1, <3>1, <5>1
                    <6> QED
                        BY <3>2, <6>1, <6>2
                <5>3. SlotOf(feed, u, c) < SlotOf(feed, u, d)
                    BY <1>1, <2>1, <3>1, <3>5, <5>2, SlotOrder
                <5>4. SlotOf(feed, u, c) \in Int /\ SlotOf(feed, u, d) \in Int
                    BY <3>2, <5>2, Absolute DEF SlotOf
                <5>5. p.slot # o.slot
                    BY <3>2, <5>1, <5>3, <5>4
                <5> QED
                    BY <5>5 DEF Key
            <4> QED
                BY <3>5, <4>1, <4>2 DEF Came
        <3> QED
            BY <1>1, <1>2, <1>5, <2>1, <3>1, <3>2, <3>3, <3>4, <3>5, FreshKey DEF ListedOnce
    <2> QED
        BY <2>1, <2>2, <2>3
<1>10. ASSUME NEW i, TakesOrphan(i) PROVE KeysInv'
    <2>1. /\ i \in orphans /\ i \in Orphans(feed) /\ masters = {} /\ at = None
          /\ orphans' = orphans \ {i} /\ status = "expanding" /\ UNCHANGED <<masters, at>>
          /\ Emit(Single(feed[i])) /\ Single(feed[i]) \in Occurrence
        BY <1>10 DEF TakesOrphan
    <2>2. PICK o \in Occurrence : o = Single(feed[i])
        BY <2>1
    <2>3. ASSUME NEW p, Came(p) PROVE Finished(p) \/ UidTaken(p)
        BY <2>1, <2>3 DEF Came, Passed
    <2>4. ASSUME NEW p, Came(p) PROVE Came(p)'
        BY <1>2, <2>1, <2>3, <2>4 DEF Came, Finished, UidTaken
    <2>5. Came(o)'
        BY <1>2, <2>1, <2>2 DEF Came, UidTaken
    <2>6. /\ feed[i].slot \in Int /\ o.uid = feed[i].uid /\ feed[i].uid \notin MasterUids(feed)
          /\ o.slot = ToAbsolute(feed[i].slot, feed[i].clock) /\ i \in DOMAIN feed
        BY <1>1, <2>1, <2>2, OrphanRight
    <2>7. ASSUME NEW p, Came(p), ListedOnce(feed), Key(p) = Key(o) PROVE FALSE
        <3>1. p.uid = o.uid /\ p.slot = o.slot
            BY <2>7 DEF Key
        <3>2. PICK n \in Orphans(feed) \ orphans : p = Single(feed[n])
            BY <2>3, <2>6, <2>7, <3>1 DEF Finished, UidTaken
        <3>3. /\ feed[n].slot \in Int /\ p.uid = feed[n].uid /\ n \in DOMAIN feed
              /\ p.slot = ToAbsolute(feed[n].slot, feed[n].clock)
              /\ OnClock(feed[n].slot, feed[n].clock) /\ OnClock(feed[i].slot, feed[i].clock)
            BY <1>1, <2>1, <2>7, <3>2, OrphanRight DEF ListedOnce
        <3>4. feed[n].uid = feed[i].uid /\ feed[n].clock = feed[i].clock
            BY <1>1, <2>6, <3>1, <3>3, FeedRight
        <3>5. ~(feed[n].slot < feed[i].slot) /\ ~(feed[i].slot < feed[n].slot)
            <4> DEFINE c == feed[i].clock
            <4>1. /\ ToAbsolute(feed[n].slot, c) = ToAbsolute(feed[i].slot, c)
                  /\ ToAbsolute(feed[i].slot, c) \in Int
                  /\ OnClock(feed[n].slot, c) /\ OnClock(feed[i].slot, c)
                BY <2>6, <3>1, <3>3, <3>4, Absolute
            <4> HIDE DEF c
            <4> QED
                BY <2>6, <3>3, <4>1, Absolute
        <3>6. n = i
            BY <2>1, <2>6, <2>7, <3>2, <3>3, <3>4, <3>5 DEF ListedOnce
        <3> QED
            BY <2>1, <3>2, <3>6
    <2> QED
        BY <1>1, <1>2, <2>1, <2>2, <2>4, <2>5, <2>7, FreshKey DEF KeysInv
<1>11. CASE Finish
    <2>1. \A p : Came(p) => Came(p)'
        BY <1>2, <1>3, <1>11 DEF Finish, Came, Finished, Passed, UidTaken, Started
    <2> QED
        BY <1>5, <1>11, <2>1 DEF Finish, KeysInv
<1> QED
    BY <1>6, <1>7, <1>8, <1>9, <1>10, <1>11, WalkCases

(* Two occurrences of one expansion have different keys, as the unique     *)
(* index of the database wants it, unless the feed lists an override of an *)
(* event it does not have twice.                                           *)
THEOREM KeysDistinctHolds == Spec => []KeysDistinct
<1>1. Init => KeysInv
    BY DEF Init, KeysInv, KeysDistinct, Emitted
<1>2. KeysInv => KeysDistinct
    BY DEF KeysInv
<1> QED
    BY <1>1, <1>2, KeysStep, WalkAlways, PTL DEF Spec

(***************************************************************************)
(* What is charged                                                         *)
(***************************************************************************)
InReachTo(f, u, x) ==
    {Details(f, u, d) : d \in {e \in SeriesDates(f, u) : e <= x /\ Reaches(Details(f, u, e))}}
ChargeInv ==
    Quiet(feed) /\ at # None => relevant <= Cardinality(InReachTo(feed, Current, at))

LEMMA ReachFinite ==
    ASSUME NEW f \in Feeds, Quiet(f), NEW u \in MasterUids(f), Recurring(MasterOf(f, u))
    PROVE  /\ IsFiniteSet({o \in Series(f, u) : Reaches(o)})
           /\ \A x : /\ InReachTo(f, u, x) \subseteq {o \in Series(f, u) : Reaches(o)}
                     /\ IsFiniteSet(InReachTo(f, u, x))
<1> DEFINE D == SeriesDates(f, u)
           F == [d \in D |-> Details(f, u, d)]
           S == {Details(f, u, d) : d \in D}
<1>1. IsFiniteSet(D)
    BY MasterRight, HorizonOfFeed, HorizonRight DEF SeriesDates
<1>2. F \in Surjection(D, S)
    BY DEF Surjection
<1>3. Series(f, u) = S
    BY SeriesRight
<1> HIDE DEF F, S, D
<1>4. IsFiniteSet(S)
    BY <1>1, <1>2, FS_Surjection
<1>5. IsFiniteSet({o \in S : Reaches(o)})
    BY <1>4, FS_Subset
<1>6. \A x : InReachTo(f, u, x) \subseteq {o \in S : Reaches(o)}
    BY DEF InReachTo, S, D
<1> QED
    BY <1>3, <1>5, <1>6, FS_Subset

(* A date that is charged had not been counted before.                     *)
LEMMA ChargedOnce ==
    ASSUME WalkInv, ChargeInv, Quiet(feed), NEW u, Advances(u), NEW d, Passes(u, d)
    PROVE  relevant' <= Cardinality(InReachTo(feed, u, d))
<1>1. /\ feed \in Feeds /\ relevant \in Nat /\ at \in Int \cup {None} /\ None \notin Int
      /\ u = Current /\ u \in MasterUids(feed) /\ Recurring(MasterOf(feed, u))
      /\ at = None => relevant = 0
    BY FeedsAssumption DEF WalkInv, TypeOK, Advances
<1>2. d \in SeriesDates(feed, u) /\ (at # None => at < d)
    BY DEF Passes
<1>3. \A e \in SeriesDates(feed, u) : e \in Int
    BY <1>1, DetailsRight
<1>4. \/ relevant' = relevant /\ ~Reaches(Details(feed, u, d))
      \/ relevant' = relevant + 1 /\ Reaches(Details(feed, u, d))
    BY DEF Passes
<1> DEFINE B == IF at = None THEN {} ELSE InReachTo(feed, u, at)
           T == InReachTo(feed, u, d)
           o == Details(feed, u, d)
<1>5. IsFiniteSet(B) /\ IsFiniteSet(T)
    BY <1>1, ReachFinite, FS_EmptySet
<1>6. relevant <= Cardinality(B) /\ Cardinality(B) \in Nat
    <2>1. CASE at = None
        BY <1>1, <2>1, FS_EmptySet
    <2>2. CASE at # None
        <3>1. Cardinality(B) \in Nat
            BY <1>5, FS_CardinalityType
        <3> QED
            BY <1>1, <2>2, <3>1 DEF ChargeInv
    <2> QED
        BY <2>1, <2>2
<1>7. B \subseteq T
    <2>1. CASE at = None
        BY <2>1
    <2>2. CASE at # None
        <3>1. \A e \in SeriesDates(feed, u) : e <= at => e <= d
            BY <1>1, <1>2, <1>3, <2>2
        <3> QED
            BY <2>2, <3>1 DEF InReachTo
    <2> QED
        BY <2>1, <2>2
<1>8. Reaches(o) => o \in T /\ o \notin B
    <2> SUFFICES ASSUME Reaches(o) PROVE o \in T /\ o \notin B
        OBVIOUS
    <2>1. o \in T
        BY <1>2, <1>3 DEF InReachTo
    <2>2. ASSUME o \in B PROVE FALSE
        <3>1. PICK e \in SeriesDates(feed, u) : at # None /\ e <= at /\ o = Details(feed, u, e)
            BY <2>2 DEF InReachTo
        <3>2. e < d /\ e \in Int /\ d \in Int
            BY <1>1, <1>2, <1>3, <3>1
        <3>3. SlotOf(feed, u, e) < SlotOf(feed, u, d)
            BY <1>1, <1>2, <3>2, SlotOrder
        <3>4. SlotOf(feed, u, e) \in Int /\ SlotOf(feed, u, d) \in Int
            BY <3>2, Absolute DEF SlotOf
        <3>5. o.slot = SlotOf(feed, u, d) /\ o.slot = SlotOf(feed, u, e)
            BY <1>1, <1>2, <3>1, DetailsRight
        <3> QED
            BY <3>3, <3>4, <3>5
    <2> QED
        BY <2>1, <2>2
<1> HIDE DEF B, T, o
<1>9. Cardinality(B) <= Cardinality(T) /\ Cardinality(T) \in Nat
    BY <1>5, <1>7, FS_Subset, FS_CardinalityType
<1>10. CASE relevant' = relevant
    BY <1>1, <1>6, <1>9, <1>10 DEF T
<1>11. CASE relevant' = relevant + 1 /\ Reaches(o)
    <2>1. Cardinality(B \cup {o}) = Cardinality(B) + 1 /\ IsFiniteSet(B \cup {o})
        BY <1>5, <1>8, <1>11, FS_AddElement
    <2>2. B \cup {o} \subseteq T
        BY <1>7, <1>8, <1>11
    <2>3. Cardinality(B \cup {o}) <= Cardinality(T)
        BY <1>5, <2>2, FS_Subset
    <2> QED
        BY <1>1, <1>6, <1>9, <1>11, <2>1, <2>3 DEF T
<1> QED
    BY <1>4, <1>10, <1>11 DEF o

(* The limit per event is hit only by an event that has more dates in      *)
(* reach of the window than the limit: what ended before the window is     *)
(* skipped and not charged.                                                *)
THEOREM ChargedOnlyInReachHolds == Spec => []ChargedOnlyInReach
<1>1. Init => ChargeInv
    BY DEF Init, ChargeInv
<1>2. WalkInv /\ ChargeInv /\ [Next]_vars => ChargeInv'
    <2> SUFFICES ASSUME WalkInv, ChargeInv, [Next]_vars PROVE ChargeInv'
        OBVIOUS
    <2>1. feed' = feed
        BY WalkCases DEF vars, Group, Expands, Advances, TakesOrphan, Finish
    <2>2. masters' = masters => Current' = Current
        BY <2>1 DEF Current
    <2>3. SUFFICES ASSUME Quiet(feed), at' # None
          PROVE  relevant' <= Cardinality(InReachTo(feed, Current', at'))
        BY <2>1 DEF ChargeInv
    <2>4. CASE UNCHANGED <<masters, at, relevant>>
        BY <2>2, <2>3, <2>4 DEF ChargeInv
    <2>5. CASE UNCHANGED vars \/ GivesUp \/ Finish
        BY <2>4, <2>5 DEF vars, GivesUp, Finish
    <2>6. CASE Group
        <3>1. at' = at /\ status = "grouping"
            BY <2>6 DEF Group
        <3> QED
            BY <2>3, <3>1 DEF WalkInv
    <2>7. ASSUME NEW u, Expands(u) PROVE FALSE
        BY <2>3, <2>7 DEF Expands
    <2>8. ASSUME NEW i, TakesOrphan(i) PROVE FALSE
        BY <2>3, <2>8 DEF TakesOrphan
    <2>9. ASSUME NEW u, Advances(u)
          PROVE  relevant' <= Cardinality(InReachTo(feed, Current', at'))
        <3>1. u = Current /\ (GivesUp \/ Leaves(u) \/ \E d : Passes(u, d))
            BY <2>9 DEF Advances
        <3>2. ~Leaves(u)
            BY <2>3 DEF Leaves
        <3>3. ASSUME NEW d, Passes(u, d)
              PROVE  relevant' <= Cardinality(InReachTo(feed, Current', at'))
            <4>1. at' = d /\ masters' = masters
                BY <3>3 DEF Passes
            <4>2. relevant' <= Cardinality(InReachTo(feed, u, d))
                BY <2>3, <2>9, <3>3, ChargedOnce
            <4> QED
                BY <2>2, <3>1, <4>1, <4>2
        <3> QED
            BY <2>5, <3>1, <3>2, <3>3
    <2> QED
        BY <2>5, <2>6, <2>7, <2>8, <2>9, WalkCases
<1>3. WalkInv /\ ChargeInv => ChargedOnlyInReach
    <2> SUFFICES ASSUME WalkInv, ChargeInv, status = "perEvent", Quiet(feed)
                 PROVE  \E u \in MasterUids(feed) :
                            Cardinality({o \in Series(feed, u) : Reaches(o)}) > MaxPerEvent
        BY DEF ChargedOnlyInReach
    <2>1. /\ feed \in Feeds /\ masters \subseteq MasterUids(feed) /\ masters # {}
          /\ at # None /\ Recurring(MasterOf(feed, Current)) /\ relevant \in Nat
          /\ relevant > MaxPerEvent
        BY DEF WalkInv, TypeOK, Master
    <2>2. Current \in MasterUids(feed)
        BY <2>1, CurrentRight
    <2> DEFINE S == {o \in Series(feed, Current) : Reaches(o)}
               T == InReachTo(feed, Current, at)
    <2>3. IsFiniteSet(S) /\ T \subseteq S /\ IsFiniteSet(T)
        BY <2>1, <2>2, ReachFinite
    <2>4. relevant <= Cardinality(T)
        BY <2>1 DEF ChargeInv
    <2> HIDE DEF S, T
    <2>5. Cardinality(T) <= Cardinality(S) /\ Cardinality(S) \in Nat /\ Cardinality(T) \in Nat
        BY <2>3, FS_Subset, FS_CardinalityType
    <2>6. Cardinality(S) > MaxPerEvent
        BY <2>1, <2>4, <2>5, LimitsAssumption
    <2> QED
        BY <2>2, <2>6 DEF S
<1> QED
    BY <1>1, <1>2, <1>3, WalkAlways, PTL DEF Spec

(***************************************************************************)
(* ---------------------- The routes over the events ---------------------- *)
(***************************************************************************)

(***************************************************************************)
(* The index of event ids                                                  *)
(***************************************************************************)
HeldKey == [key : Int, id : Slugs \X Int]
EventRow == [calendar : Calendars, key : Int, start : Int, end : Int]
IsIndex(ix) ==
    /\ ix \in [order : Seq(Slugs), keys : [Slugs -> Seq(HeldKey)], count : Int]
    /\ \A s \in Slugs : \A i \in DOMAIN ix.keys[s] :
          ix.keys[s][i].id = Derived(s, ix.keys[s][i].key)
    /\ Cardinality(Held(ix)) <= ix.count

(* The image of a finite set is finite.                                    *)
LEMMA ImageFinite ==
    ASSUME NEW S, IsFiniteSet(S), NEW f
    PROVE  IsFiniteSet({f[x] : x \in S})
<1> DEFINE T == {f[x] : x \in S}
           g == [x \in S |-> f[x]]
<1>1. g \in Surjection(S, T)
    BY DEF Surjection
<1> QED
    BY <1>1, FS_Surjection

LEMMA SlugsFinite == IsFiniteSet(Slugs) /\ Calendars \subseteq Slugs /\ Unknown \in Slugs
<1>1. IsFiniteSet(Calendars)
    BY ReadingAssumption
<1> QED
    BY <1>1, FS_AddElement DEF Slugs

(* The keys held are finitely many.                                        *)
LEMMA HeldFinite ==
    ASSUME NEW ix, \A s \in Slugs : ix.keys[s] \in Seq(HeldKey)
    PROVE  IsFiniteSet(Held(ix)) /\ Cardinality(Held(ix)) \in Nat
<1> DEFINE f == [s \in Slugs |-> {s} \X DOMAIN ix.keys[s]]
<1>1. ASSUME NEW s \in Slugs PROVE IsFiniteSet(f[s])
    <2>1. DOMAIN ix.keys[s] = 1 .. Len(ix.keys[s]) /\ Len(ix.keys[s]) \in Nat
        OBVIOUS
    <2>2. IsFiniteSet(DOMAIN ix.keys[s])
        <3>1. IsFiniteSet(1 .. Len(ix.keys[s]))
            BY <2>1, FS_Interval, 1 \in Int, Len(ix.keys[s]) \in Int
        <3> QED
            BY <2>1, <3>1
    <2>3. IsFiniteSet({s})
        BY FS_Singleton
    <2>4. IsFiniteSet({s} \X DOMAIN ix.keys[s])
        BY <2>2, <2>3, FS_Product
    <2> QED
        BY <2>4
<1>2. Held(ix) = UNION {f[s] : s \in Slugs}
    BY DEF Held
<1> HIDE DEF f
<1>3. IsFiniteSet({f[s] : s \in Slugs})
    BY SlugsFinite, ImageFinite
<1>4. IsFiniteSet(Held(ix))
    BY <1>1, <1>2, <1>3, FS_UNION
<1> QED
    BY <1>4, FS_CardinalityType

(* A set grows by one element at most.                                     *)
LEMMA OneMore ==
    ASSUME NEW S, IsFiniteSet(S), NEW x
    PROVE  Cardinality(S \cup {x}) \in Nat /\ Cardinality(S \cup {x}) <= Cardinality(S) + 1
<1>1. IsFiniteSet(S \cup {x})
    BY FS_AddElement
<1>2. Cardinality(S \cup {x}) = IF x \in S THEN Cardinality(S) ELSE Cardinality(S) + 1
    BY FS_AddElement, Zenon
<1>3. Cardinality(S) \in Nat /\ Cardinality(S \cup {x}) \in Nat
    BY <1>1, FS_CardinalityType
<1> QED
    BY <1>2, <1>3

LEMMA HeldOnly ==
    ASSUME NEW ix, NEW p
    PROVE  p \in Held(ix) <=> \E s \in Slugs : \E i \in DOMAIN ix.keys[s] : p = <<s, i>>
BY DEF Held

(* Dropping the oldest key of the oldest map is counted.                   *)
LEMMA Evicts ==
    ASSUME NEW ix, IsIndex(ix)
    PROVE  IsIndex(EvictOldest(ix))
<1>1. CASE ix.order = <<>>
    BY <1>1 DEF EvictOldest
<1>2. CASE ix.order # <<>>
    <2> DEFINE o == Head(ix.order)
               m == ix.keys[o]
               rest == IF m = <<>> THEN m ELSE Tail(m)
               jx == EvictOldest(ix)
    <2>1. /\ ix.order \in Seq(Slugs) /\ ix.keys \in [Slugs -> Seq(HeldKey)] /\ ix.count \in Int
        BY DEF IsIndex
    <2>2. o \in Slugs /\ Tail(ix.order) \in Seq(Slugs)
        BY <1>2, <2>1
    <2>3. m \in Seq(HeldKey)
        BY <2>1, <2>2
    <2> HIDE DEF o, m
    <2>4. rest \in Seq(HeldKey)
        BY <2>3
    <2>5. /\ jx.order \in Seq(Slugs)
          /\ jx.keys = [ix.keys EXCEPT ![o] = rest]
          /\ jx.count = IF m = <<>> THEN ix.count ELSE ix.count - 1
          /\ jx = [order |-> jx.order, keys |-> jx.keys, count |-> jx.count]
        BY <1>2, <2>1, <2>2 DEF EvictOldest, o, m
    <2> HIDE DEF jx
    <2>6. jx.keys \in [Slugs -> Seq(HeldKey)] /\ jx.count \in Int
        BY <2>1, <2>2, <2>4, <2>5
    <2>7. jx \in [order : Seq(Slugs), keys : [Slugs -> Seq(HeldKey)], count : Int]
        BY <2>5, <2>6
    <2>8. ASSUME NEW s \in Slugs, NEW i \in DOMAIN jx.keys[s]
          PROVE  jx.keys[s][i].id = Derived(s, jx.keys[s][i].key)
        <3>1. \A j \in DOMAIN ix.keys[s] : ix.keys[s][j].id = Derived(s, ix.keys[s][j].key)
            BY DEF IsIndex
        <3>2. CASE s # o \/ m = <<>>
            <4>1. jx.keys[s] = ix.keys[s]
                BY <2>1, <2>5, <3>2 DEF m
            <4> QED
                BY <3>1, <4>1
        <3>3. CASE s = o /\ m # <<>>
            <4>1. jx.keys[s] = Tail(m) /\ ix.keys[s] = m
                BY <2>1, <2>5, <3>3 DEF m
            <4>2. i + 1 \in DOMAIN m /\ Tail(m)[i] = m[i + 1]
                BY <2>3, <3>3, <4>1
            <4> QED
                BY <3>1, <4>1, <4>2
        <3> QED
            BY <3>2, <3>3
    <2>9. Cardinality(Held(jx)) <= jx.count
        <3>1. Cardinality(Held(ix)) <= ix.count
            BY DEF IsIndex
        <3>2. CASE m = <<>>
            <4>1. jx.keys = ix.keys
                <5>1. jx.keys = [ix.keys EXCEPT ![o] = ix.keys[o]]
                    BY <2>5, <3>2 DEF m
                <5> QED
                    BY <2>1, <5>1
            <4> QED
                BY <2>5, <3>1, <3>2, <4>1 DEF Held
        <3>3. CASE m # <<>>
            <4>1. <<o, Len(m)>> \in Held(ix)
                BY <2>2, <2>3, <3>3, HeldOnly DEF m
            <4>2. Held(jx) = Held(ix) \ {<<o, Len(m)>>}
                <5>1. DOMAIN jx.keys[o] = 1 .. Len(m) - 1 /\ DOMAIN ix.keys[o] = 1 .. Len(m)
                    BY <2>1, <2>2, <2>3, <2>5, <3>3 DEF m
                <5>2. \A s \in Slugs : s # o => jx.keys[s] = ix.keys[s]
                    BY <2>1, <2>5
                <5>3. ASSUME NEW p PROVE p \in Held(jx) <=> p \in Held(ix) \ {<<o, Len(m)>>}
                    <6>1. ASSUME NEW s \in Slugs, NEW i
                          PROVE  (i \in DOMAIN jx.keys[s]) <=>
                                    (i \in DOMAIN ix.keys[s] /\ ~(s = o /\ i = Len(m)))
                        <7>1. Len(m) \in Nat
                            BY <2>3
                        <7> QED
                            BY <5>1, <5>2, <7>1
                    <6>2. p \in Held(jx) <=> \E s \in Slugs : \E i \in DOMAIN jx.keys[s] : p = <<s, i>>
                        BY HeldOnly
                    <6>3. p \in Held(ix) <=> \E s \in Slugs : \E i \in DOMAIN ix.keys[s] : p = <<s, i>>
                        BY HeldOnly
                    <6> QED
                        BY <6>1, <6>2, <6>3
                <5> QED
                    BY <5>3
            <4>3. IsFiniteSet(Held(ix)) /\ Cardinality(Held(ix)) \in Nat
                BY <2>1, HeldFinite
            <4>4. Cardinality(Held(jx)) = Cardinality(Held(ix)) - 1
                BY <4>1, <4>2, <4>3, FS_RemoveElement
            <4> QED
                BY <2>1, <2>5, <3>1, <3>3, <4>3, <4>4
        <3> QED
            BY <3>2, <3>3
    <2>10. IsIndex(jx)
        BY <2>7, <2>8, <2>9 DEF IsIndex
    <2> QED
        BY <2>10 DEF jx
<1> QED
    BY <1>1, <1>2

(* What is added is counted, also to a map that the index has dropped.     *)
LEMMA Adds ==
    ASSUME NEW ix, IsIndex(ix), NEW s0 \in Slugs, NEW k \in Int
    PROVE  IsIndex(WithKey(ix, s0, k, Derived(s0, k)))
<1> DEFINE room == IF ix.count >= MaxKeys THEN EvictOldest(ix) ELSE ix
           new == [key |-> k, id |-> Derived(s0, k)]
           m == room.keys[s0]
           jx == WithKey(ix, s0, k, Derived(s0, k))
<1>1. IsIndex(room)
    BY Evicts
<1> HIDE DEF room
<1>2. /\ room \in [order : Seq(Slugs), keys : [Slugs -> Seq(HeldKey)], count : Int]
      /\ room.keys \in [Slugs -> Seq(HeldKey)] /\ room.count \in Int
    BY <1>1 DEF IsIndex
<1>3. m \in Seq(HeldKey) /\ new \in HeldKey
    BY <1>2 DEF HeldKey, Derived
<1>4. jx = [room EXCEPT !.keys[s0] = Append(@, new), !.count = @ + 1]
    BY DEF WithKey, room
<1> HIDE DEF new, jx
<1>5. /\ jx.keys = [room.keys EXCEPT ![s0] = Append(m, new)] /\ jx.count = room.count + 1
      /\ jx.order = room.order
    BY <1>2, <1>4
<1>6. Append(m, new) \in Seq(HeldKey)
    BY <1>3
<1>7. jx \in [order : Seq(Slugs), keys : [Slugs -> Seq(HeldKey)], count : Int]
    <2>1. jx = [order |-> jx.order, keys |-> jx.keys, count |-> jx.count]
        BY <1>2, <1>4
    <2>2. jx.order \in Seq(Slugs) /\ jx.count \in Int
        BY <1>2, <1>5
    <2>3. jx.keys \in [Slugs -> Seq(HeldKey)]
        BY <1>2, <1>5, <1>6
    <2> QED
        BY <2>1, <2>2, <2>3
<1>8. jx.keys[s0] = Append(m, new) /\ \A s \in Slugs : s # s0 => jx.keys[s] = room.keys[s]
    BY <1>2, <1>5
<1> HIDE DEF m
<1>9. ASSUME NEW s \in Slugs, NEW i \in DOMAIN jx.keys[s]
      PROVE  jx.keys[s][i].id = Derived(s, jx.keys[s][i].key)
    <2>1. \A j \in DOMAIN room.keys[s] : room.keys[s][j].id = Derived(s, room.keys[s][j].key)
        BY <1>1 DEF IsIndex
    <2>2. CASE s # s0
        BY <1>8, <2>1, <2>2
    <2>3. CASE s = s0 /\ i = Len(m) + 1
        <3>1. jx.keys[s][i] = new
            BY <1>3, <1>8, <2>3
        <3> QED
            BY <2>3, <3>1 DEF new
    <2>4. CASE s = s0 /\ i # Len(m) + 1
        <3>1. i \in DOMAIN m /\ jx.keys[s][i] = m[i]
            BY <1>3, <1>8, <2>4
        <3> QED
            BY <2>1, <2>4, <3>1 DEF m
    <2> QED
        BY <2>2, <2>3, <2>4
<1>10. Cardinality(Held(jx)) <= jx.count
    <2>1. Held(jx) = Held(room) \cup {<<s0, Len(m) + 1>>}
        <3>1. /\ DOMAIN jx.keys[s0] = 1 .. Len(m) + 1 /\ DOMAIN room.keys[s0] = 1 .. Len(m)
              /\ Len(m) \in Nat
            BY <1>2, <1>3, <1>8 DEF m
        <3>2. ASSUME NEW s \in Slugs, NEW i
              PROVE  (i \in DOMAIN jx.keys[s]) <=>
                        (i \in DOMAIN room.keys[s] \/ (s = s0 /\ i = Len(m) + 1))
            BY <1>8, <3>1
        <3>3. ASSUME NEW p PROVE p \in Held(jx) <=> p \in Held(room) \cup {<<s0, Len(m) + 1>>}
            <4>2. p \in Held(jx) <=> \E s \in Slugs : \E i \in DOMAIN jx.keys[s] : p = <<s, i>>
                BY HeldOnly
            <4>3. p \in Held(room) <=> \E s \in Slugs : \E i \in DOMAIN room.keys[s] : p = <<s, i>>
                BY HeldOnly
            <4> QED
                BY <3>2, <4>2, <4>3
        <3> QED
            BY <3>3
    <2>2. IsFiniteSet(Held(room)) /\ Cardinality(Held(room)) \in Nat
        BY <1>2, HeldFinite
    <2>3. Cardinality(Held(jx)) <= Cardinality(Held(room)) + 1 /\ Cardinality(Held(jx)) \in Nat
        <3>1. /\ Cardinality(Held(room) \cup {<<s0, Len(m) + 1>>}) <= Cardinality(Held(room)) + 1
              /\ Cardinality(Held(room) \cup {<<s0, Len(m) + 1>>}) \in Nat
            BY <2>2, OneMore
        <3> QED
            BY <2>1, <3>1
    <2>4. Cardinality(Held(room)) <= room.count
        BY <1>1 DEF IsIndex
    <2> QED
        BY <1>2, <1>5, <2>2, <2>3, <2>4
<1>11. IsIndex(jx)
    BY <1>7, <1>9, <1>10 DEF IsIndex
<1> QED
    BY <1>11 DEF jx

(* One event of a response has its own id, from the index or not.          *)
LEMMA OneEvent ==
    ASSUME NEW made, IsIndex(made.index), NEW e \in EventRow
    PROVE  /\ IsIndex(ToEventDto(made, e).index)
           /\ ToEventDto(made, e).events =
                Append(made.events, [id |-> Derived(e.calendar, e.key), row |-> e])
<1> DEFINE ix == made.index
           hit == Cached(ix, e.calendar, e.key)
<1>1. e.calendar \in Slugs /\ e.key \in Int
    BY DEF EventRow, Slugs
<1>2. ASSUME NEW h \in hit PROVE h.id = Derived(e.calendar, e.key)
    <2>1. PICK i \in DOMAIN ix.keys[e.calendar] : h = ix.keys[e.calendar][i]
        BY DEF Cached, ToSet
    <2>2. h.key = e.key
        BY DEF Cached
    <2> QED
        BY <1>1, <2>1, <2>2 DEF IsIndex
<1>3. IsIndex(WithKey(ix, e.calendar, e.key, Derived(e.calendar, e.key)))
    BY <1>1, Adds
<1>4. CASE hit # {}
    <2>1. (CHOOSE h \in hit : TRUE) \in hit
        BY <1>4
    <2>2. (CHOOSE h \in hit : TRUE).id = Derived(e.calendar, e.key)
        BY <1>2, <2>1
    <2> QED
        BY <1>4, <2>2 DEF ToEventDto, IndexOf
<1>5. CASE hit = {}
    BY <1>3, <1>5 DEF ToEventDto, IndexOf
<1> QED
    BY <1>4, <1>5

(***************************************************************************)
(* A response: the value of its recursion is had from a smallest place     *)
(* without one                                                             *)
(***************************************************************************)
MadeTo(ix, rows, g, n) ==
    IF n = 0 THEN [index |-> ix, events |-> <<>>] ELSE ToEventDto(g[n - 1], rows[n])
Makes(ix, rows, g, N) == g = [n \in 0 .. N |-> MadeTo(ix, rows, g, n)]

LEMMA ResponseDefined ==
    ASSUME NEW ix, NEW rows, Len(rows) \in Nat
    PROVE  \E g : Makes(ix, rows, g, Len(rows)) /\ Response(ix, rows) = g[Len(rows)]
<1>1. ASSUME NEW n \in Nat, n # 0, NEW g, Makes(ix, rows, g, n - 1)
      PROVE  \E h : Makes(ix, rows, h, n)
    <2> DEFINE h == [i \in 0 .. n |-> IF i = n THEN MadeTo(ix, rows, g, n) ELSE g[i]]
    <2>1. \A i \in 0 .. n - 1 : g[i] = MadeTo(ix, rows, g, i)
        BY <1>1 DEF Makes
    <2>2. \A i \in 0 .. n : MadeTo(ix, rows, h, i) = MadeTo(ix, rows, g, i)
        BY <1>1 DEF MadeTo
    <2>3. ASSUME NEW i \in 0 .. n PROVE h[i] = MadeTo(ix, rows, h, i)
        <3>1. CASE i = n
            BY <2>2, <3>1
        <3>2. CASE i # n
            <4>1. i \in 0 .. n - 1
                BY <1>1, <3>2
            <4> QED
                BY <2>1, <2>2, <3>2, <4>1
        <3> QED
            BY <3>1, <3>2
    <2>4. h = [i \in 0 .. n |-> h[i]]
        OBVIOUS
    <2> HIDE DEF h
    <2>5. [i \in 0 .. n |-> h[i]] = [i \in 0 .. n |-> MadeTo(ix, rows, h, i)]
        BY <2>3
    <2> QED
        BY <2>4, <2>5 DEF Makes
<1>2. \E g : Makes(ix, rows, g, Len(rows))
    <2> DEFINE Bad == {n \in 0 .. Len(rows) : ~\E g : Makes(ix, rows, g, n)}
    <2>1. SUFFICES ASSUME Bad # {} PROVE FALSE
        BY Len(rows) \in 0 .. Len(rows)
    <2>2. PICK n \in Bad : \A m \in Bad : n <= m
        <3>1. Bad \in SUBSET Nat
            OBVIOUS
        <3> HIDE DEF Bad
        <3> QED
            BY <2>1, <3>1, LeastOfNaturals
    <2>3. n # 0
        <3>1. Makes(ix, rows, [i \in 0 .. 0 |-> [index |-> ix, events |-> <<>>]], 0)
            BY DEF Makes, MadeTo
        <3> QED
            BY <3>1
    <2>4. \E g : Makes(ix, rows, g, n - 1)
        BY <2>2, <2>3
    <2> QED
        BY <1>1, <2>3, <2>4
<1> DEFINE f == CHOOSE g : g = [n \in 0 .. Len(rows) |->
                    IF n = 0 THEN [index |-> ix, events |-> <<>>]
                    ELSE ToEventDto(g[n - 1], rows[n])]
<1>3. Response(ix, rows) = f[Len(rows)]
    BY DEF Response
<1>4. f = CHOOSE g : Makes(ix, rows, g, Len(rows))
    BY DEF Makes, MadeTo
<1> HIDE DEF f
<1>5. Makes(ix, rows, f, Len(rows))
    BY <1>2, <1>4
<1> QED
    BY <1>3, <1>5

(* Every row is delivered once, in its place, with its id.                 *)
Dto(e) == [id |-> Derived(e.calendar, e.key), row |-> e]
LEMMA ResponseIs ==
    ASSUME NEW ix, IsIndex(ix), NEW rows \in Seq(EventRow)
    PROVE  /\ IsIndex(Response(ix, rows).index)
           /\ Response(ix, rows).events = [i \in 1 .. Len(rows) |-> Dto(rows[i])]
<1> DEFINE Done(m, n) == IsIndex(m.index) /\ m.events = [i \in 1 .. n |-> Dto(rows[i])]
<1>1. Len(rows) \in Nat /\ \A i \in 1 .. Len(rows) : rows[i] \in EventRow
    OBVIOUS
<1>2. PICK g : Makes(ix, rows, g, Len(rows)) /\ Response(ix, rows) = g[Len(rows)]
    BY <1>1, ResponseDefined
<1>3. \A n \in 0 .. Len(rows) : g[n] = MadeTo(ix, rows, g, n)
    BY <1>2 DEF Makes
<1>4. ASSUME NEW n \in 1 .. Len(rows), Done(g[n - 1], n - 1)
      PROVE  Done(g[n], n)
    <2>1. g[n] = ToEventDto(g[n - 1], rows[n])
        BY <1>1, <1>3 DEF MadeTo
    <2>2. /\ IsIndex(g[n].index)
          /\ g[n].events = Append(g[n - 1].events, Dto(rows[n]))
        BY <1>1, <1>4, <2>1, OneEvent DEF Dto
    <2>3. Append([i \in 1 .. n - 1 |-> Dto(rows[i])], Dto(rows[n])) = [i \in 1 .. n |-> Dto(rows[i])]
        OBVIOUS
    <2> QED
        BY <1>4, <2>2, <2>3
<1>5. Done(g[0], 0)
    <2>1. g[0] = [index |-> ix, events |-> <<>>]
        BY <1>1, <1>3 DEF MadeTo
    <2> QED
        BY <2>1
<1> HIDE DEF Done
<1>6. Done(g[Len(rows)], Len(rows))
    <2> DEFINE Bad == {n \in 0 .. Len(rows) : ~Done(g[n], n)}
    <2>1. SUFFICES ASSUME Bad # {} PROVE FALSE
        BY <1>1, Len(rows) \in 0 .. Len(rows)
    <2>2. PICK n \in Bad : \A m \in Bad : n <= m
        <3>1. Bad \in SUBSET Nat
            OBVIOUS
        <3> HIDE DEF Bad
        <3> QED
            BY <2>1, <3>1, LeastOfNaturals
    <2>3. n # 0
        BY <1>5, <2>2
    <2>4. n - 1 \in 0 .. Len(rows) /\ n \in 1 .. Len(rows)
        BY <2>2, <2>3, <1>1
    <2>5. Done(g[n - 1], n - 1)
        BY <2>2, <2>4
    <2> QED
        BY <1>4, <2>2, <2>4, <2>5
<1> QED
    BY <1>2, <1>6 DEF Done

(***************************************************************************)
(* Sorting                                                                 *)
(***************************************************************************)
(* In a strict order of a finite set, every place is one element's.        *)
Rank(S, R, e) == Cardinality({f \in S : <<f, e>> \in R})
StrictOrder(S, R) ==
    /\ \A e \in S : <<e, e>> \notin R
    /\ \A e, f, h \in S : <<e, f>> \in R /\ <<f, h>> \in R => <<e, h>> \in R
    /\ \A e, f \in S : e # f => <<e, f>> \in R \/ <<f, e>> \in R
LEMMA Ranks ==
    ASSUME NEW S, IsFiniteSet(S), NEW R, StrictOrder(S, R)
    PROVE  /\ Cardinality(S) \in Nat
           /\ \A e \in S : Rank(S, R, e) \in 0 .. Cardinality(S) - 1
           /\ \A e, f \in S : <<f, e>> \in R => Rank(S, R, f) < Rank(S, R, e)
           /\ \A n \in 0 .. Cardinality(S) - 1 : \E e \in S : Rank(S, R, e) = n
<1> DEFINE N == Cardinality(S)
           Lower(e) == {f \in S : <<f, e>> \in R}
<1>1. N \in Nat
    BY FS_CardinalityType
<1>2. ASSUME NEW e \in S
      PROVE  IsFiniteSet(Lower(e)) /\ Cardinality(Lower(e)) \in 0 .. N - 1
    <2>1. Lower(e) \in SUBSET S /\ Lower(e) # S
        BY DEF StrictOrder
    <2>2. IsFiniteSet(Lower(e)) /\ Cardinality(Lower(e)) <= N /\ Cardinality(Lower(e)) # N
        BY <2>1, FS_Subset
    <2>3. Cardinality(Lower(e)) \in Nat
        BY <2>2, FS_CardinalityType
    <2> QED
        BY <1>1, <2>2, <2>3
<1>3. ASSUME NEW e \in S, NEW f \in S, <<f, e>> \in R
      PROVE  Cardinality(Lower(f)) < Cardinality(Lower(e))
    <2>1. Lower(f) \in SUBSET Lower(e) /\ f \in Lower(e) /\ f \notin Lower(f)
        BY <1>3 DEF StrictOrder
    <2>2. Cardinality(Lower(f)) <= Cardinality(Lower(e)) /\ Cardinality(Lower(f)) # Cardinality(Lower(e))
        BY <1>2, <2>1, FS_Subset
    <2>3. Cardinality(Lower(f)) \in 0 .. N - 1 /\ Cardinality(Lower(e)) \in 0 .. N - 1
        BY <1>2
    <2> HIDE DEF Lower
    <2> QED
        BY <2>2, <2>3
<1> DEFINE r == [e \in S |-> Cardinality(Lower(e))]
<1>4. r \in Injection(S, 0 .. N - 1)
    <2>1. r \in [S -> 0 .. N - 1]
        BY <1>2
    <2>2. ASSUME NEW e \in S, NEW f \in S, e # f PROVE r[e] # r[f]
        <3>1. r[e] < r[f] \/ r[f] < r[e]
            BY <1>3, <2>2 DEF StrictOrder
        <3>2. r[e] \in Int /\ r[f] \in Int
            BY <2>1
        <3> QED
            BY <3>1, <3>2
    <2> QED
        BY <2>1, <2>2 DEF Injection, IsInjective
<1>5. IsFiniteSet(0 .. N - 1) /\ Cardinality(0 .. N - 1) = N
    <2> DEFINE b == N - 1
    <2>1. b \in Int /\ b - 0 + 1 = N /\ (0 > b => N = 0)
        BY <1>1
    <2> HIDE DEF b
    <2>2. IsFiniteSet(0 .. b) /\ Cardinality(0 .. b) = IF 0 > b THEN 0 ELSE b - 0 + 1
        BY <2>1, FS_Interval
    <2> QED
        BY <2>1, <2>2 DEF b
<1> HIDE DEF r
<1>6. r \in Surjection(S, 0 .. N - 1)
    BY <1>4, <1>5, FS_Injection
<1>7. ASSUME NEW n \in 0 .. N - 1 PROVE \E e \in S : Cardinality(Lower(e)) = n
    BY <1>6 DEF Surjection, r
<1> QED
    BY <1>1, <1>2, <1>3, <1>7 DEF Rank

LEMMA Places ==
    ASSUME NEW S, NEW n \in Nat, NEW q \in [1 .. n -> S]
    PROVE  q \in Seq(S) /\ Len(q) = n
OBVIOUS

(* A sequence whose element at every place has the rank of that place      *)
(* holds each element once, in order.                                      *)
LEMMA Sorted ==
    ASSUME NEW S, IsFiniteSet(S), NEW R, StrictOrder(S, R), NEW q,
           q = [n \in 1 .. Cardinality(S) |-> q[n]],
           \A n \in 1 .. Cardinality(S) : (\E e \in S : Rank(S, R, e) = n - 1) =>
                q[n] \in S /\ Rank(S, R, q[n]) = n - 1
    PROVE  /\ q \in Seq(S) /\ Len(q) = Cardinality(S)
           /\ \A e \in S : \E i \in 1 .. Len(q) : q[i] = e
           /\ \A i, j \in 1 .. Len(q) : i < j => <<q[i], q[j]>> \in R
<1> DEFINE N == Cardinality(S)
<1>1. /\ N \in Nat
      /\ \A e \in S : Rank(S, R, e) \in 0 .. N - 1
      /\ \A e, f \in S : <<f, e>> \in R => Rank(S, R, f) < Rank(S, R, e)
      /\ \A n \in 0 .. N - 1 : \E e \in S : Rank(S, R, e) = n
    BY Ranks
<1> HIDE DEF N
<1>2. ASSUME NEW n \in 1 .. N PROVE q[n] \in S /\ Rank(S, R, q[n]) = n - 1
    <2>1. n - 1 \in 0 .. N - 1
        BY <1>1
    <2>2. \E e \in S : Rank(S, R, e) = n - 1
        BY <1>1, <2>1
    <2> QED
        BY <2>2 DEF N
<1>3. q \in Seq(S) /\ Len(q) = N
    <2>1. q \in [1 .. N -> S]
        BY <1>2 DEF N
    <2> QED
        BY <1>1, <2>1, Places
<1>4. ASSUME NEW e \in S, NEW f \in S, Rank(S, R, e) <= Rank(S, R, f), e # f
      PROVE  <<e, f>> \in R
    <2>1. Rank(S, R, e) \in Int /\ Rank(S, R, f) \in Int
        BY <1>1
    <2>2. ~(<<f, e>> \in R)
        BY <1>1, <1>4, <2>1
    <2> QED
        BY <1>4, <2>2 DEF StrictOrder
<1>5. ASSUME NEW e \in S PROVE \E i \in 1 .. N : q[i] = e
    <2> DEFINE i == Rank(S, R, e) + 1
    <2>1. i \in 1 .. N /\ i - 1 = Rank(S, R, e) /\ Rank(S, R, e) \in Int
        BY <1>1
    <2>2. q[i] \in S /\ Rank(S, R, q[i]) = Rank(S, R, e)
        BY <1>2, <2>1
    <2> HIDE DEF i
    <2>3. q[i] = e
        <3>1. SUFFICES ASSUME q[i] # e PROVE FALSE
            OBVIOUS
        <3>2. <<e, q[i]>> \in R
            BY <1>4, <2>1, <2>2, <3>1
        <3>3. Rank(S, R, e) < Rank(S, R, q[i])
            BY <1>1, <2>2, <3>2
        <3> QED
            BY <2>1, <2>2, <3>3
    <2> QED
        BY <2>1, <2>3
<1>6. ASSUME NEW i \in 1 .. N, NEW j \in 1 .. N, i < j PROVE <<q[i], q[j]>> \in R
    <2>1. /\ q[i] \in S /\ q[j] \in S /\ Rank(S, R, q[i]) = i - 1 /\ Rank(S, R, q[j]) = j - 1
        BY <1>2
    <2>2. Rank(S, R, q[i]) <= Rank(S, R, q[j]) /\ q[i] # q[j]
        BY <1>6, <2>1
    <2> QED
        BY <1>4, <2>1, <2>2
<1> QED
    BY <1>3, <1>5, <1>6 DEF N

LEMMA SlugsInOrder ==
    ASSUME NEW S \in SUBSET Calendars
    PROVE  BySlug(S) \in Seq(S)
<1> DEFINE q == BySlug(S)
           R == {p \in S \X S : p[1] < p[2]}
<1>1. S \subseteq Int /\ IsFiniteSet(S)
    BY ReadingAssumption, FS_Subset
<1>2. \A e, f \in S : <<f, e>> \in R <=> f < e
    OBVIOUS
<1>3. StrictOrder(S, R)
    <2> HIDE DEF R
    <2> QED
        BY <1>1, <1>2 DEF StrictOrder
<1>4. ASSUME NEW e \in S PROVE Rank(S, R, e) = Cardinality({f \in S : f < e})
    <2>1. {f \in S : <<f, e>> \in R} = {f \in S : f < e}
        BY <1>2
    <2> QED
        BY <2>1 DEF Rank
<1> HIDE DEF R
<1> DEFINE F(n) == CHOOSE e \in S : Cardinality({f \in S : f < e}) = n - 1
<1>5. q = [n \in 1 .. Cardinality(S) |-> F(n)]
    BY DEF BySlug, InOrder
<1>6. ASSUME NEW n \in 1 .. Cardinality(S), \E e \in S : Rank(S, R, e) = n - 1
      PROVE  F(n) \in S /\ Rank(S, R, F(n)) = n - 1
    <2>1. \E e \in S : Cardinality({f \in S : f < e}) = n - 1
        BY <1>4, <1>6
    <2>2. F(n) \in S /\ Cardinality({f \in S : f < F(n)}) = n - 1
        BY <2>1
    <2> QED
        BY <1>4, <2>2
<1> HIDE DEF q, F
<1>7. q = [n \in 1 .. Cardinality(S) |-> q[n]]
    BY <1>5
<1>8. q \in Seq(S)
    BY <1>1, <1>3, <1>5, <1>6, <1>7, Sorted
<1> QED
    BY <1>8 DEF q

(* Asking for the maps of a response adds slugs to the order only.         *)
LEMMA Opens ==
    ASSUME NEW ix, IsIndex(ix), NEW S \in SUBSET Slugs
    PROVE  IsIndex(EventKeysFor(ix, S))
<1> DEFINE new == S \ ToSet(ix.order)
           q == BySlug(new \ {Unknown})
           tail == IF Unknown \in new THEN <<Unknown>> ELSE <<>>
           jx == EventKeysFor(ix, S)
<1>1. /\ ix \in [order : Seq(Slugs), keys : [Slugs -> Seq(HeldKey)], count : Int]
      /\ ix.order \in Seq(Slugs)
    BY DEF IsIndex
<1>2. q \in Seq(Slugs)
    <2>1. new \ {Unknown} \in SUBSET Calendars
        BY DEF Slugs
    <2>2. q \in Seq(new \ {Unknown})
        BY <2>1, SlugsInOrder
    <2> HIDE DEF q
    <2>3. new \ {Unknown} \in SUBSET Slugs
        OBVIOUS
    <2> QED
        BY <2>2, <2>3
<1>3. tail \in Seq(Slugs)
    BY SlugsFinite
<1>4. jx = [ix EXCEPT !.order = @ \o q \o tail]
    BY DEF EventKeysFor
<1> HIDE DEF q, tail, jx
<1>5. ix.order \o q \o tail \in Seq(Slugs)
    BY <1>1, <1>2, <1>3
<1>6. /\ jx \in [order : Seq(Slugs), keys : [Slugs -> Seq(HeldKey)], count : Int]
      /\ jx.keys = ix.keys /\ jx.count = ix.count
    BY <1>1, <1>4, <1>5
<1>7. IsIndex(jx)
    BY <1>6 DEF IsIndex, Held
<1> QED
    BY <1>7 DEF jx

(* The maps dropped were counted, and go.                                  *)
LEMMA Closes ==
    ASSUME NEW ix, IsIndex(ix)
    PROVE  IsIndex(AfterResponse(ix))
<1> DEFINE jx == AfterResponse(ix)
           keys == [s \in Slugs |-> IF s \in ToSet(ix.order) THEN ix.keys[s] ELSE <<>>]
<1>1. /\ ix \in [order : Seq(Slugs), keys : [Slugs -> Seq(HeldKey)], count : Int]
      /\ ix.keys \in [Slugs -> Seq(HeldKey)] /\ ix.count \in Int
    BY DEF IsIndex
<1>2. keys \in [Slugs -> Seq(HeldKey)]
    BY <1>1
<1>3. jx = [ix EXCEPT !.keys = keys]
    BY DEF AfterResponse
<1>4. \A s \in Slugs : keys[s] = ix.keys[s] \/ keys[s] = <<>>
    OBVIOUS
<1> HIDE DEF jx, keys
<1>5. /\ jx \in [order : Seq(Slugs), keys : [Slugs -> Seq(HeldKey)], count : Int]
      /\ jx.keys = keys /\ jx.count = ix.count
    BY <1>1, <1>2, <1>3
<1>6. ASSUME NEW s \in Slugs, NEW i \in DOMAIN jx.keys[s]
      PROVE  i \in DOMAIN ix.keys[s] /\ jx.keys[s] = ix.keys[s]
    BY <1>4, <1>5
<1>7. Held(jx) \in SUBSET Held(ix)
    <2>1. ASSUME NEW p \in Held(jx) PROVE p \in Held(ix)
        <3>1. PICK s \in Slugs : \E i \in DOMAIN jx.keys[s] : p = <<s, i>>
            BY HeldOnly
        <3> QED
            BY <1>6, <3>1, HeldOnly
    <2> QED
        BY <2>1
<1>8. Cardinality(Held(jx)) <= jx.count
    <2>1. IsFiniteSet(Held(ix)) /\ Cardinality(Held(ix)) \in Nat
        BY <1>1, HeldFinite
    <2>2. Cardinality(Held(jx)) <= Cardinality(Held(ix)) /\ IsFiniteSet(Held(jx))
        BY <1>7, <2>1, FS_Subset
    <2>3. Cardinality(Held(jx)) \in Nat
        BY <2>2, FS_CardinalityType
    <2>4. Cardinality(Held(ix)) <= ix.count
        BY DEF IsIndex
    <2> QED
        BY <1>1, <1>5, <2>1, <2>2, <2>3, <2>4
<1>9. \A s \in Slugs : \A i \in DOMAIN jx.keys[s] : jx.keys[s][i].id = Derived(s, jx.keys[s][i].key)
    BY <1>6 DEF IsIndex
<1>10. IsIndex(jx)
    BY <1>5, <1>8, <1>9 DEF IsIndex
<1> QED
    BY <1>10 DEF jx

(***************************************************************************)
(* The rows of an answer                                                   *)
(***************************************************************************)
RowOf(c, k) == [calendar |-> c, key |-> k.key, start |-> k.start, end |-> k.end]
LEMMA RowsAre ==
    ASSUME NEW cs, NEW e
    PROVE  e \in EventRows(cs) <=> \E c \in cs : \E k \in events[c] : e = RowOf(c, k)
BY DEF EventRows, RowOf

LEMMA RowsFinite ==
    ASSUME events \in [Calendars -> Contents], NEW cs \in SUBSET Calendars
    PROVE  IsFiniteSet(EventRows(cs)) /\ EventRows(cs) \in SUBSET EventRow
<1> DEFINE f == [c \in cs |-> {RowOf(c, k) : k \in events[c]}]
<1>1. ASSUME NEW c \in cs
      PROVE  IsFiniteSet(events[c]) /\ events[c] \subseteq [key : Int, start : Int, end : Int]
    <2>1. events[c] \in Contents
        OBVIOUS
    <2> QED
        BY <2>1, ReadingAssumption
<1>2. ASSUME NEW c \in cs PROVE IsFiniteSet({RowOf(c, k) : k \in events[c]})
    <2> DEFINE g == [k \in events[c] |-> RowOf(c, k)]
    <2>1. IsFiniteSet({g[k] : k \in events[c]})
        <3> HIDE DEF g
        <3> QED
            BY <1>1, ImageFinite
    <2>2. {g[k] : k \in events[c]} = {RowOf(c, k) : k \in events[c]}
        OBVIOUS
    <2> QED
        BY <2>1, <2>2
<1>3. EventRows(cs) = UNION {f[c] : c \in cs}
    <2>1. \A c \in cs : f[c] = {RowOf(c, k) : k \in events[c]}
        OBVIOUS
    <2> HIDE DEF f
    <2>2. ASSUME NEW e PROVE e \in EventRows(cs) <=> e \in UNION {f[c] : c \in cs}
        BY <2>1, RowsAre
    <2> QED
        BY <2>2
<1>4. \A c \in cs : IsFiniteSet(f[c])
    BY <1>2
<1> HIDE DEF f
<1>5. IsFiniteSet(cs)
    BY ReadingAssumption, FS_Subset
<1>6. IsFiniteSet({f[c] : c \in cs})
    BY <1>5, ImageFinite
<1>7. IsFiniteSet(UNION {f[c] : c \in cs})
    BY <1>4, <1>6, FS_UNION
<1>8. ASSUME NEW e \in EventRows(cs) PROVE e \in EventRow
    <2>1. PICK c \in cs : \E k \in events[c] : e = RowOf(c, k)
        BY RowsAre
    <2>2. PICK k \in events[c] : e = RowOf(c, k)
        BY <2>1
    <2>3. k \in [key : Int, start : Int, end : Int]
        BY <1>1
    <2> QED
        BY <2>2, <2>3 DEF RowOf, EventRow
<1> QED
    BY <1>3, <1>7, <1>8

(* Occurrence keys are unique in a calendar, so rows are ordered strictly. *)
LEMMA RowsOrdered ==
    ASSUME events \in [Calendars -> Contents], NEW cs \in SUBSET Calendars,
           NEW S \in SUBSET EventRows(cs)
    PROVE  StrictOrder(S, {p \in S \X S : Precedes(p[1], p[2])})
<1> DEFINE R == {p \in S \X S : Precedes(p[1], p[2])}
<1>1. \A e \in S : e \in EventRow
    BY RowsFinite
<1>2. \A e \in S : /\ e.calendar \in Int /\ e.start \in Int /\ e.key \in Int
    BY <1>1, ReadingAssumption DEF EventRow
<1>3. \A e, f \in S : <<e, f>> \in R <=> Precedes(e, f)
    OBVIOUS
<1>4. ASSUME NEW e \in S, NEW f \in S, e.calendar = f.calendar, e.key = f.key
      PROVE  e = f
    <2>1. PICK c \in cs : \E k \in events[c] : e = RowOf(c, k)
        BY RowsAre
    <2>2. PICK k \in events[c] : e = RowOf(c, k)
        BY <2>1
    <2>3. PICK d \in cs : \E l \in events[d] : f = RowOf(d, l)
        BY RowsAre
    <2>4. PICK l \in events[d] : f = RowOf(d, l)
        BY <2>3
    <2>5. c = d /\ k.key = l.key
        BY <1>4, <2>2, <2>4 DEF RowOf
    <2>6. events[c] \in Contents
        OBVIOUS
    <2>7. k = l
        BY <2>2, <2>4, <2>5, <2>6, ReadingAssumption
    <2> QED
        BY <2>2, <2>4, <2>5, <2>7
<1> HIDE DEF R
<1>5. \A e \in S : ~Precedes(e, e)
    BY <1>2 DEF Precedes
<1>6. \A e, f, h \in S : Precedes(e, f) /\ Precedes(f, h) => Precedes(e, h)
    BY <1>2 DEF Precedes
<1>7. ASSUME NEW e \in S, NEW f \in S, e # f PROVE Precedes(e, f) \/ Precedes(f, e)
    <2>1. e.calendar # f.calendar \/ e.key # f.key
        BY <1>4, <1>7
    <2> QED
        BY <1>2, <2>1 DEF Precedes
<1>8. StrictOrder(S, R)
    BY <1>3, <1>5, <1>6, <1>7 DEF StrictOrder
<1> QED
    BY <1>8 DEF R

LEMMA RowsInOrder ==
    ASSUME events \in [Calendars -> Contents], NEW cs \in SUBSET Calendars,
           NEW S \in SUBSET EventRows(cs)
    PROVE  /\ ByStart(S) \in Seq(S) /\ ByStart(S) \in Seq(EventRow)
           /\ \A e \in S : \E i \in 1 .. Len(ByStart(S)) : ByStart(S)[i] = e
           /\ \A i, j \in 1 .. Len(ByStart(S)) :
                 i < j => ByStart(S)[i].start <= ByStart(S)[j].start
<1> DEFINE q == ByStart(S)
           R == {p \in S \X S : Precedes(p[1], p[2])}
           F(n) == CHOOSE e \in S : Cardinality({f \in S : Precedes(f, e)}) = n - 1
<1>1. IsFiniteSet(S) /\ \A e \in S : e \in EventRow
    BY RowsFinite, FS_Subset
<1>2. \A e, f \in S : <<f, e>> \in R <=> Precedes(f, e)
    OBVIOUS
<1>3. StrictOrder(S, R)
    BY RowsOrdered
<1> HIDE DEF R
<1>4. ASSUME NEW e \in S PROVE Rank(S, R, e) = Cardinality({f \in S : Precedes(f, e)})
    <2>1. {f \in S : <<f, e>> \in R} = {f \in S : Precedes(f, e)}
        BY <1>2
    <2> QED
        BY <2>1 DEF Rank
<1>5. q = [n \in 1 .. Cardinality(S) |-> F(n)]
    BY DEF ByStart, InOrder
<1>6. ASSUME NEW n \in 1 .. Cardinality(S), \E e \in S : Rank(S, R, e) = n - 1
      PROVE  F(n) \in S /\ Rank(S, R, F(n)) = n - 1
    <2>1. \E e \in S : Cardinality({f \in S : Precedes(f, e)}) = n - 1
        BY <1>4, <1>6
    <2>2. F(n) \in S /\ Cardinality({f \in S : Precedes(f, F(n))}) = n - 1
        BY <2>1
    <2> QED
        BY <1>4, <2>2
<1> HIDE DEF q, F
<1>7. q = [n \in 1 .. Cardinality(S) |-> q[n]]
    BY <1>5
<1>8. /\ q \in Seq(S) /\ Len(q) = Cardinality(S)
      /\ \A e \in S : \E i \in 1 .. Len(q) : q[i] = e
      /\ \A i, j \in 1 .. Len(q) : i < j => <<q[i], q[j]>> \in R
    <2>1. \A n \in 1 .. Cardinality(S) : (\E e \in S : Rank(S, R, e) = n - 1) =>
                q[n] \in S /\ Rank(S, R, q[n]) = n - 1
        BY <1>5, <1>6
    <2>2. IsFiniteSet(S)
        BY <1>1
    <2> QED
        BY <1>3, <1>7, <2>1, <2>2, Sorted, Zenon
<1>9. ASSUME NEW i \in 1 .. Len(q), NEW j \in 1 .. Len(q), i < j
      PROVE  q[i].start <= q[j].start
    <2>1. q[i] \in S /\ q[j] \in S /\ Precedes(q[i], q[j])
        <3>1. q[i] \in S /\ q[j] \in S
            BY <1>8
        <3>2. <<q[i], q[j]>> \in R
            BY <1>8, <1>9
        <3> QED
            BY <1>2, <3>1, <3>2
    <2>2. q[i].start \in Int /\ q[j].start \in Int
        BY <1>1, <2>1 DEF EventRow
    <2> QED
        BY <2>1, <2>2 DEF Precedes
<1>10. q \in Seq(EventRow)
    <2>1. S \in SUBSET EventRow
        BY <1>1
    <2> QED
        BY <1>8, <2>1
<1> QED
    BY <1>8, <1>9, <1>10 DEF q

LEMMA FirstIs ==
    ASSUME NEW T, NEW q \in Seq(T), NEW n \in Nat
    PROVE  /\ First(q, n) \in Seq(T)
           /\ Len(First(q, n)) = IF Len(q) < n THEN Len(q) ELSE n
           /\ \A i \in 1 .. Len(First(q, n)) : First(q, n)[i] = q[i]
<1> DEFINE m == IF Len(q) < n THEN Len(q) ELSE n
<1>1. Len(q) \in Nat /\ m \in Nat /\ m <= Len(q) /\ q \in [1 .. Len(q) -> T]
    OBVIOUS
<1>2. First(q, n) = SubSeq(q, 1, m)
    BY DEF First
<1> HIDE DEF m
<1>3. SubSeq(q, 1, m) = [i \in 1 .. m |-> q[i]]
    BY <1>1
<1>4. [i \in 1 .. m |-> q[i]] \in [1 .. m -> T]
    BY <1>1
<1>5. [i \in 1 .. m |-> q[i]] \in Seq(T) /\ Len([i \in 1 .. m |-> q[i]]) = m
    BY <1>1, <1>4, Places
<1> QED
    BY <1>2, <1>3, <1>5 DEF m

(* What is delivered of the rows asked for: all, or as many as may be of   *)
(* those that start first.                                                 *)
LEMMA Served ==
    ASSUME events \in [Calendars -> Contents], NEW cs \in SUBSET Calendars,
           NEW S \in SUBSET EventRows(cs), NEW found, found = Taken(S),
           NEW kept, kept = First(found, MaxServed)
    PROVE  /\ kept \in Seq(EventRow)
           /\ \A i \in 1 .. Len(kept) : kept[i] \in S
           /\ Len(found) \in Nat
           /\ Len(found) > MaxServed =>
                /\ Len(kept) = MaxServed
                /\ \A e \in S : \A i \in 1 .. Len(kept) :
                      (\A j \in 1 .. Len(kept) : kept[j] # e) => kept[i].start <= e.start
           /\ Len(found) <= MaxServed => \A e \in S : \E i \in 1 .. Len(kept) : kept[i] = e
<1> DEFINE q == ByStart(S)
<1>1. /\ q \in Seq(S) /\ q \in Seq(EventRow)
      /\ \A e \in S : \E i \in 1 .. Len(q) : q[i] = e
      /\ \A i, j \in 1 .. Len(q) : i < j => q[i].start <= q[j].start
    BY RowsInOrder
<1>2. found = First(q, MaxServed + 1)
    BY DEF Taken, Take
<1>3. MaxServed \in Nat \ {0}
    BY ReadingAssumption
<1> HIDE DEF q
<1>4. Len(q) \in Nat /\ \A i \in 1 .. Len(q) : q[i] \in S
    BY <1>1
<1>5. /\ found \in Seq(EventRow)
      /\ Len(found) = IF Len(q) < MaxServed + 1 THEN Len(q) ELSE MaxServed + 1
      /\ \A i \in 1 .. Len(found) : found[i] = q[i]
    BY <1>1, <1>2, <1>3, FirstIs
<1>6. /\ kept \in Seq(EventRow)
      /\ Len(kept) = IF Len(found) < MaxServed THEN Len(found) ELSE MaxServed
      /\ \A i \in 1 .. Len(kept) : kept[i] = found[i]
    BY <1>3, <1>5, FirstIs
<1>7. /\ Len(kept) \in Nat /\ Len(kept) <= Len(q) /\ Len(kept) <= Len(found)
      /\ Len(found) \in Nat
    BY <1>3, <1>4, <1>5, <1>6
<1>8. \A i \in 1 .. Len(kept) : kept[i] = q[i] /\ i \in 1 .. Len(q)
    BY <1>4, <1>5, <1>6, <1>7
<1>9. ASSUME Len(found) > MaxServed
      PROVE  Len(kept) = MaxServed
    BY <1>3, <1>6, <1>7, <1>9
<1>10. ASSUME NEW e \in S, NEW i \in 1 .. Len(kept), \A j \in 1 .. Len(kept) : kept[j] # e
       PROVE  kept[i].start <= e.start
    <2>1. PICK j \in 1 .. Len(q) : q[j] = e
        BY <1>1
    <2>2. ~(j <= Len(kept))
        BY <1>7, <1>8, <1>10, <2>1
    <2>3. i < j /\ i \in 1 .. Len(q)
        BY <1>4, <1>7, <2>2
    <2> QED
        BY <1>1, <1>8, <2>1, <2>3
<1>11. ASSUME Len(found) <= MaxServed, NEW e \in S
       PROVE  \E i \in 1 .. Len(kept) : kept[i] = e
    <2>1. Len(kept) = Len(q)
        BY <1>3, <1>4, <1>5, <1>6, <1>11
    <2> QED
        BY <1>1, <1>8, <2>1
<1> QED
    BY <1>4, <1>6, <1>7, <1>8, <1>9, <1>10, <1>11

(***************************************************************************)
(* The invariant                                                           *)
(***************************************************************************)
Row == [active : BOOLEAN, status : Statuses, stamp : Nat \cup {Null}]
ReadRow == [calendar : Calendars, status : Statuses, stamp : Nat]
Request == [kind : {"single", "selection"}, slugs : SUBSET Calendars, from : Int, to : Int,
            rows : {Null} \cup SUBSET ReadRow]

ReadingTypes ==
    /\ now \in Nat
    /\ row \in [Calendars -> Row]
    /\ events \in [Calendars -> Contents]
    /\ asOf \in [Calendars -> [Contents -> Nat \cup {Null}]]
    /\ IsIndex(index)

(* What a calendar holds was found by an import at t or later.             *)
Since(c, t) == asOf[c][events[c]] # Null /\ t <= asOf[c][events[c]]

(* The stamp in a row, and the stamp a request has read, promise no more   *)
(* than what holds of the events stored now: an import that has written    *)
(* other events since has found them since.                                *)
StampRight(c) == row[c].stamp # Null => row[c].stamp <= now /\ Since(c, row[c].stamp)
StampsRight == \A c \in Calendars : StampRight(c)
RequestRight ==
    request # Null =>
        /\ request \in Request
        /\ request.rows # Null =>
              \A r \in request.rows : r.stamp <= now /\ Since(r.calendar, r.stamp)

ServingInv == ReadingTypes /\ StampsRight /\ RequestRight
AnswerRight == FreshMeansRecent /\ CutIsDeclared /\ EventIdsRight
ReadingInv == ServingInv /\ AnswerRight

LEMMA NullIs == Null \notin Nat /\ Null # TRUE /\ Null # FALSE
<1>1. Null \notin Int /\ Null \notin BOOLEAN
    BY ReadingAssumption
<1>2. Null \notin Nat
    BY <1>1
<1>3. Null # TRUE /\ Null # FALSE
    BY <1>1, Zenon
<1> QED
    BY <1>2, <1>3

LEMMA ReadingStarts == ReadingInit => ReadingInv
<1> SUFFICES ASSUME ReadingInit PROVE ReadingInv
    OBVIOUS
<1> USE DEF ReadingInit
<1>1. {} \in Contents
    BY ReadingAssumption
<1>2. IsIndex(index)
    <2>1. index \in [order : Seq(Slugs), keys : [Slugs -> Seq(HeldKey)], count : Int]
        <3>1. [s \in Slugs |-> <<>>] \in [Slugs -> Seq(HeldKey)]
            OBVIOUS
        <3> QED
            BY <3>1 DEF EmptyIndex
    <2>2. \A s \in Slugs : index.keys[s] = <<>>
        BY DEF EmptyIndex
    <2>3. Held(index) = {} /\ index.count = 0
        BY <2>2 DEF Held, EmptyIndex
    <2> QED
        BY <2>1, <2>2, <2>3, FS_EmptySet DEF IsIndex
<1>3. ReadingTypes
    BY <1>1, <1>2 DEF ReadingTypes, Row, Statuses
<1>4. StampsRight /\ RequestRight
    BY DEF StampsRight, StampRight, RequestRight
<1>5. AnswerRight
    BY DEF AnswerRight, FreshMeansRecent, CutIsDeclared, EventIdsRight, EventsAnswered
<1> QED
    BY <1>3, <1>4, <1>5 DEF ReadingInv, ServingInv

(* An answer without events or a list says nothing that could be wrong.    *)
LEMMA NothingSaid ==
    ASSUME answer' = Null \/ answer'.kind \notin {"calendars", "events"}
    PROVE  AnswerRight'
BY DEF AnswerRight, FreshMeansRecent, CutIsDeclared, EventIdsRight, EventsAnswered

(* What has been found stays found.                                        *)
StillFound == \A c \in Calendars, t \in Nat : t <= now /\ Since(c, t) => Since(c, t)'

LEMMA Finds ==
    ASSUME ReadingTypes, NEW c \in Calendars, NEW E \in Contents, Found(c, E),
           events' = [events EXCEPT ![c] = E]
    PROVE  /\ events' \in [Calendars -> Contents]
           /\ asOf' \in [Calendars -> [Contents -> Nat \cup {Null}]]
           /\ StillFound /\ asOf'[c][events'[c]] = now
<1>1. /\ events \in [Calendars -> Contents] /\ now \in Nat
      /\ asOf \in [Calendars -> [Contents -> Nat \cup {Null}]]
    BY DEF ReadingTypes
<1>2. asOf' = [asOf EXCEPT ![c] = [asOf[c] EXCEPT ![E] = now]]
    BY DEF Found
<1>3. asOf[c] \in [Contents -> Nat \cup {Null}]
    BY <1>1
<1>4. asOf'[c] = [asOf[c] EXCEPT ![E] = now] /\ events'[c] = E
    BY <1>1, <1>2
<1>5. \A d \in Calendars : d # c => asOf'[d] = asOf[d] /\ events'[d] = events[d]
    BY <1>1, <1>2
<1>6. asOf'[c][events'[c]] = now
    BY <1>3, <1>4
<1>7. asOf' \in [Calendars -> [Contents -> Nat \cup {Null}]]
    <2>1. [asOf[c] EXCEPT ![E] = now] \in [Contents -> Nat \cup {Null}]
        BY <1>1, <1>3
    <2> QED
        BY <1>1, <1>2, <2>1
<1>8. ASSUME NEW d \in Calendars, NEW t \in Nat, t <= now, Since(d, t) PROVE Since(d, t)'
    <2>1. CASE d = c
        BY <1>1, <1>6, <1>8, <2>1, NullIs DEF Since
    <2>2. CASE d # c
        BY <1>5, <1>8, <2>2 DEF Since
    <2> QED
        BY <2>1, <2>2
<1> QED
    BY <1>1, <1>6, <1>7, <1>8 DEF StillFound

LEMMA Unfound ==
    ASSUME UNCHANGED <<events, asOf>>
    PROVE  StillFound
BY DEF StillFound, Since

LEMMA RequestKept ==
    ASSUME ServingInv, StillFound, request' = request, now' \in Nat, now <= now'
    PROVE  RequestRight'
<1> SUFFICES ASSUME request # Null
             PROVE  /\ request \in Request
                    /\ request.rows # Null =>
                          \A r \in request.rows : r.stamp <= now' /\ Since(r.calendar, r.stamp)'
    BY DEF RequestRight
<1>1. request \in Request
    BY DEF ServingInv, RequestRight
<1>2. ASSUME request.rows # Null, NEW r \in request.rows
      PROVE  r.stamp <= now' /\ Since(r.calendar, r.stamp)'
    <2>1. r \in ReadRow
        BY <1>1, <1>2 DEF Request
    <2>2. r.calendar \in Calendars /\ r.stamp \in Nat
        BY <2>1 DEF ReadRow
    <2>3. r.stamp <= now /\ Since(r.calendar, r.stamp) /\ now \in Nat
        BY <1>2 DEF ServingInv, RequestRight, ReadingTypes
    <2>4. r.stamp <= now'
        BY <2>2, <2>3
    <2>5. Since(r.calendar, r.stamp)'
        BY <2>2, <2>3 DEF StillFound
    <2> QED
        BY <2>4, <2>5
<1> QED
    BY <1>1, <1>2

LEMMA StampsKept ==
    ASSUME ServingInv, StillFound, now' \in Nat, now <= now',
           NEW c \in Calendars, row'[c].stamp = row[c].stamp
    PROVE  StampRight(c)'
<1> SUFFICES ASSUME row[c].stamp # Null PROVE StampRight(c)'
    BY DEF StampRight
<1>1. row[c].stamp \in Nat /\ row[c].stamp <= now /\ Since(c, row[c].stamp) /\ now \in Nat
    <2>1. row[c] \in Row
        BY DEF ServingInv, ReadingTypes
    <2>2. row[c].stamp \in Nat
        BY <2>1 DEF Row
    <2> QED
        BY <2>2 DEF ServingInv, StampsRight, StampRight, ReadingTypes
<1>2. row'[c].stamp <= now'
    BY <1>1
<1>3. Since(c, row[c].stamp)'
    BY <1>1 DEF StillFound
<1> QED
    BY <1>2, <1>3 DEF Since, StampRight

(***************************************************************************)
(* The imports                                                             *)
(***************************************************************************)
LEMMA ImportKeeps ==
    ASSUME ReadingInv, NEW c \in Calendars,
           \/ Reconcile(c) \/ Confirm(c) \/ Unreachable(c)
           \/ ClearEvents(c) \/ MarkGone(c) \/ RetireOrReadmit(c)
    PROVE  ReadingInv'
<1>1. ServingInv /\ ReadingTypes /\ now \in Nat /\ row \in [Calendars -> Row]
    BY DEF ReadingInv, ServingInv, ReadingTypes
<1>2. now' = now /\ request' = request /\ index' = index /\ answer' = Null
    BY DEF Reconcile, Confirm, Unreachable, ClearEvents, MarkGone, RetireOrReadmit, Writes
<1>3. AnswerRight'
    BY <1>2, NothingSaid
<1>4. SUFFICES ASSUME NEW r \in Row, row' = [row EXCEPT ![c] = r],
                      events' \in [Calendars -> Contents],
                      asOf' \in [Calendars -> [Contents -> Nat \cup {Null}]],
                      StillFound,
                      r.stamp = row[c].stamp \/ (r.stamp = now /\ Since(c, now)')
               PROVE  ServingInv'
    <2>1. row[c] \in Row /\ row = [row EXCEPT ![c] = row[c]]
        BY <1>1
    <2>2. CASE Reconcile(c)
        <3>1. PICK E \in Contents : events' = [events EXCEPT ![c] = E] /\ Found(c, E)
            BY <2>2 DEF Reconcile
        <3> QED
            BY <1>1, <1>3, <1>4, <2>1, <2>2, <3>1, Finds DEF Reconcile, ReadingInv
    <2>3. CASE Confirm(c)
        <3>1. events \in [Calendars -> Contents] /\ events[c] \in Contents
            BY <1>1 DEF ReadingTypes
        <3>2. events' = [events EXCEPT ![c] = events[c]] /\ Found(c, events[c])
            BY <2>3, <3>1 DEF Confirm
        <3>3. /\ events' \in [Calendars -> Contents]
              /\ asOf' \in [Calendars -> [Contents -> Nat \cup {Null}]]
              /\ StillFound /\ asOf'[c][events'[c]] = now
            BY <1>1, <3>1, <3>2, Finds
        <3>4. Since(c, now)'
            BY <1>1, <1>2, <3>3, NullIs DEF Since
        <3> DEFINE r == [row[c] EXCEPT !.status = "ready", !.stamp = now]
        <3>5. row' = [row EXCEPT ![c] = r] /\ r \in Row /\ r.stamp = now
            BY <1>1, <2>1, <2>3 DEF Confirm, Row, Statuses
        <3> HIDE DEF r
        <3> QED
            BY <1>3, <1>4, <3>3, <3>4, <3>5 DEF ReadingInv
    <2>4. CASE ClearEvents(c)
        <3>1. {} \in Contents /\ events' = [events EXCEPT ![c] = {}] /\ Found(c, {})
            BY <2>4, ReadingAssumption DEF ClearEvents
        <3> QED
            BY <1>1, <1>3, <1>4, <2>1, <2>4, <3>1, Finds DEF ClearEvents, ReadingInv
    <2>5. CASE Unreachable(c) \/ MarkGone(c) \/ RetireOrReadmit(c)
        <3>1. UNCHANGED <<events, asOf>>
            BY <2>5 DEF Unreachable, MarkGone, RetireOrReadmit
        <3>2. /\ events' \in [Calendars -> Contents] /\ StillFound
              /\ asOf' \in [Calendars -> [Contents -> Nat \cup {Null}]]
            BY <1>1, <3>1, Unfound DEF ReadingTypes
        <3>3. \E r \in Row : row' = [row EXCEPT ![c] = r] /\ r.stamp = row[c].stamp
            <4>1. CASE Unreachable(c)
                <5> DEFINE r == [row[c] EXCEPT !.status =
                                    IF row[c].stamp = Null THEN "pending" ELSE "stale"]
                <5> QED
                    BY <1>1, <2>1, <4>1, r \in Row, r.stamp = row[c].stamp
                    DEF Unreachable, Row, Statuses
            <4>2. CASE MarkGone(c)
                <5> DEFINE r == [row[c] EXCEPT !.status = "revoked"]
                <5> QED
                    BY <1>1, <2>1, <4>2, r \in Row, r.stamp = row[c].stamp
                    DEF MarkGone, Row, Statuses
            <4>3. CASE RetireOrReadmit(c)
                <5> DEFINE r == [row[c] EXCEPT !.active = ~@]
                <5> QED
                    BY <1>1, <2>1, <4>3, r \in Row, r.stamp = row[c].stamp
                    DEF RetireOrReadmit, Row, Statuses
            <4> QED
                BY <2>5, <4>1, <4>2, <4>3
        <3> QED
            BY <1>3, <1>4, <3>2, <3>3 DEF ReadingInv
    <2> QED
        BY <2>2, <2>3, <2>4, <2>5
<1>5. ReadingTypes'
    BY <1>1, <1>2, <1>4 DEF ReadingTypes
<1>6. RequestRight'
    BY <1>1, <1>2, <1>4, RequestKept
<1>7. ASSUME NEW d \in Calendars PROVE StampRight(d)'
    <2>1. CASE row'[d].stamp = row[d].stamp
        BY <1>1, <1>2, <1>4, <2>1, StampsKept
    <2>2. CASE row'[d].stamp # row[d].stamp
        <3>1. d = c /\ row'[d] = r
            BY <1>1, <1>4, <2>2
        <3>2. r.stamp = now /\ Since(c, now)'
            BY <1>1, <1>4, <2>2, <3>1
        <3> QED
            BY <1>1, <1>2, <3>1, <3>2 DEF Since, StampRight
    <2> QED
        BY <2>1, <2>2
<1>8. StampsRight'
    BY <1>7 DEF StampsRight
<1> QED
    BY <1>5, <1>6, <1>8 DEF ServingInv

LEMMA CrashKeeps == ASSUME ReadingInv, Crash PROVE ReadingInv'
<1>1. UNCHANGED <<now, row, events, asOf, request, index>> /\ answer' = Null
    BY DEF Crash, Writes
<1>2. AnswerRight'
    BY <1>1, NothingSaid
<1>3. ServingInv'
    BY <1>1 DEF ReadingInv, ServingInv, ReadingTypes, StampsRight, StampRight, RequestRight, Since
<1> QED
    BY <1>2, <1>3 DEF ReadingInv

LEMMA TickKeeps == ASSUME ReadingInv, Tick PROVE ReadingInv'
<1>1. /\ UNCHANGED <<row, events, asOf, request, index>> /\ answer' = Null
      /\ now \in Nat /\ now' \in Nat /\ now <= now' /\ ServingInv
    BY DEF Tick, tables, ReadingInv, ServingInv, ReadingTypes
<1>2. AnswerRight'
    BY <1>1, NothingSaid
<1>3. StillFound
    BY <1>1, Unfound
<1>4. RequestRight'
    BY <1>1, <1>3, RequestKept
<1>5. StampsRight'
    <2>1. \A c \in Calendars : StampRight(c)'
        BY <1>1, <1>3, StampsKept
    <2> QED
        BY <2>1 DEF StampsRight
<1>6. ReadingTypes'
    BY <1>1 DEF ServingInv, ReadingTypes
<1> QED
    BY <1>2, <1>4, <1>5, <1>6 DEF ReadingInv, ServingInv

(***************************************************************************)
(* The requests                                                            *)
(***************************************************************************)
LEMMA StoreKept ==
    ASSUME ServingInv, UNCHANGED <<now, tables>>, IsIndex(index)'
    PROVE  ReadingTypes' /\ StampsRight' /\ (request' = request => RequestRight')
BY DEF ServingInv, ReadingTypes, StampsRight, StampRight, Since, RequestRight, tables

LEMMA RequestsKeep ==
    ASSUME ServingInv, UNCHANGED <<now, tables>>, IsIndex(index)',
           request' = Null \/ (request' \in Request /\ request'.rows = Null)
    PROVE  ServingInv'
<1>1. ReadingTypes' /\ StampsRight'
    BY StoreKept
<1>2. RequestRight'
    BY DEF RequestRight
<1> QED
    BY <1>1, <1>2 DEF ServingInv

(* An answer without calendars has no events to leave out.                 *)
LEMMA EmptyAnswer ==
    ASSUME NEW f, NEW t,
           answer' = [kind |-> "events", rows |-> {}, from |-> f, to |-> t,
                      events |-> <<>>, truncated |-> FALSE]
    PROVE  AnswerRight'
<1>1. answer'.kind = "events" /\ answer'.rows = {} /\ answer'.events = <<>>
      /\ answer'.truncated = FALSE
    OBVIOUS
<1>2. FreshMeansRecent'
    BY <1>1 DEF FreshMeansRecent
<1>3. EventIdsRight'
    BY <1>1 DEF EventIdsRight
<1>4. CutIsDeclared'
    <2>1. {r.calendar : r \in answer'.rows} = {}
        BY <1>1
    <2>2. EventRows({r.calendar : r \in answer.rows})' = {}
        BY <2>1 DEF EventRows
    <2> QED
        BY <1>1, <2>2 DEF CutIsDeclared
<1> QED
    BY <1>2, <1>3, <1>4 DEF AnswerRight

LEMMA RangeTyped ==
    ASSUME ServingInv, NEW range \in Ranges
    PROVE  FromOf(range) \in Int /\ ToOf(range) \in Int
<1>1. Today \in Int
    BY DEF ServingInv, ReadingTypes, Today
<1>2. /\ range[1] \in Int \cup {Null} /\ range[2] \in Int \cup {Null}
      /\ MaxRange \in Int
    BY ReadingAssumption
<1> QED
    BY <1>1, <1>2 DEF FromOf, ToOf

LEMMA AskSingleKeeps == ASSUME ReadingInv, AskSingle PROVE ReadingInv'
<1>1. ServingInv /\ UNCHANGED <<now, tables, index>> /\ IsIndex(index)'
    BY DEF AskSingle, Asks, ReadingInv, ServingInv, ReadingTypes
<1>2. PICK c \in Calendars \cup {Malformed}, range \in Ranges :
        IF c = Malformed THEN Reject("notFound")
        ELSE IF RangeRefused(range) THEN Reject("refused")
        ELSE Accept([kind |-> "single", slugs |-> {c}, from |-> FromOf(range),
                     to |-> ToOf(range), rows |-> Null])
    BY DEF AskSingle
<1>3. CASE Reject("notFound") \/ Reject("refused")
    <2>1. answer'.kind \notin {"calendars", "events"} /\ request' = Null
        BY <1>3 DEF Reject, Respond
    <2> QED
        BY <1>1, <2>1, NothingSaid, RequestsKeep DEF ReadingInv
<1>4. CASE c # Malformed /\ Accept([kind |-> "single", slugs |-> {c}, from |-> FromOf(range),
                                    to |-> ToOf(range), rows |-> Null])
    <2>1. answer' = Null
        BY <1>4 DEF Accept
    <2>2. request' \in Request /\ request'.rows = Null
        <3>1. FromOf(range) \in Int /\ ToOf(range) \in Int /\ {c} \in SUBSET Calendars
            BY <1>1, <1>4, RangeTyped
        <3> QED
            BY <1>4, <3>1 DEF Accept, Request
    <2> QED
        BY <1>1, <2>1, <2>2, NothingSaid, RequestsKeep DEF ReadingInv
<1> QED
    BY <1>2, <1>3, <1>4

LEMMA AskSelectionKeeps == ASSUME ReadingInv, AskSelection PROVE ReadingInv'
<1>1. ServingInv /\ UNCHANGED <<now, tables, index>> /\ IsIndex(index)'
    BY DEF AskSelection, Asks, ReadingInv, ServingInv, ReadingTypes
<1>2. PICK values \in Selections, range \in Ranges :
        IF Refused(values) \/ RangeRefused(range) THEN Reject("refused")
        ELSE IF values = <<>>
        THEN Respond([kind |-> "events", rows |-> {}, from |-> FromOf(range),
                      to |-> ToOf(range), events |-> <<>>, truncated |-> FALSE])
        ELSE Accept([kind |-> "selection", slugs |-> ToSet(values), from |-> FromOf(range),
                     to |-> ToOf(range), rows |-> Null])
    BY DEF AskSelection
<1>3. CASE Reject("refused")
    <2>1. answer'.kind \notin {"calendars", "events"} /\ request' = Null
        BY <1>3 DEF Reject, Respond
    <2> QED
        BY <1>1, <2>1, NothingSaid, RequestsKeep DEF ReadingInv
<1>4. CASE Respond([kind |-> "events", rows |-> {}, from |-> FromOf(range),
                    to |-> ToOf(range), events |-> <<>>, truncated |-> FALSE])
    <2>1. AnswerRight' /\ request' = Null
        BY <1>4, EmptyAnswer DEF Respond
    <2> QED
        BY <1>1, <2>1, RequestsKeep DEF ReadingInv
<1>5. CASE ~Refused(values) /\ Accept([kind |-> "selection", slugs |-> ToSet(values),
                    from |-> FromOf(range), to |-> ToOf(range), rows |-> Null])
    <2>1. answer' = Null
        BY <1>5 DEF Accept
    <2>2. ToSet(values) \in SUBSET Calendars
        <3>1. values \in Seq(Calendars \cup {Malformed})
            BY ReadingAssumption
        <3>2. \A i \in DOMAIN values : values[i] \in Calendars
            BY <1>5, <3>1 DEF Refused
        <3> QED
            BY <3>2 DEF ToSet
    <2>3. request' \in Request /\ request'.rows = Null
        <3>1. FromOf(range) \in Int /\ ToOf(range) \in Int
            BY <1>1, RangeTyped
        <3> QED
            BY <1>5, <2>2, <3>1 DEF Accept, Request
    <2> QED
        BY <1>1, <2>1, <2>3, NothingSaid, RequestsKeep DEF ReadingInv
<1> QED
    BY <1>2, <1>3, <1>4, <1>5

LEMMA GoogleViewKeeps == ASSUME ReadingInv, GoogleView PROVE ReadingInv'
<1>1. ServingInv /\ UNCHANGED <<now, tables, index>> /\ IsIndex(index)'
    BY DEF GoogleView, Asks, ReadingInv, ServingInv, ReadingTypes
<1>2. answer'.kind \notin {"calendars", "events"} /\ request' = Null
    BY DEF GoogleView, Reject, Respond
<1> QED
    BY <1>1, <1>2, NothingSaid, RequestsKeep DEF ReadingInv

(* Whoever is not called stale has been found recently.                    *)
LEMMA FreshIs ==
    ASSUME ServingInv, NEW c \in Calendars, NEW t \in Nat, Since(c, t),
           NEW shown, ~IsStale(shown, t)
    PROVE  Recent(c, events[c]) /\ events[c] \in Contents
<1>1. now \in Nat /\ events[c] \in Contents /\ asOf[c] \in [Contents -> Nat \cup {Null}]
    BY DEF ServingInv, ReadingTypes
<1>2. asOf[c][events[c]] \in Nat /\ t <= asOf[c][events[c]]
    BY <1>1 DEF Since
<1>3. StaleAfter \in Nat /\ now - t <= StaleAfter
    BY <1>1, ReadingAssumption DEF IsStale
<1>4. now - asOf[c][events[c]] <= StaleAfter
    BY <1>1, <1>2, <1>3
<1> QED
    BY <1>1, <1>4 DEF Recent, Since

LEMMA ListKeeps == ASSUME ReadingInv, List PROVE ReadingInv'
<1>1. /\ ServingInv /\ UNCHANGED <<now, tables, index>> /\ IsIndex(index)'
      /\ UNCHANGED <<events, asOf>>
    BY DEF List, Asks, tables, ReadingInv, ServingInv, ReadingTypes
<1> DEFINE listed == {[calendar |-> c, stale |-> IsStale(row[c].status, row[c].stamp)] :
                        c \in {d \in Calendars : Servable(d)}}
<1>2. answer' = [kind |-> "calendars", listed |-> listed] /\ request' = Null
    BY DEF List, Respond
<1>3. ASSUME NEW l \in listed, ~l.stale
      PROVE  l.calendar \in Calendars /\ Recent(l.calendar, events[l.calendar])
    <2>1. PICK c \in Calendars :
            Servable(c) /\ l = [calendar |-> c, stale |-> IsStale(row[c].status, row[c].stamp)]
        OBVIOUS
    <2>2. row[c].stamp # Null /\ row[c] \in Row /\ StampRight(c)
        BY <1>1, <2>1 DEF Servable, ServingInv, ReadingTypes, StampsRight
    <2>3. row[c].stamp \in Nat /\ Since(c, row[c].stamp)
        BY <2>2 DEF Row, StampRight
    <2>4. ~IsStale(row[c].status, row[c].stamp)
        BY <1>3, <2>1
    <2>5. Recent(c, events[c])
        BY <1>1, <2>3, <2>4, FreshIs
    <2> QED
        BY <2>1, <2>5
<1> HIDE DEF listed
<1>4. FreshMeansRecent'
    <2>1. answer'.kind = "calendars" /\ answer'.listed = listed /\ answer'.kind # "events"
        BY <1>2
    <2>2. \A l \in listed : ~l.stale => Recent(l.calendar, events[l.calendar])'
        BY <1>1, <1>3 DEF Recent
    <2> QED
        BY <2>1, <2>2 DEF FreshMeansRecent, EventsAnswered
<1>5. CutIsDeclared' /\ EventIdsRight'
    BY <1>2 DEF CutIsDeclared, EventIdsRight, EventsAnswered
<1> QED
    BY <1>1, <1>2, <1>4, <1>5, RequestsKeep DEF ReadingInv, AnswerRight

LEMMA ReadCalendarsKeeps == ASSUME ReadingInv, ReadCalendars PROVE ReadingInv'
<1>1. /\ ServingInv /\ UNCHANGED <<now, tables, index>> /\ IsIndex(index)'
      /\ UNCHANGED <<now, row, events, asOf>>
    BY DEF ReadCalendars, tables, ReadingInv, ServingInv, ReadingTypes
<1>2. request \in Request
    BY <1>1 DEF ReadCalendars, ServingInv, RequestRight
<1> DEFINE rows == {[calendar |-> c, status |-> row[c].status, stamp |-> row[c].stamp] :
                      c \in {d \in request.slugs : Servable(d)}}
<1>3. ASSUME NEW r \in rows
      PROVE  r \in ReadRow /\ r.stamp <= now /\ Since(r.calendar, r.stamp)
    <2>1. PICK c \in request.slugs :
            Servable(c) /\ r = [calendar |-> c, status |-> row[c].status, stamp |-> row[c].stamp]
        OBVIOUS
    <2>2. c \in Calendars
        BY <1>2 DEF Request
    <2>3. row[c].stamp # Null /\ row[c] \in Row /\ StampRight(c)
        BY <1>1, <2>1, <2>2 DEF Servable, ServingInv, ReadingTypes, StampsRight
    <2> QED
        BY <2>1, <2>2, <2>3 DEF Row, ReadRow, StampRight
<1> HIDE DEF rows
<1>4. IF rows # {} THEN Accept([request EXCEPT !.rows = rows])
      ELSE IF request.kind = "single" THEN Reject("notFound")
      ELSE Respond([kind |-> "events", rows |-> {}, from |-> request.from,
                    to |-> request.to, events |-> <<>>, truncated |-> FALSE])
    BY DEF ReadCalendars, rows
<1>5. CASE Accept([request EXCEPT !.rows = rows])
    <2>1. answer' = Null /\ request' = [request EXCEPT !.rows = rows]
        BY <1>5 DEF Accept
    <2>2. rows \in SUBSET ReadRow
        BY <1>3
    <2>3. request' \in Request /\ request'.rows = rows
        BY <1>2, <2>1, <2>2 DEF Request
    <2>4. \A r \in rows : r.stamp <= now' /\ Since(r.calendar, r.stamp)'
        BY <1>1, <1>3 DEF Since
    <2>5. RequestRight'
        BY <2>3, <2>4 DEF RequestRight
    <2> QED
        BY <1>1, <2>1, <2>5, NothingSaid, StoreKept DEF ReadingInv, ServingInv
<1>6. CASE Reject("notFound")
    <2>1. answer'.kind \notin {"calendars", "events"} /\ request' = Null
        BY <1>6 DEF Reject, Respond
    <2> QED
        BY <1>1, <2>1, NothingSaid, RequestsKeep DEF ReadingInv
<1>7. CASE Respond([kind |-> "events", rows |-> {}, from |-> request.from,
                    to |-> request.to, events |-> <<>>, truncated |-> FALSE])
    <2>1. AnswerRight' /\ request' = Null
        BY <1>7, EmptyAnswer DEF Respond
    <2> QED
        BY <1>1, <2>1, RequestsKeep DEF ReadingInv
<1> QED
    BY <1>4, <1>5, <1>6, <1>7

(* The second query and the response, from what the first one has read.    *)
LEMMA ReadEventsKeeps == ASSUME ReadingInv, ReadEvents PROVE ReadingInv'
<1>1. /\ ServingInv /\ IsIndex(index) /\ events \in [Calendars -> Contents]
      /\ UNCHANGED <<now, tables>> /\ UNCHANGED <<now, row, events, asOf>>
    BY DEF ReadEvents, tables, ReadingInv, ServingInv, ReadingTypes
<1>2. /\ request \in Request /\ request.rows # Null
      /\ \A r \in request.rows : r.stamp <= now /\ Since(r.calendar, r.stamp)
    BY <1>1 DEF ReadEvents, ServingInv, RequestRight
<1>3. request.rows \in SUBSET ReadRow /\ request.from \in Int /\ request.to \in Int
    BY <1>2 DEF Request
<1> DEFINE cs == {r.calendar : r \in request.rows}
           S == {e \in EventRows(cs) : Overlaps(e, request.from, request.to)}
           found == Taken(S)
           truncated == Len(found) > MaxServed
           kept == First(found, MaxServed)
           slugs == IF request.kind = "selection" THEN cs \cup {Unknown} ELSE cs
           opened == EventKeysFor(index, slugs)
           made == Response(opened, kept)
           shown == IF request.kind = "selection" THEN {[calendar |-> c, stale |-> Null] : c \in cs}
                    ELSE {[calendar |-> r.calendar, stale |-> IsStale(r.status, r.stamp)] :
                            r \in request.rows}
<1>4. /\ index' = AfterResponse(made.index) /\ request' = Null
      /\ answer' = [kind |-> "events", from |-> request.from, to |-> request.to, rows |-> shown,
                    events |-> made.events, truncated |-> truncated]
    BY DEF ReadEvents, Respond
<1>5. cs \in SUBSET Calendars
    BY <1>3 DEF ReadRow
<1> DEFINE unaged(c) == [calendar |-> c, stale |-> Null]
           aged(r) == [calendar |-> r.calendar, stale |-> IsStale(r.status, r.stamp)]
<1>5a. ASSUME request.kind = "selection"
      PROVE  {r.calendar : r \in shown} = cs /\ \A r \in shown : r.stale # FALSE
    <2>1. shown = {unaged(c) : c \in cs}
        BY <1>5a
    <2>2. \A c : unaged(c).calendar = c /\ unaged(c).stale # FALSE
        BY NullIs
    <2> HIDE DEF shown, cs, unaged
    <2> QED
        BY <2>1, <2>2
<1>5b. ASSUME request.kind # "selection"
      PROVE  /\ {r.calendar : r \in shown} = cs
             /\ \A r \in shown : r.stale = FALSE =>
                  \E p \in request.rows : p.calendar = r.calendar /\ ~IsStale(p.status, p.stamp)
    <2>1. shown = {aged(r) : r \in request.rows}
        BY <1>5b
    <2>2. \A r : aged(r).calendar = r.calendar /\ aged(r).stale = IsStale(r.status, r.stamp)
        OBVIOUS
    <2> HIDE DEF shown, aged
    <2> QED
        BY <2>1, <2>2
<1>6. {r.calendar : r \in shown} = cs
    BY <1>5a, <1>5b
<1>7. ASSUME NEW r \in shown, r.stale = FALSE
      PROVE  \E p \in request.rows : p.calendar = r.calendar /\ ~IsStale(p.status, p.stamp)
    BY <1>7, <1>5a, <1>5b
<1> HIDE DEF shown
<1>8. slugs \in SUBSET Slugs
    BY <1>5, SlugsFinite
<1> HIDE DEF slugs
<1>9. S \in SUBSET EventRows(cs)
    OBVIOUS
<1>10. ASSUME NEW e PROVE e \in S <=> e \in EventRows(cs) /\ Overlaps(e, request.from, request.to)
    OBVIOUS
<1> HIDE DEF cs, S
<1>11. /\ kept \in Seq(EventRow)
       /\ \A i \in 1 .. Len(kept) : kept[i] \in S
       /\ Len(found) \in Nat
       /\ Len(found) > MaxServed =>
            /\ Len(kept) = MaxServed
            /\ \A e \in S : \A i \in 1 .. Len(kept) :
                  (\A j \in 1 .. Len(kept) : kept[j] # e) => kept[i].start <= e.start
       /\ Len(found) <= MaxServed => \A e \in S : \E i \in 1 .. Len(kept) : kept[i] = e
    BY <1>1, <1>5, <1>9, Served
<1>12. IsIndex(opened)
    BY <1>1, <1>8, Opens
<1> HIDE DEF found, kept, opened
<1>13. IsIndex(made.index) /\ made.events = [i \in 1 .. Len(kept) |-> Dto(kept[i])]
    BY <1>11, <1>12, ResponseIs
<1> HIDE DEF made
<1>14. IsIndex(index)'
    <2>1. IsIndex(AfterResponse(made.index))
        BY <1>13, Closes
    <2> QED
        BY <1>4, <2>1 DEF IsIndex, Held
<1>15. MaxServed \in Nat /\ Len(kept) \in Nat
    BY <1>11, ReadingAssumption
<1>16. truncated \in BOOLEAN /\ (truncated <=> Len(found) > MaxServed)
                           /\ (~truncated <=> Len(found) <= MaxServed)
    BY <1>11, <1>15
<1> HIDE DEF truncated
<1>17. /\ answer'.kind = "events" /\ answer' # Null => EventsAnswered'
       /\ answer'.kind # "calendars"
       /\ answer'.from = request.from /\ answer'.to = request.to /\ answer'.rows = shown
       /\ answer'.events = [i \in 1 .. Len(kept) |-> Dto(kept[i])]
       /\ answer'.truncated = truncated
    BY <1>4, <1>13 DEF EventsAnswered
<1>18. /\ DOMAIN answer'.events = 1 .. Len(kept) /\ Len(answer'.events) = Len(kept)
       /\ \A i \in 1 .. Len(kept) :
            /\ answer'.events[i].row = kept[i]
            /\ answer'.events[i].id = Derived(kept[i].calendar, kept[i].key)
    BY <1>15, <1>17 DEF Dto
<1>19. \A d : d \in Delivered' <=> \E i \in 1 .. Len(kept) : d = kept[i]
    BY <1>18 DEF Delivered
<1>20. EventIdsRight'
    BY <1>18 DEF EventIdsRight
<1>20a. PICK C : C = cs
    OBVIOUS
<1>21. EventRows(C)' = EventRows(cs)
    BY <1>1, <1>20a DEF EventRows
<1>22. CutIsDeclared'
    <2> DEFINE all == {e \in EventRows(cs) : TakesPlace(e, request.from, request.to)}
    <2>1. ASSUME NEW e \in all PROVE e \in S
        <3>1. e \in EventRow /\ e.start \in Int /\ e.end \in Int
            BY <1>1, <1>5, RowsFinite DEF EventRow
        <3>2. PICK d \in request.from .. request.to :
                /\ e.start < 2 * (d + 1)
                /\ IF e.end = e.start THEN e.start >= 2 * d ELSE e.end > 2 * d
            BY DEF TakesPlace
        <3>3. e.start < 2 * (request.to + 1) /\ e.end >= 2 * request.from
            BY <1>3, <3>1, <3>2
        <3> QED
            BY <1>10, <3>3 DEF Overlaps
    <2>4. /\ {e \in EventRows({r.calendar : r \in answer.rows}) :
                  TakesPlace(e, answer.from, answer.to)}' = all
          /\ answer'.truncated = truncated
        <3>1. {r.calendar : r \in answer'.rows} = C
            BY <1>6, <1>17, <1>20a
        <3>2. EventRows({r.calendar : r \in answer.rows})' = EventRows(C)'
            BY <3>1
        <3> QED
            BY <1>17, <1>21, <3>2 DEF TakesPlace
    <2> HIDE DEF all
    <2>2. CASE truncated
        <3>1. ASSUME NEW e \in all, e \notin Delivered', NEW d \in Delivered'
              PROVE  d.start <= e.start
            <4>1. PICK i \in 1 .. Len(kept) : d = kept[i]
                BY <1>19
            <4>2. \A j \in 1 .. Len(kept) : kept[j] # e
                BY <1>19, <3>1
            <4> QED
                BY <1>11, <1>16, <2>1, <2>2, <4>1, <4>2
        <3>2. Len(answer'.events) = MaxServed
            BY <1>11, <1>16, <1>18, <2>2
        <3> QED
            BY <1>16, <2>2, <2>4, <3>1, <3>2 DEF CutIsDeclared
    <2>3. CASE ~truncated
        <3>1. ASSUME NEW e \in all PROVE e \in Delivered'
            BY <1>11, <1>16, <1>19, <2>1, <2>3
        <3> QED
            BY <1>16, <2>3, <2>4, <3>1 DEF CutIsDeclared
    <2> QED
        BY <2>2, <2>3, <1>16
<1>23. FreshMeansRecent'
    <2>1. ASSUME ~truncated, NEW r \in shown, r.stale = FALSE
          PROVE  \E E \in Contents :
                    /\ Recent(r.calendar, E)'
                    /\ \A e \in E : Overlaps(e, request.from, request.to) <=>
                          \E d \in Delivered' : d.key = e.key /\ d.start = e.start /\ d.end = e.end
        <3>1. PICK p \in request.rows : p.calendar = r.calendar /\ ~IsStale(p.status, p.stamp)
            BY <1>7, <2>1
        <3>2. p \in ReadRow /\ p.calendar \in Calendars /\ p.stamp \in Nat /\ p.calendar \in cs
            BY <1>3 DEF ReadRow, cs
        <3>2a. PICK E : E = events[p.calendar]
            OBVIOUS
        <3>3. Recent(p.calendar, E) /\ E \in Contents
            BY <1>1, <1>2, <3>1, <3>2, <3>2a, FreshIs
        <3>4. Recent(p.calendar, E)'
            BY <1>1, <3>3 DEF Recent
        <3>5. ASSUME NEW e \in E
              PROVE  Overlaps(e, request.from, request.to) <=>
                        \E d \in Delivered' : d.key = e.key /\ d.start = e.start /\ d.end = e.end
            <4>1. ASSUME Overlaps(e, request.from, request.to)
                  PROVE  \E d \in Delivered' : d.key = e.key /\ d.start = e.start /\ d.end = e.end
                <5> DEFINE d == RowOf(p.calendar, e)
                <5>1. d.key = e.key /\ d.start = e.start /\ d.end = e.end
                    BY DEF RowOf
                <5>2. d \in EventRows(cs)
                    BY <3>2, <3>2a, RowsAre
                <5>3. d \in S
                    BY <1>10, <4>1, <5>1, <5>2 DEF Overlaps
                <5> HIDE DEF d
                <5>4. d \in Delivered'
                    BY <1>11, <1>16, <1>19, <2>1, <5>3
                <5> QED
                    BY <5>1, <5>4
            <4>2. ASSUME NEW d \in Delivered', d.start = e.start, d.end = e.end
                  PROVE  Overlaps(e, request.from, request.to)
                <5>1. d \in S
                    BY <1>11, <1>19
                <5> QED
                    BY <1>10, <4>2, <5>1 DEF Overlaps
            <4> QED
                BY <4>1, <4>2
        <3>6. Recent(r.calendar, E)'
            BY <3>1, <3>4
        <3> QED
            BY <3>3, <3>5, <3>6
    <2> QED
        BY <1>17, <2>1 DEF FreshMeansRecent
<1> QED
    BY <1>1, <1>4, <1>14, <1>20, <1>22, <1>23, RequestsKeep DEF ReadingInv, AnswerRight

(***************************************************************************)
(* The theorems                                                            *)
(***************************************************************************)
LEMMA ReadingStep == ReadingInv /\ [ReadingNext]_readingVars => ReadingInv'
<1> SUFFICES ASSUME ReadingInv, [ReadingNext]_readingVars PROVE ReadingInv'
    OBVIOUS
<1>1. ASSUME NEW c \in Calendars,
             \/ Reconcile(c) \/ Confirm(c) \/ Unreachable(c)
             \/ ClearEvents(c) \/ MarkGone(c) \/ RetireOrReadmit(c)
      PROVE  ReadingInv'
    BY <1>1, ImportKeeps
<1>2. CASE Crash
    BY <1>2, CrashKeeps
<1>3. CASE AskSingle
    BY <1>3, AskSingleKeeps
<1>4. CASE AskSelection
    BY <1>4, AskSelectionKeeps
<1>5. CASE List
    BY <1>5, ListKeeps
<1>6. CASE GoogleView
    BY <1>6, GoogleViewKeeps
<1>7. CASE ReadCalendars
    BY <1>7, ReadCalendarsKeeps
<1>8. CASE ReadEvents
    BY <1>8, ReadEventsKeeps
<1>9. CASE Tick
    BY <1>9, TickKeeps
<1>10. CASE UNCHANGED readingVars
    <2>1. UNCHANGED <<now, row, events, asOf, request, answer, index>>
        BY <1>10 DEF readingVars, tables, api
    <2>2. ServingInv'
        BY <2>1 DEF ReadingInv, ServingInv, ReadingTypes, StampsRight, StampRight, RequestRight,
                    Since, IsIndex, Held
    <2>3. AnswerRight'
        BY <2>1 DEF ReadingInv, AnswerRight, FreshMeansRecent, CutIsDeclared, EventIdsRight,
                    EventsAnswered, Delivered, Recent, EventRows
    <2> QED
        BY <2>2, <2>3 DEF ReadingInv
<1> QED
    BY <1>1, <1>2, <1>3, <1>4, <1>5, <1>6, <1>7, <1>8, <1>9, <1>10 DEF ReadingNext

LEMMA ReadingAlways == ReadingSpec => []ReadingInv
<1> QED
    BY ReadingStarts, ReadingStep, PTL DEF ReadingSpec

(* What is not called stale was written or confirmed no longer ago than    *)
(* the threshold (isStale, getCalendarEvents).                             *)
THEOREM FreshMeansRecentHolds == ReadingSpec => []FreshMeansRecent
<1>1. ReadingInv => FreshMeansRecent
    BY DEF ReadingInv, AnswerRight
<1> QED
    BY <1>1, ReadingAlways, PTL

(* An answer leaves nothing out, or says so and has what starts first      *)
(* (getAggregatedEvents: take limit + 1, slice).                           *)
THEOREM CutIsDeclaredHolds == ReadingSpec => []CutIsDeclared
<1>1. ReadingInv => CutIsDeclared
    BY DEF ReadingInv, AnswerRight
<1> QED
    BY <1>1, ReadingAlways, PTL

(* The id of an event is that of its calendar and occurrence, whatever the *)
(* index holds, drops or evicts (eventKeyIn, toEventDto).                  *)
THEOREM EventIdsRightHolds == ReadingSpec => []EventIdsRight
<1>1. ReadingInv => EventIdsRight
    BY DEF ReadingInv, AnswerRight
<1> QED
    BY <1>1, ReadingAlways, PTL

(* The index never holds more keys than it counts, whatever a response     *)
(* adds to a map that was dropped meanwhile (evictOldestEventKey).         *)
THEOREM CounterNeverBehindHolds == ReadingSpec => []CounterNeverBehind
<1>1. ReadingInv => CounterNeverBehind
    BY DEF ReadingInv, ServingInv, ReadingTypes, IsIndex, CounterNeverBehind
<1> QED
    BY <1>1, ReadingAlways, PTL
=============================================================================
