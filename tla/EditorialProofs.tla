-------------------------- MODULE EditorialProofs --------------------------
(***************************************************************************)
(* What clients are told of posts, events, tags and channels, and of       *)
(* contact areas, persons and rooms, for any content, any editors,         *)
(* requests, failures and restarts, and whatever the caches hold.  The     *)
(* machine that reads and caches is the same; what is read differs.        *)
(***************************************************************************)
EXTENDS Posts, Contacts, TLAPS, SequenceTheorems, FiniteSetTheorems, WellFoundedInduction

(***************************************************************************)
(* The cache: nothing comes out that was not put in                        *)
(***************************************************************************)
Entries(c) == {c[i] : i \in 1 .. Len(c)}
Entry(e) == DOMAIN e = {"key", "value", "left"} /\ e.left \in Nat
IsCache(c) == c \in Seq(Entries(c)) /\ \A e \in Entries(c) : Entry(e)

LEMMA LeastOfNaturals ==
    ASSUME NEW S \in SUBSET Nat, S # {}
    PROVE  \E n \in S : \A m \in S : n <= m
<1> DEFINE R == OpToRel(<, Nat)
<1>1. \A x, y \in Nat : <<x, y>> \in R <=> x < y
    BY DEF OpToRel
<1>2. IsWellFoundedOn(R, Nat)
    BY NatLessThanWellFounded
<1> HIDE DEF R
<1>3. PICK n \in S : \A m \in S : ~(<<m, n>> \in R)
    BY <1>2, WFMin
<1>4. ASSUME NEW m \in S PROVE n <= m
    <2>1. n \in Nat /\ m \in Nat
        OBVIOUS
    <2>2. ~(m < n)
        BY <1>1, <1>3, <2>1
    <2> QED
        BY <2>1, <2>2
<1> QED
    BY <1>4

(* A sequence of entries of a cache is a cache.                            *)
LEMMA CacheOfEntries ==
    ASSUME NEW c, IsCache(c), NEW s \in Seq(Entries(c))
    PROVE  IsCache(s) /\ Entries(s) \subseteq Entries(c)
<1>1. Len(s) \in Nat /\ \A i \in 1 .. Len(s) : s[i] \in Entries(c)
    OBVIOUS
<1>2. s = [i \in 1 .. Len(s) |-> s[i]]
    OBVIOUS
<1>3. [i \in 1 .. Len(s) |-> s[i]] \in Seq(Entries(s))
    BY <1>1, IsASeq DEF Entries
<1> QED
    BY <1>1, <1>2, <1>3 DEF IsCache, Entries

LEMMA WithoutOnly ==
    ASSUME NEW c, IsCache(c), NEW k
    PROVE  IsCache(Without(c, k)) /\ Entries(Without(c, k)) \subseteq Entries(c)
<1>1. c \in Seq(Entries(c)) /\ Len(c) \in Nat
    BY DEF IsCache
<1>2. CASE ~Holds(c, k)
    BY <1>2 DEF Without
<1>3. CASE Holds(c, k)
    <2> DEFINE n == PlaceOf(c, k)
    <2>1. n \in 1 .. Len(c)
        BY <1>3 DEF Holds, PlaceOf
    <2>2. Without(c, k) = SubSeq(c, 1, n - 1) \o SubSeq(c, n + 1, Len(c))
        BY <1>3 DEF Without
    <2> HIDE DEF n
    <2>3. SubSeq(c, 1, n - 1) \in Seq(Entries(c)) /\ SubSeq(c, n + 1, Len(c)) \in Seq(Entries(c))
        BY <1>1, <2>1
    <2>4. Without(c, k) \in Seq(Entries(c))
        BY <2>2, <2>3
    <2> QED
        BY <2>4, CacheOfEntries
<1> QED
    BY <1>2, <1>3

LEMMA HitOnly ==
    ASSUME NEW c, NEW k, IsHit(c, k), IsCache(c)
    PROVE  \E e \in Entries(c) : /\ e.key = k /\ e.left \in Nat /\ e.left > 0
                                 /\ Hit(c, k) = e.value /\ e = EntryFor(c, k)
<1>1. Holds(c, k) /\ EntryFor(c, k).left > 0
    BY DEF IsHit
<1>2. EntryFor(c, k) \in Entries(c) /\ EntryFor(c, k).key = k
    BY <1>1 DEF Holds, PlaceOf, EntryFor, Entries
<1>3. EntryFor(c, k).left \in Nat
    BY <1>2 DEF IsCache, Entry
<1> QED
    BY <1>1, <1>2, <1>3 DEF Hit

(* Live is defined: its recursion over the places of a cache has a value   *)
(* up to each of them, the first place without one being none.             *)
LiveTo(c, g, n) ==
    IF n = 0 THEN <<>>
    ELSE IF c[n].left > 0 THEN Append(g[n - 1], c[n]) ELSE g[n - 1]
Follows(c, g, m) == g = [n \in 0 .. m |-> LiveTo(c, g, n)]

LEMMA LiveDefined ==
    ASSUME NEW c, Len(c) \in Nat
    PROVE  \E g : Follows(c, g, Len(c)) /\ Live(c) = g[Len(c)]
<1>1. ASSUME NEW n \in Nat, n # 0, NEW g, Follows(c, g, n - 1)
      PROVE  \E h : Follows(c, h, n)
    <2> DEFINE h == [i \in 0 .. n |-> IF i = n THEN LiveTo(c, g, n) ELSE g[i]]
    <2>1. \A i \in 0 .. n - 1 : g[i] = LiveTo(c, g, i)
        BY <1>1 DEF Follows
    <2>2. \A i \in 0 .. n : LiveTo(c, h, i) = LiveTo(c, g, i)
        BY <1>1 DEF LiveTo
    <2>3. ASSUME NEW i \in 0 .. n PROVE h[i] = LiveTo(c, h, i)
        <3>1. CASE i = n
            BY <2>2, <3>1
        <3>2. CASE i # n
            <4>1. i \in 0 .. n - 1
                BY <1>1, <3>2
            <4> QED
                BY <2>1, <2>2, <3>2, <4>1
        <3> QED
            BY <3>1, <3>2
    <2>4. h = [i \in 0 .. n |-> h[i]]
        OBVIOUS
    <2> HIDE DEF h
    <2>5. [i \in 0 .. n |-> h[i]] = [i \in 0 .. n |-> LiveTo(c, h, i)]
        BY <2>3
    <2> QED
        BY <2>4, <2>5 DEF Follows
<1>2. \E g : Follows(c, g, Len(c))
    <2> DEFINE Bad == {n \in 0 .. Len(c) : ~\E g : Follows(c, g, n)}
    <2>1. SUFFICES ASSUME Bad # {} PROVE FALSE
        BY Len(c) \in 0 .. Len(c)
    <2>2. PICK n \in Bad : \A m \in Bad : n <= m
        <3>1. Bad \in SUBSET Nat
            OBVIOUS
        <3> HIDE DEF Bad
        <3> QED
            BY <2>1, <3>1, LeastOfNaturals
    <2>3. n # 0
        <3>1. Follows(c, [i \in 0 .. 0 |-> <<>>], 0)
            BY DEF Follows, LiveTo
        <3> QED
            BY <3>1
    <2>4. \E g : Follows(c, g, n - 1)
        BY <2>2, <2>3
    <2> QED
        BY <1>1, <2>3, <2>4
<1> DEFINE f == CHOOSE g : g = [n \in 0 .. Len(c) |->
                    IF n = 0 THEN <<>>
                    ELSE IF c[n].left > 0 THEN Append(g[n - 1], c[n]) ELSE g[n - 1]]
<1>3. Live(c) = f[Len(c)]
    BY DEF Live
<1>4. f = CHOOSE g : Follows(c, g, Len(c))
    BY DEF Follows, LiveTo
<1> HIDE DEF f
<1>5. Follows(c, f, Len(c))
    BY <1>2, <1>4
<1> QED
    BY <1>3, <1>5

LEMMA LiveOnly ==
    ASSUME NEW c, IsCache(c)
    PROVE  Live(c) \in Seq(Entries(c))
<1>1. c \in Seq(Entries(c)) /\ Len(c) \in Nat /\ \A i \in 1 .. Len(c) : c[i] \in Entries(c)
    BY DEF IsCache, Entries
<1>2. PICK g : Follows(c, g, Len(c)) /\ Live(c) = g[Len(c)]
    BY <1>1, LiveDefined
<1>3. \A n \in 0 .. Len(c) : g[n] = LiveTo(c, g, n)
    BY <1>2 DEF Follows
<1> DEFINE Bad == {n \in 0 .. Len(c) : g[n] \notin Seq(Entries(c))}
<1>4. SUFFICES ASSUME Bad # {} PROVE FALSE
    BY <1>1, <1>2
<1>5. PICK n \in Bad : \A m \in Bad : n <= m
    <2>1. Bad \in SUBSET Nat
        OBVIOUS
    <2> HIDE DEF Bad
    <2> QED
        BY <1>4, <2>1, LeastOfNaturals
<1>6. n # 0
    <2>1. g[0] = <<>>
        BY <1>1, <1>3 DEF LiveTo
    <2>2. <<>> \in Seq(Entries(c))
        OBVIOUS
    <2>3. g[n] \notin Seq(Entries(c))
        OBVIOUS
    <2> QED
        BY <2>1, <2>2, <2>3
<1>7. n - 1 \in 0 .. Len(c) /\ n \in 1 .. Len(c)
    BY <1>1, <1>6
<1>8. g[n - 1] \in Seq(Entries(c))
    BY <1>5, <1>7
<1>9. g[n] = IF c[n].left > 0 THEN Append(g[n - 1], c[n]) ELSE g[n - 1]
    BY <1>3, <1>6 DEF LiveTo
<1>10. g[n] \in Seq(Entries(c))
    BY <1>1, <1>7, <1>8, <1>9
<1> QED
    BY <1>10

LEMMA TouchedOnly ==
    ASSUME NEW c, IsCache(c), NEW k, IsHit(c, k)
    PROVE  IsCache(Touched(c, k)) /\ Entries(Touched(c, k)) \subseteq Entries(c)
<1>1. Without(c, k) \in Seq(Entries(c))
    <2>1. \A S, T, s : s \in Seq(S) /\ S \subseteq T => s \in Seq(T)
        OBVIOUS
    <2> QED
        BY <2>1, WithoutOnly DEF IsCache
<1>2. EntryFor(c, k) \in Entries(c)
    BY HitOnly
<1>3. Touched(c, k) \in Seq(Entries(c))
    BY <1>1, <1>2 DEF Touched
<1> QED
    BY <1>3, CacheOfEntries

LEMMA StoredOnly ==
    ASSUME NEW c, IsCache(c), NEW k, NEW v, NEW ttl \in Nat, NEW capacity \in Nat \ {0}
    PROVE  /\ IsCache(StoredIn(c, k, v, ttl, capacity))
           /\ Entries(StoredIn(c, k, v, ttl, capacity))
                 \subseteq Entries(c) \cup {[key |-> k, value |-> v, left |-> ttl]}
<1> DEFINE l == Live(Without(c, k))
           e == [key |-> k, value |-> v, left |-> ttl]
           E == Entries(c) \cup {e}
           a == Append(l, e)
           n == IF Len(a) > capacity THEN Len(a) - capacity + 1 ELSE 1
           s == SubSeq(a, n, Len(a))
<1>1. l \in Seq(Entries(Without(c, k))) /\ Entries(Without(c, k)) \subseteq Entries(c)
    BY WithoutOnly, LiveOnly
<1>2. Entry(e)
    BY DEF Entry
<1>3. StoredIn(c, k, v, ttl, capacity) = s
    BY DEF StoredIn
<1> HIDE DEF l, e
<1>4. Entries(Without(c, k)) \subseteq E /\ e \in E
    BY <1>1
<1>5. \A x \in E : Entry(x)
    BY <1>2 DEF IsCache
<1> HIDE DEF E
<1>6. l \in Seq(E)
    <2>1. \A S, T, q : q \in Seq(S) /\ S \subseteq T => q \in Seq(T)
        OBVIOUS
    <2> QED
        BY <1>1, <1>4, <2>1
<1>7. a \in Seq(E) /\ Len(a) \in Nat \ {0}
    BY <1>4, <1>6
<1> HIDE DEF a
<1>8. n \in 1 .. Len(a)
    BY <1>7
<1> HIDE DEF n
<1>9. s \in Seq(E) /\ Len(s) \in Nat /\ \A i \in 1 .. Len(s) : s[i] \in E
    BY <1>7, <1>8
<1> HIDE DEF s
<1>10. Entries(s) \subseteq E
    BY <1>9 DEF Entries
<1>11. s \in Seq(Entries(s))
    <2>1. s = [i \in 1 .. Len(s) |-> s[i]]
        BY <1>9
    <2>2. [i \in 1 .. Len(s) |-> s[i]] \in Seq(Entries(s))
        BY <1>9, IsASeq DEF Entries
    <2> QED
        BY <2>1, <2>2
<1>12. IsCache(s)
    BY <1>5, <1>10, <1>11 DEF IsCache
<1> QED
    BY <1>3, <1>10, <1>12 DEF E, e

LEMMA AgedOnly ==
    ASSUME NEW c, IsCache(c)
    PROVE  /\ IsCache(Aged(c))
           /\ \A x \in Entries(Aged(c)) : \E e \in Entries(c) :
                 /\ x.key = e.key /\ x.value = e.value
                 /\ x.left = IF e.left > 0 THEN e.left - 1 ELSE 0
<1> DEFINE Older(e) == [e EXCEPT !.left = IF @ > 0 THEN @ - 1 ELSE 0]
           a == Aged(c)
<1>1. c \in Seq(Entries(c)) /\ Len(c) \in Nat
    BY DEF IsCache
<1>2. ASSUME NEW e, Entry(e)
      PROVE  /\ Entry(Older(e)) /\ Older(e).key = e.key /\ Older(e).value = e.value
             /\ Older(e).left = IF e.left > 0 THEN e.left - 1 ELSE 0
    BY <1>2 DEF Entry
<1>3. a = [i \in 1 .. Len(c) |-> Older(c[i])]
    BY DEF Aged
<1>4. \A i \in 1 .. Len(c) : Entry(c[i])
    BY DEF IsCache, Entries
<1> HIDE DEF Older, a
<1> DEFINE O == {Older(c[i]) : i \in 1 .. Len(c)}
<1>5. a \in Seq(O)
    BY <1>1, <1>3, IsASeq
<1> HIDE DEF O
<1>6. Len(a) \in Nat /\ DOMAIN a = 1 .. Len(a) /\ DOMAIN a = 1 .. Len(c)
    BY <1>3, <1>5
<1>7. Len(a) = Len(c)
    BY <1>1, <1>6
<1>8. ASSUME NEW i \in 1 .. Len(c)
      PROVE  /\ Entry(a[i]) /\ a[i].key = c[i].key /\ a[i].value = c[i].value
             /\ a[i].left = IF c[i].left > 0 THEN c[i].left - 1 ELSE 0
    BY <1>2, <1>3, <1>4
<1>9. a \in Seq(Entries(a))
    <2>1. a = [i \in 1 .. Len(a) |-> a[i]]
        BY <1>5
    <2>2. [i \in 1 .. Len(a) |-> a[i]] \in Seq(Entries(a))
        BY <1>6, IsASeq DEF Entries
    <2> QED
        BY <2>1, <2>2
<1>10. \A x \in Entries(a) : Entry(x)
    BY <1>7, <1>8 DEF Entries
<1> QED
    BY <1>7, <1>8, <1>9, <1>10 DEF a, IsCache, Entries

LEMMA EmptyOnly == IsCache(EmptyCache) /\ Entries(EmptyCache) = {}
<1>1. Entries(<<>>) = {}
    BY DEF Entries
<1> QED
    BY <1>1 DEF IsCache, EmptyCache

(***************************************************************************)
(* What is asked of Strapi and how it is put together                      *)
(***************************************************************************)
LEMMA KeyReads ==
    ASSUME NEW s \in Scenarios, NEW k \in s.keys
    PROVE  /\ k.route \in Routes
           /\ Ttl(k) \in Nat \ {0}
           /\ Unasked(k) => Empty(k) # None
<1>1. k \in UNION {x.keys : x \in Scenarios}
    OBVIOUS
<1> QED
    BY <1>1, ReadAssumption, PartsAssumption DEF Routes

(* Where both requests are sent at once the second does not depend on what *)
(* the first one brings.                                                   *)
LEMMA PartReads ==
    ASSUME NEW s \in Scenarios, NEW k \in s.keys, NEW e \in s.editions, NEW f \in s.editions
    PROVE  /\ First(k, e) # None
           /\ Parallel(k) => /\ More(k, None) = More(k, First(k, e))
                             /\ Second(k, f, None) = Second(k, f, First(k, e))
    BY PartsAssumption

(***************************************************************************)
(* The machine: every answer is put together from two editions that were   *)
(* published at most as long ago as the answer is told                     *)
(***************************************************************************)
AnswerFrom(k, e, f) ==
    LET first == First(k, e)
    IN  Merge(k, first, IF More(k, first) THEN Second(k, f, first) ELSE None)

(* n is how many units of time ago the editions may have been replaced.    *)
Made(E, ages, k, value, n) ==
    \E e, f \in E : ages[e] <= n /\ ages[f] <= n /\ value = AnswerFrom(k, e, f)
Fine(E, ages, k, value, n) ==
    /\ value # None
    /\ \/ Unasked(k) /\ value = Empty(k)
       \/ Made(E, ages, k, value, n)
EntryFine(E, ages, ks, x) ==
    x.left > 0 => /\ x.key \in ks /\ x.left <= Ttl(x.key)
                  /\ Fine(E, ages, x.key, x.value, Ttl(x.key) + FetchTime - x.left)
CachesFine(E, ages, ks, cs) ==
    /\ DOMAIN cs = Routes
    /\ \A r \in Routes : IsCache(cs[r]) /\ \A x \in Entries(cs[r]) : EntryFine(E, ages, ks, x)

FirstFine(E, ages, k, first, n) ==
    first = None \/ \E e \in E : ages[e] <= n /\ first = First(k, e)
SecondFine(E, ages, k, first, second, n) ==
    \/ second = None
    \/ /\ Parallel(k) \/ first # None
       /\ More(k, first)
       /\ \E f \in E : ages[f] <= n /\ second = Second(k, f, first)
BuildFine(E, ages, ks, b) ==
    /\ DOMAIN b = {"key", "age", "first", "second", "tries"}
    /\ b.key \in ks /\ ~Unasked(b.key) /\ b.age \in 0 .. FetchTime
    /\ FirstFine(E, ages, b.key, b.first, b.age)
    /\ SecondFine(E, ages, b.key, b.first, b.second, b.age)
BuildsFine(E, ages, ks, bs) == \A b \in bs : BuildFine(E, ages, ks, b)

AnswerFine(E, ages, ks, a) ==
    a # None => /\ a.key \in ks
                /\ a.kind = "served" =>
                      Fine(E, ages, a.key, a.value, Ttl(a.key) + FetchTime - 1)
                /\ a.kind = "missing" => Made(E, ages, a.key, None, FetchTime)

Typed ==
    /\ scope \in Scenarios /\ cms \in scope.editions
    /\ ago \in [scope.editions -> Nat] /\ ago[cms] = 0
Inv ==
    /\ Typed
    /\ CachesFine(scope.editions, ago, Keys, caches)
    /\ BuildsFine(scope.editions, ago, Keys, builds)
    /\ AnswerFine(scope.editions, ago, Keys, answer)

(* Editions are replaced no earlier than n units of time before.           *)
Drift(E, ages, later, n) == \A e \in E : later[e] <= ages[e] + n

LEMMA MadeDrifts ==
    ASSUME NEW E, NEW ages \in [E -> Nat], NEW later \in [E -> Nat], NEW n \in Nat,
           Drift(E, ages, later, n), NEW k, NEW value, NEW i \in Nat, NEW j \in Nat, i + n <= j,
           Made(E, ages, k, value, i)
    PROVE  Made(E, later, k, value, j)
<1>1. PICK e \in E, f \in E : ages[e] <= i /\ ages[f] <= i /\ value = AnswerFrom(k, e, f)
    BY DEF Made
<1>2. later[e] <= j /\ later[f] <= j
    BY <1>1 DEF Drift
<1> QED
    BY <1>1, <1>2 DEF Made

LEMMA FineDrifts ==
    ASSUME NEW E, NEW ages \in [E -> Nat], NEW later \in [E -> Nat], NEW n \in Nat,
           Drift(E, ages, later, n), NEW k, NEW value, NEW i \in Nat, NEW j \in Nat, i + n <= j,
           Fine(E, ages, k, value, i)
    PROVE  Fine(E, later, k, value, j)
    BY MadeDrifts DEF Fine

LEMMA CachesDrift ==
    ASSUME NEW E, NEW ages \in [E -> Nat], NEW later \in [E -> Nat],
           Drift(E, ages, later, 0), NEW s \in Scenarios, NEW cs,
           CachesFine(E, ages, s.keys, cs)
    PROVE  CachesFine(E, later, s.keys, cs)
<1>1. SUFFICES ASSUME NEW r \in Routes, NEW x \in Entries(cs[r]), x.left > 0
               PROVE  EntryFine(E, later, s.keys, x)
    BY DEF CachesFine, EntryFine
<1>2. x.left \in Nat /\ EntryFine(E, ages, s.keys, x)
    BY DEF CachesFine, IsCache, Entry
<1>3. x.key \in s.keys /\ x.left <= Ttl(x.key)
      /\ Fine(E, ages, x.key, x.value, Ttl(x.key) + FetchTime - x.left)
    BY <1>1, <1>2 DEF EntryFine
<1>4. Ttl(x.key) + FetchTime - x.left \in Nat
    BY <1>2, <1>3, KeyReads, ReadAssumption
<1>5. Fine(E, later, x.key, x.value, Ttl(x.key) + FetchTime - x.left)
    BY <1>3, <1>4, FineDrifts
<1> QED
    BY <1>3, <1>5 DEF EntryFine

LEMMA BuildDrifts ==
    ASSUME NEW E, NEW ages \in [E -> Nat], NEW later \in [E -> Nat], NEW n \in Nat,
           Drift(E, ages, later, n), NEW ks, NEW b, BuildFine(E, ages, ks, b),
           NEW j \in 0 .. FetchTime, b.age + n <= j
    PROVE  /\ FirstFine(E, later, b.key, b.first, j)
           /\ SecondFine(E, later, b.key, b.first, b.second, j)
<1>0. b.age \in Nat /\ j \in Nat
    BY ReadAssumption DEF BuildFine
<1>1. FirstFine(E, later, b.key, b.first, j)
    <2>1. CASE b.first = None
        BY <2>1 DEF FirstFine
    <2>2. CASE b.first # None
        <3>1. PICK e \in E : ages[e] <= b.age /\ b.first = First(b.key, e)
            BY <2>2 DEF FirstFine, BuildFine
        <3>2. later[e] <= j
            BY <1>0, <3>1 DEF Drift
        <3> QED
            BY <3>1, <3>2 DEF FirstFine
    <2> QED
        BY <2>1, <2>2
<1>2. SecondFine(E, later, b.key, b.first, b.second, j)
    <2>1. CASE b.second = None
        BY <2>1 DEF SecondFine
    <2>2. CASE b.second # None
        <3>0. Parallel(b.key) \/ b.first # None
            BY <2>2 DEF SecondFine, BuildFine
        <3>1. PICK f \in E : ages[f] <= b.age /\ b.second = Second(b.key, f, b.first)
            BY <2>2 DEF SecondFine, BuildFine
        <3>2. later[f] <= j
            BY <1>0, <3>1 DEF Drift
        <3>3. More(b.key, b.first)
            BY <2>2 DEF SecondFine, BuildFine
        <3> QED
            BY <3>0, <3>1, <3>2, <3>3 DEF SecondFine
    <2> QED
        BY <2>1, <2>2
<1> QED
    BY <1>1, <1>2

LEMMA BuildsDrift ==
    ASSUME NEW E, NEW ages \in [E -> Nat], NEW later \in [E -> Nat],
           Drift(E, ages, later, 0), NEW ks, NEW bs, BuildsFine(E, ages, ks, bs)
    PROVE  BuildsFine(E, later, ks, bs)
<1>1. SUFFICES ASSUME NEW b \in bs PROVE BuildFine(E, later, ks, b)
    BY DEF BuildsFine
<1>2. BuildFine(E, ages, ks, b)
    BY DEF BuildsFine
<1>3. b.age \in 0 .. FetchTime /\ b.age + 0 <= b.age
    BY <1>2, ReadAssumption DEF BuildFine
<1>4. /\ FirstFine(E, later, b.key, b.first, b.age)
      /\ SecondFine(E, later, b.key, b.first, b.second, b.age)
    BY <1>2, <1>3, BuildDrifts
<1> QED
    BY <1>2, <1>4 DEF BuildFine

LEMMA CachesWith ==
    ASSUME NEW E, NEW ages, NEW s \in Scenarios, NEW cs, CachesFine(E, ages, s.keys, cs),
           NEW k \in s.keys, NEW c, IsCache(c),
           \A x \in Entries(c) : EntryFine(E, ages, s.keys, x)
    PROVE  CachesFine(E, ages, s.keys, [cs EXCEPT ![k.route] = c])
<1>1. \A r \in Routes : [cs EXCEPT ![k.route] = c][r] = IF r = k.route THEN c ELSE cs[r]
    BY DEF CachesFine
<1>2. DOMAIN [cs EXCEPT ![k.route] = c] = Routes
    BY DEF CachesFine
<1> QED
    BY <1>1, <1>2 DEF CachesFine

LEMMA CachesStored ==
    ASSUME NEW E, NEW ages, NEW s \in Scenarios, NEW cs, CachesFine(E, ages, s.keys, cs),
           NEW k \in s.keys, NEW value, Fine(E, ages, k, value, FetchTime)
    PROVE  CachesFine(E, ages, s.keys,
                      [cs EXCEPT ![k.route] = StoredIn(@, k, value, Ttl(k), Capacity)])
<1> DEFINE c == StoredIn(cs[k.route], k, value, Ttl(k), Capacity)
           e == [key |-> k, value |-> value, left |-> Ttl(k)]
<1>1. k.route \in Routes /\ Ttl(k) \in Nat
    BY KeyReads
<1>2. IsCache(cs[k.route])
    BY <1>1 DEF CachesFine
<1>3. IsCache(c) /\ Entries(c) \subseteq Entries(cs[k.route]) \cup {e}
    BY <1>1, <1>2, StoredOnly, ReadAssumption
<1>4. Ttl(k) + FetchTime - Ttl(k) = FetchTime
    BY <1>1, ReadAssumption
<1>5. EntryFine(E, ages, s.keys, e)
    BY <1>1, <1>4 DEF EntryFine
<1>6. \A x \in Entries(c) : EntryFine(E, ages, s.keys, x)
    <2> HIDE DEF c, e
    <2> QED
        BY <1>1, <1>3, <1>5 DEF CachesFine
<1> HIDE DEF c
<1>7. CachesFine(E, ages, s.keys, [cs EXCEPT ![k.route] = c])
    BY <1>3, <1>6, CachesWith
<1> QED
    BY <1>7 DEF c

LEMMA KeptKeeps ==
    ASSUME NEW k \in Keys, Inv, Kept(k)
    PROVE  /\ CachesFine(scope.editions, ago, Keys, caches')
           /\ AnswerFine(scope.editions, ago, Keys, answer')
<1> DEFINE c == caches[k.route]
<1>0. scope \in Scenarios /\ Keys = scope.keys /\ k.route \in Routes /\ Ttl(k) \in Nat \ {0}
    BY KeyReads DEF Inv, Typed, Keys
<1>1. IsCache(c) /\ \A x \in Entries(c) : EntryFine(scope.editions, ago, Keys, x)
    BY <1>0 DEF Inv, CachesFine
<1>2. IsHit(c, k)
    BY DEF Kept
<1>3. PICK x \in Entries(c) : x.key = k /\ x.left \in Nat /\ x.left > 0 /\ Hit(c, k) = x.value
    BY <1>1, <1>2, HitOnly
<1>4. x.left <= Ttl(k) /\ Fine(scope.editions, ago, k, x.value, Ttl(k) + FetchTime - x.left)
    BY <1>1, <1>3 DEF EntryFine
<1>5. Ttl(k) + FetchTime - x.left \in Nat /\ Ttl(k) + FetchTime - 1 \in Nat
      /\ Ttl(k) + FetchTime - x.left + 0 <= Ttl(k) + FetchTime - 1
    BY <1>0, <1>3, <1>4, ReadAssumption
<1>6. Fine(scope.editions, ago, k, x.value, Ttl(k) + FetchTime - 1)
    <2>1. ago \in [scope.editions -> Nat]
        BY DEF Inv, Typed
    <2>2. Drift(scope.editions, ago, ago, 0)
        BY <2>1 DEF Drift
    <2> QED
        BY <1>4, <1>5, <2>1, <2>2, FineDrifts
<1>7. caches' = [caches EXCEPT ![k.route] = Touched(c, k)]
      /\ answer' = [key |-> k, kind |-> "served", value |-> x.value]
    BY <1>3, <1>6 DEF Kept, Served, Fine
<1>8. IsCache(Touched(c, k)) /\ Entries(Touched(c, k)) \subseteq Entries(c)
    BY <1>1, <1>2, TouchedOnly
<1> HIDE DEF c
<1>9. CachesFine(scope.editions, ago, Keys, [caches EXCEPT ![k.route] = Touched(c, k)])
    BY <1>0, <1>1, <1>8, CachesWith DEF Inv
<1>10. AnswerFine(scope.editions, ago, Keys, [key |-> k, kind |-> "served", value |-> x.value])
    BY <1>6 DEF AnswerFine
<1> QED
    BY <1>7, <1>9, <1>10

LEMMA DeselectedKeeps ==
    ASSUME NEW k \in Keys, Inv, Deselected(k)
    PROVE  /\ CachesFine(scope.editions, ago, Keys, caches')
           /\ AnswerFine(scope.editions, ago, Keys, answer')
<1>0. /\ scope \in Scenarios /\ Keys = scope.keys
      /\ Unasked(k) /\ Empty(k) # None
    BY KeyReads DEF Inv, Typed, Keys, Deselected
<1>3. \A n : Fine(scope.editions, ago, k, Empty(k), n)
    BY <1>0 DEF Fine
<1>4. /\ caches' = [caches EXCEPT ![k.route] = StoredIn(@, k, Empty(k), Ttl(k), Capacity)]
      /\ answer' = [key |-> k, kind |-> "served", value |-> Empty(k)]
    BY <1>0 DEF Deselected, Keep, Served
<1>5. AnswerFine(scope.editions, ago, Keys, [key |-> k, kind |-> "served", value |-> Empty(k)])
    BY <1>3 DEF AnswerFine
<1> QED
    BY <1>0, <1>3, <1>4, <1>5, CachesStored DEF Inv

LEMMA BeginKeeps ==
    ASSUME NEW k \in Keys, Inv, Begin(k)
    PROVE  /\ CachesFine(scope.editions, ago, Keys, caches')
           /\ BuildsFine(scope.editions, ago, Keys, builds')
<1>0. /\ scope \in Scenarios /\ Keys = scope.keys /\ k.route \in Routes
      /\ ~Unasked(k)
    BY KeyReads DEF Inv, Typed, Keys, Begin
<1>1. BuildFine(scope.editions, ago, Keys, NewBuild(k))
    BY <1>0, ReadAssumption DEF BuildFine, NewBuild, FirstFine, SecondFine
<1>2. BuildsFine(scope.editions, ago, Keys, builds')
    <2>1. builds' = builds \cup {NewBuild(k)}
        BY DEF Begin
    <2> QED
        BY <1>1, <2>1 DEF Inv, BuildsFine
<1> DEFINE c == caches[k.route]
<1>3. IsCache(c) /\ \A x \in Entries(c) : EntryFine(scope.editions, ago, Keys, x)
    BY <1>0 DEF Inv, CachesFine
<1>4. caches' = [caches EXCEPT ![k.route] = Without(c, k)]
    BY DEF Begin, Missed
<1>5. IsCache(Without(c, k)) /\ Entries(Without(c, k)) \subseteq Entries(c)
    BY <1>3, WithoutOnly
<1> HIDE DEF c
<1>6. CachesFine(scope.editions, ago, Keys, [caches EXCEPT ![k.route] = Without(c, k)])
    BY <1>0, <1>3, <1>5, CachesWith DEF Inv
<1> QED
    BY <1>2, <1>4, <1>6

(* A build whose parts are all there makes an answer of theirs.            *)
LEMMA CompleteMade ==
    ASSUME Inv, NEW b, BuildFine(scope.editions, ago, Keys, b), Complete(b)
    PROVE  Made(scope.editions, ago, b.key, Merge(b.key, b.first, b.second), FetchTime)
<1> DEFINE E == scope.editions
           k == b.key
<1>0. /\ scope \in Scenarios /\ Keys = scope.keys /\ k \in scope.keys
      /\ ago \in [E -> Nat] /\ b.age \in 0 .. FetchTime /\ FetchTime \in Nat
    BY ReadAssumption DEF Inv, Typed, Keys, BuildFine
<1>1. b.first # None
    BY DEF Complete, Awaits
<1>2. PICK e \in E : ago[e] <= b.age /\ b.first = First(k, e)
    BY <1>1 DEF BuildFine, FirstFine
<1>4. ago[e] <= FetchTime
    BY <1>0, <1>2
<1>5. CASE b.second = None
    <2>1. ~More(k, b.first)
        BY <1>1, <1>5 DEF Complete, Awaits
    <2>3. Merge(k, b.first, b.second) = AnswerFrom(k, e, e)
        BY <1>2, <1>5, <2>1 DEF AnswerFrom
    <2> QED
        BY <1>4, <2>3 DEF Made
<1>6. CASE b.second # None
    <2>1. PICK f \in E : ago[f] <= b.age /\ b.second = Second(k, f, b.first)
        BY <1>6 DEF BuildFine, SecondFine
    <2>2. More(k, b.first)
        BY <1>6 DEF BuildFine, SecondFine
    <2>4. Merge(k, b.first, b.second) = AnswerFrom(k, e, f)
        BY <1>2, <2>1, <2>2 DEF AnswerFrom
    <2>5. ago[f] <= FetchTime
        BY <1>0, <2>1
    <2> QED
        BY <1>4, <2>4, <2>5 DEF Made
<1> QED
    BY <1>5, <1>6

LEMMA ProgressKeeps ==
    ASSUME Inv, NEW b \in builds, NEW new, BuildFine(scope.editions, ago, Keys, new),
           Progress(b, new)
    PROVE  /\ CachesFine(scope.editions, ago, Keys, caches')
           /\ BuildsFine(scope.editions, ago, Keys, builds')
           /\ AnswerFine(scope.editions, ago, Keys, answer')
<1> DEFINE E == scope.editions
           k == new.key
<1>0. /\ scope \in Scenarios /\ Keys = scope.keys /\ k \in scope.keys /\ FetchTime \in Nat
      /\ Ttl(k) \in Nat \ {0} /\ ago \in [E -> Nat] /\ CachesFine(E, ago, Keys, caches)
    BY KeyReads, ReadAssumption DEF Inv, Typed, Keys, BuildFine
<1>1. CASE Complete(new)
    <2>0. PICK value : value = Merge(k, new.first, new.second)
        OBVIOUS
    <2>1. Made(E, ago, k, value, FetchTime)
        BY <1>1, <2>0, CompleteMade
    <2>2. builds' = builds \ {b} /\ Settled(k, value) /\ Served(k, value)
        BY <1>1, <2>0 DEF Progress, Finish
    <2>3. BuildsFine(E, ago, Keys, builds')
        BY <2>2 DEF Inv, BuildsFine
    <2>4. CASE value = None
        <3>1. caches' = caches /\ answer' = [key |-> k, kind |-> "missing", value |-> None]
            BY <2>2, <2>4 DEF Settled, Served, Refused
        <3>2. AnswerFine(E, ago, Keys, [key |-> k, kind |-> "missing", value |-> None])
            BY <1>0, <2>1, <2>4 DEF AnswerFine
        <3> QED
            BY <1>0, <2>3, <3>1, <3>2
    <2>5. CASE value # None
        <3>1. /\ caches' = [caches EXCEPT ![k.route] = StoredIn(@, k, value, Ttl(k), Capacity)]
              /\ answer' = [key |-> k, kind |-> "served", value |-> value]
            BY <2>2, <2>5 DEF Settled, Served, Keep
        <3>2. Fine(E, ago, k, value, FetchTime)
            BY <2>1, <2>5 DEF Fine
        <3>3. CachesFine(E, ago, Keys, caches')
            BY <1>0, <3>1, <3>2, CachesStored
        <3>4. Fine(E, ago, k, value, Ttl(k) + FetchTime - 1)
            <4>1. Drift(E, ago, ago, 0)
                BY <1>0 DEF Drift
            <4>2. Ttl(k) + FetchTime - 1 \in Nat /\ FetchTime + 0 <= Ttl(k) + FetchTime - 1
                BY <1>0
            <4> QED
                BY <1>0, <3>2, <4>1, <4>2, FineDrifts
        <3>5. AnswerFine(E, ago, Keys, [key |-> k, kind |-> "served", value |-> value])
            BY <1>0, <3>4 DEF AnswerFine
        <3> QED
            BY <2>3, <3>1, <3>3, <3>5
    <2> QED
        BY <2>4, <2>5
<1>2. CASE ~Complete(new)
    <2>1. builds' = (builds \ {b}) \cup {new} /\ answer' = None /\ caches' = caches
        BY <1>2 DEF Progress, Revised
    <2>2. BuildsFine(E, ago, Keys, builds')
        BY <2>1 DEF Inv, BuildsFine
    <2>3. AnswerFine(E, ago, Keys, None)
        BY DEF AnswerFine
    <2> QED
        BY <1>0, <2>1, <2>2, <2>3
<1> QED
    BY <1>1, <1>2

LEMMA AnsweredKeeps ==
    ASSUME Inv, NEW b \in builds, NEW n \in 1 .. 2, Answered(b, n)
    PROVE  /\ CachesFine(scope.editions, ago, Keys, caches')
           /\ BuildsFine(scope.editions, ago, Keys, builds')
           /\ AnswerFine(scope.editions, ago, Keys, answer')
<1> DEFINE E == scope.editions
           k == b.key
<1>0. BuildFine(E, ago, Keys, b) /\ scope \in Scenarios /\ Keys = scope.keys /\ cms \in E
      /\ ago \in [E -> Nat] /\ ago[cms] = 0 /\ FetchTime \in Nat
    BY ReadAssumption DEF Inv, Typed, Keys, BuildsFine
<1>1. DOMAIN b = {"key", "age", "first", "second", "tries"} /\ k \in scope.keys /\ ~Unasked(k)
      /\ b.age \in 0 .. FetchTime /\ ago[cms] <= b.age
    BY <1>0 DEF BuildFine
<1>3. CASE n = 1
    <2>0. PICK new : new = [b EXCEPT !.first = First(k, cms)]
        OBVIOUS
    <2>1. b.first = None /\ Progress(b, new)
        BY <1>3, <2>0 DEF Answered, Awaits
    <2>3. /\ DOMAIN new = {"key", "age", "first", "second", "tries"}
          /\ new.key = k /\ new.age = b.age /\ new.second = b.second
          /\ new.first = First(k, cms)
        BY <1>1, <2>0
    <2>4. FirstFine(E, ago, k, new.first, b.age)
        BY <1>0, <1>1, <2>3 DEF FirstFine
    <2>5. SecondFine(E, ago, k, new.first, b.second, b.age)
        <3>1. CASE b.second = None
            BY <3>1 DEF SecondFine
        <3>2. CASE b.second # None
            <4>1. Parallel(k) /\ More(k, None)
                BY <1>0, <2>1, <3>2 DEF BuildFine, SecondFine
            <4>2. PICK f \in E : ago[f] <= b.age /\ b.second = Second(k, f, None)
                BY <1>0, <2>1, <3>2 DEF BuildFine, SecondFine
            <4>3. Second(k, f, None) = Second(k, f, new.first)
                  /\ More(k, None) = More(k, new.first)
                BY <1>0, <1>1, <2>3, <4>1, PartReads
            <4> QED
                BY <4>1, <4>2, <4>3 DEF SecondFine
        <3> QED
            BY <3>1, <3>2
    <2>6. BuildFine(E, ago, Keys, new)
        BY <1>0, <1>1, <2>3, <2>4, <2>5 DEF BuildFine
    <2> QED
        BY <2>1, <2>6, ProgressKeeps
<1>4. CASE n = 2
    <2>0. PICK new : new = [b EXCEPT !.second = Second(k, cms, b.first)]
        OBVIOUS
    <2>1. b.second = None /\ (Parallel(k) \/ b.first # None) /\ More(k, b.first) /\ Progress(b, new)
        BY <1>4, <2>0 DEF Answered, Awaits
    <2>3. /\ DOMAIN new = {"key", "age", "first", "second", "tries"}
          /\ new.key = k /\ new.age = b.age /\ new.first = b.first
          /\ new.second = Second(k, cms, b.first)
        BY <1>1, <2>0
    <2>4. SecondFine(E, ago, k, b.first, new.second, b.age)
        BY <1>0, <1>1, <2>1, <2>3 DEF SecondFine
    <2>5. FirstFine(E, ago, k, b.first, b.age)
        BY <1>0 DEF BuildFine
    <2>6. BuildFine(E, ago, Keys, new)
        BY <1>0, <1>1, <2>3, <2>4, <2>5 DEF BuildFine
    <2> QED
        BY <2>1, <2>6, ProgressKeeps
<1> QED
    BY <1>3, <1>4

LEMMA FailureKeeps ==
    ASSUME Inv, NEW b \in builds, NEW n \in 1 .. 2, NEW kind \in ErrorKinds,
           RequestFails(b, n, kind)
    PROVE  /\ BuildsFine(scope.editions, ago, Keys, builds')
           /\ AnswerFine(scope.editions, ago, Keys, answer')
<1>0. BuildFine(scope.editions, ago, Keys, b)
    BY DEF Inv, BuildsFine
<1>1. CASE Retryable(kind) /\ b.tries[n] > 0
    <2>0. PICK new : new = [b EXCEPT !.tries[n] = @ - 1]
        OBVIOUS
    <2>1. builds' = (builds \ {b}) \cup {new} /\ answer' = None
        BY <1>1, <2>0 DEF RequestFails, Revised
    <2>2. /\ DOMAIN new = DOMAIN b /\ new.key = b.key /\ new.age = b.age
          /\ new.first = b.first /\ new.second = b.second
        BY <1>0, <2>0 DEF BuildFine
    <2>3. BuildFine(scope.editions, ago, Keys, new)
        BY <1>0, <2>2 DEF BuildFine
    <2> QED
        BY <2>1, <2>3 DEF Inv, BuildsFine, AnswerFine
<1>2. CASE ~(Retryable(kind) /\ b.tries[n] > 0)
    <2>1. builds' = builds \ {b}
          /\ answer' = [key |-> b.key, kind |-> ToApiError(kind), value |-> None]
        BY <1>2 DEF RequestFails, Refused
    <2>2. ToApiError(kind) \notin {"served", "missing"}
        BY DEF ToApiError
    <2>3. AnswerFine(scope.editions, ago, Keys,
                     [key |-> b.key, kind |-> ToApiError(kind), value |-> None])
        BY <1>0, <2>2 DEF AnswerFine, BuildFine
    <2> QED
        BY <2>1, <2>3 DEF Inv, BuildsFine
<1> QED
    BY <1>1, <1>2

LEMMA LongestIs ==
    ASSUME NEW s \in Scenarios
    PROVE  (CHOOSE t \in {Ttl(k) : k \in s.keys} : \A k \in s.keys : Ttl(k) <= t) \in Nat
<1> DEFINE T == {Ttl(k) : k \in s.keys}
<1>1. T \subseteq Nat
    BY KeyReads
<1>2. \E t \in T : \A k \in s.keys : Ttl(k) <= t
    BY ReadAssumption
<1> QED
    BY <1>1, <1>2

LEMMA InitInv == Init => Inv
<1> SUFFICES ASSUME Init PROVE Inv
    OBVIOUS
<1>1. Longest \in Nat
    BY LongestIs DEF Init, Longest, Keys
<1>2. Longest + FetchTime \in Nat
    BY <1>1, ReadAssumption
<1>3. Typed
    BY <1>2 DEF Init, Typed
<1>4. CachesFine(scope.editions, ago, Keys, caches)
    BY EmptyOnly DEF Init, CachesFine
<1>5. BuildsFine(scope.editions, ago, Keys, builds) /\ AnswerFine(scope.editions, ago, Keys, answer)
    BY DEF Init, BuildsFine, AnswerFine
<1> QED
    BY <1>3, <1>4, <1>5 DEF Inv

LEMMA EditKeeps == Inv /\ Edit => Inv'
<1> SUFFICES ASSUME Inv, Edit PROVE Inv'
    OBVIOUS
<1>1. /\ scope' = scope /\ caches' = caches /\ builds' = builds /\ answer' = None
      /\ cms' \in scope.editions /\ ago' = [ago EXCEPT ![cms'] = 0]
    BY DEF Edit
<1>2. ago \in [scope.editions -> Nat] /\ scope \in Scenarios
    BY DEF Inv, Typed
<1>3. ago' \in [scope.editions -> Nat] /\ ago'[cms'] = 0
    BY <1>1, <1>2
<1>4. PICK later \in [scope.editions -> Nat] : later = ago'
    BY <1>3
<1>5. Drift(scope.editions, ago, later, 0)
    BY <1>1, <1>2, <1>4 DEF Drift
<1>6. CachesFine(scope.editions, later, Keys, caches)
    BY <1>2, <1>5, CachesDrift DEF Inv, Keys
<1>7. BuildsFine(scope.editions, later, Keys, builds)
    BY <1>2, <1>5, BuildsDrift DEF Inv, Keys
<1>8. AnswerFine(scope.editions, later, Keys, None)
    BY DEF AnswerFine
<1>9. Typed'
    BY <1>1, <1>2, <1>3 DEF Typed
<1> QED
    BY <1>1, <1>4, <1>6, <1>7, <1>8, <1>9 DEF Inv, Keys

LEMMA TickKeeps == Inv /\ Tick => Inv'
<1> SUFFICES ASSUME Inv, Tick PROVE Inv'
    OBVIOUS
<1> DEFINE E == scope.editions
<1>1. /\ scope' = scope /\ cms' = cms /\ answer' = None
      /\ caches' = [r \in Routes |-> Aged(caches[r])]
      /\ builds' = {[b EXCEPT !.age = @ + 1] : b \in builds}
      /\ ago' = [e \in DOMAIN ago |->
                   IF e = cms \/ ago[e] = Longest + FetchTime THEN ago[e] ELSE ago[e] + 1]
    BY DEF Tick
<1>2. ago \in [E -> Nat] /\ scope \in Scenarios /\ cms \in E /\ ago[cms] = 0 /\ FetchTime \in Nat
    BY ReadAssumption DEF Inv, Typed
<1>3. ago' \in [E -> Nat] /\ ago'[cms'] = 0
    BY <1>1, <1>2
<1>4. PICK later \in [E -> Nat] : later = ago'
    BY <1>3
<1>5. Drift(E, ago, later, 1)
    <2>1. \A e \in E : later[e] = ago[e] \/ later[e] = ago[e] + 1
        BY <1>1, <1>2, <1>4
    <2> QED
        BY <1>2, <2>1 DEF Drift
<1>6. CachesFine(E, later, Keys, caches')
    <2>1. ASSUME NEW r \in Routes
          PROVE  IsCache(Aged(caches[r]))
                 /\ \A x \in Entries(Aged(caches[r])) : EntryFine(E, later, Keys, x)
        <3>1. IsCache(caches[r]) /\ \A x \in Entries(caches[r]) : EntryFine(E, ago, Keys, x)
            BY DEF Inv, CachesFine
        <3>2. IsCache(Aged(caches[r]))
            BY <3>1, AgedOnly
        <3>3. ASSUME NEW x \in Entries(Aged(caches[r])), x.left > 0
              PROVE  EntryFine(E, later, Keys, x)
            <4>1. PICK e \in Entries(caches[r]) :
                        /\ x.key = e.key /\ x.value = e.value
                        /\ x.left = IF e.left > 0 THEN e.left - 1 ELSE 0
                BY <3>1, AgedOnly
            <4>2. e.left \in Nat
                BY <3>1 DEF IsCache, Entry
            <4>3. e.left > 0 /\ x.left = e.left - 1
                BY <3>3, <4>1, <4>2
            <4>4. /\ e.key \in Keys /\ e.left <= Ttl(e.key)
                  /\ Fine(E, ago, e.key, e.value, Ttl(e.key) + FetchTime - e.left)
                BY <3>1, <4>3 DEF EntryFine
            <4>5. Ttl(e.key) \in Nat
                BY <1>2, <4>4, KeyReads DEF Keys
            <4>6. /\ Ttl(e.key) + FetchTime - e.left \in Nat /\ Ttl(e.key) + FetchTime - x.left \in Nat
                  /\ Ttl(e.key) + FetchTime - e.left + 1 <= Ttl(e.key) + FetchTime - x.left
                  /\ x.left <= Ttl(e.key)
                BY <1>2, <4>2, <4>3, <4>4, <4>5
            <4>7. Fine(E, later, e.key, e.value, Ttl(e.key) + FetchTime - x.left)
                BY <1>2, <1>5, <4>4, <4>6, FineDrifts
            <4> QED
                BY <4>1, <4>4, <4>6, <4>7 DEF EntryFine
        <3> QED
            BY <3>2, <3>3 DEF EntryFine
    <2> QED
        BY <1>1, <2>1 DEF CachesFine
<1>7. BuildsFine(E, later, Keys, builds')
    <2>1. ASSUME NEW b \in builds PROVE BuildFine(E, later, Keys, [b EXCEPT !.age = @ + 1])
        <3>1. BuildFine(E, ago, Keys, b) /\ b.age < FetchTime
            BY DEF Inv, BuildsFine, Tick
        <3>2. b.age \in Nat /\ b.age + 1 \in 0 .. FetchTime /\ b.age + 1 <= b.age + 1
            BY <1>2, <3>1 DEF BuildFine
        <3>3. /\ FirstFine(E, later, b.key, b.first, b.age + 1)
              /\ SecondFine(E, later, b.key, b.first, b.second, b.age + 1)
            BY <1>2, <1>5, <3>1, <3>2, BuildDrifts
        <3>4. PICK new : new = [b EXCEPT !.age = @ + 1]
            OBVIOUS
        <3>5. /\ DOMAIN new = DOMAIN b /\ new.key = b.key /\ new.age = b.age + 1
              /\ new.first = b.first /\ new.second = b.second
            BY <3>1, <3>4 DEF BuildFine
        <3>6. BuildFine(E, later, Keys, new)
            BY <3>1, <3>2, <3>3, <3>5 DEF BuildFine
        <3> QED
            BY <3>4, <3>6
    <2> QED
        BY <1>1, <2>1 DEF BuildsFine
<1>8. AnswerFine(E, later, Keys, None)
    BY DEF AnswerFine
<1>9. Typed'
    BY <1>1, <1>2, <1>3 DEF Typed
<1> QED
    BY <1>1, <1>4, <1>6, <1>7, <1>8, <1>9 DEF Inv, Keys

(* The part of the content and of its history does not change in the other *)
(* steps.                                                                  *)
LEMMA SameContent ==
    ASSUME Inv, UNCHANGED <<scope, cms, ago>>,
           CachesFine(scope.editions, ago, Keys, caches'),
           BuildsFine(scope.editions, ago, Keys, builds'),
           AnswerFine(scope.editions, ago, Keys, answer')
    PROVE  Inv'
<1>1. Typed'
    BY DEF Inv, Typed
<1> QED
    BY <1>1 DEF Inv, Keys

LEMMA StepInv == Inv /\ [Next]_vars => Inv'
<1> SUFFICES ASSUME Inv, [Next]_vars PROVE Inv'
    OBVIOUS
<1>0. /\ CachesFine(scope.editions, ago, Keys, caches)
      /\ BuildsFine(scope.editions, ago, Keys, builds)
      /\ AnswerFine(scope.editions, ago, Keys, answer)
      /\ AnswerFine(scope.editions, ago, Keys, None)
    BY DEF Inv, AnswerFine
<1>1. CASE Edit
    BY <1>1, EditKeeps
<1>2. CASE Tick
    BY <1>2, TickKeeps
<1>3. ASSUME NEW k \in Keys, Request(k) PROVE Inv'
    <2>1. CASE Kept(k)
        <3>1. UNCHANGED <<scope, cms, ago, builds>>
            BY <2>1 DEF Kept
        <3> QED
            BY <1>0, <2>1, <3>1, KeptKeeps, SameContent
    <2>2. CASE Begin(k)
        <3>1. UNCHANGED <<scope, cms, ago>> /\ answer' = None
            BY <2>2 DEF Begin
        <3> QED
            BY <1>0, <2>2, <3>1, BeginKeeps, SameContent
    <2>3. CASE Deselected(k)
        <3>1. UNCHANGED <<scope, cms, ago, builds>>
            BY <2>3 DEF Deselected
        <3> QED
            BY <1>0, <2>3, <3>1, DeselectedKeeps, SameContent
    <2> QED
        BY <1>3, <2>1, <2>2, <2>3 DEF Request
<1>4. ASSUME NEW b \in builds, NEW n \in 1 .. 2, Answered(b, n) PROVE Inv'
    <2>1. UNCHANGED <<scope, cms, ago>>
        BY <1>4 DEF Answered, Progress
    <2> QED
        BY <1>4, <2>1, AnsweredKeeps, SameContent
<1>5. CASE Restart
    <2>1. /\ UNCHANGED <<scope, cms, ago>> /\ builds' = {} /\ answer' = None
          /\ caches' = [r \in Routes |-> EmptyCache]
        BY <1>5 DEF Restart
    <2>2. CachesFine(scope.editions, ago, Keys, caches')
        BY <2>1, EmptyOnly DEF CachesFine
    <2>3. BuildsFine(scope.editions, ago, Keys, builds')
        BY <2>1 DEF BuildsFine
    <2> QED
        BY <1>0, <2>1, <2>2, <2>3, SameContent
<1>6. ASSUME NEW b \in builds, NEW n \in 1 .. 2, NEW kind \in ErrorKinds, RequestFails(b, n, kind)
      PROVE  Inv'
    <2>1. UNCHANGED <<scope, cms, ago, caches>>
        BY <1>6 DEF RequestFails
    <2> QED
        BY <1>0, <1>6, <2>1, FailureKeeps, SameContent
<1>7. CASE UNCHANGED vars
    <2>1. UNCHANGED <<scope, cms, ago, caches, builds, answer>>
        BY <1>7 DEF vars
    <2> QED
        BY <1>0, <2>1, SameContent
<1> QED
    BY <1>1, <1>2, <1>3, <1>4, <1>5, <1>6, <1>7 DEF Next, RequestSteps, FaultSteps

LEMMA Invariance == Spec => []Inv
<1> QED
    BY InitInv, StepInv, PTL DEF Spec

(* What a client is told was put together from two editions that count as  *)
(* recent, or he asked for nothing.                                        *)
LEMMA ServedFrom ==
    ASSUME Inv, IsServed
    PROVE  LET k == answer.key IN
           /\ scope \in Scenarios /\ k \in scope.keys /\ answer.value # None
           /\ Recent(k) \subseteq scope.editions
           /\ \/ Unasked(k) /\ answer.value = Empty(k)
              \/ \E e, f \in Recent(k) : answer.value = AnswerFrom(k, e, f)
<1> DEFINE k == answer.key
           E == scope.editions
<1>1. scope \in Scenarios /\ ago \in [E -> Nat] /\ Keys = scope.keys
    BY DEF Inv, Typed, Keys
<1>2. k \in scope.keys /\ Fine(E, ago, k, answer.value, Ttl(k) + FetchTime - 1)
    BY <1>1 DEF Inv, AnswerFine, IsServed
<1>3. Ttl(k) \in Nat /\ FetchTime \in Nat
    BY <1>1, <1>2, KeyReads, ReadAssumption
<1>4. Recent(k) \subseteq E
    BY DEF Recent
<1>5. ASSUME Made(E, ago, k, answer.value, Ttl(k) + FetchTime - 1)
      PROVE  \E e, f \in Recent(k) : answer.value = AnswerFrom(k, e, f)
    <2>1. PICK e \in E, f \in E : /\ ago[e] <= Ttl(k) + FetchTime - 1
                                  /\ ago[f] <= Ttl(k) + FetchTime - 1
                                  /\ answer.value = AnswerFrom(k, e, f)
        BY <1>5 DEF Made
    <2>2. ago[e] \in Nat /\ ago[f] \in Nat
        BY <1>1
    <2>3. e \in Recent(k) /\ f \in Recent(k)
        <3> HIDE DEF k
        <3> QED
            BY <1>3, <2>1, <2>2 DEF Recent, Horizon
    <2> QED
        BY <2>1, <2>3
<1> QED
    BY <1>1, <1>2, <1>4, <1>5 DEF Fine

(***************************************************************************)
(* Posts: what an answer that is put together from two editions holds      *)
(***************************************************************************)
PostsFrom(k, e, f) ==
    LET first == PostsFirst(k, e)
    IN  PostsMerge(k, first, IF PostsMore(k, first) THEN PostsSecond(k, f, first) ELSE None)

LEMMA TagDocs ==
    ASSUME NEW e \in PostEditions, NEW t \in Published(e.tags)
    PROVE  /\ t \in TagSlugs /\ e.tags[t] \in TagDoc /\ e.tags[t].active \in BOOLEAN
           /\ e.tags[t].de \in German /\ e.tags[t].en \in English \cup {None}
    BY DEF PostEditions, Published, TagDoc

LEMMA ChannelDocs ==
    ASSUME NEW e \in PostEditions, NEW c \in Published(e.channels)
    PROVE  /\ c \in ChannelSlugs /\ e.channels[c] \in ChannelDoc /\ e.channels[c].active \in BOOLEAN
           /\ e.channels[c].rev \in Nat /\ e.channels[c].de \in German \cup {Blank}
           /\ e.channels[c].en \in English \cup {Blank, None}
    BY DEF PostEditions, Published, ChannelDoc

LEMMA PostDocs ==
    ASSUME NEW e \in PostEditions, NEW s \in Published(e.posts)
    PROVE  LET p == e.posts[s] IN
           /\ s \in PostSlugs /\ p \in PostDoc /\ p.rev \in Nat /\ p.open \in BOOLEAN
           /\ p.from \in Day /\ p.to \in Day /\ (p.from # None /\ p.to # None => p.from <= p.to)
           /\ p.tag \in TagSlugs \cup {None} /\ p.primary \in ChannelSlugs \cup {None}
           /\ p.channels \in SUBSET ChannelSlugs
           /\ p.de \in German /\ p.en \in English \cup {None}
<1>1. s \in PostSlugs /\ e.posts[s] \in PostDoc
    BY DEF PostEditions, Published
<1>2. PICK p \in PostDoc : p = e.posts[s]
    BY <1>1
<1>3. /\ p.rev \in Nat /\ p.open \in BOOLEAN
      /\ p.from \in Day /\ p.to \in Day /\ (p.from # None /\ p.to # None => p.from <= p.to)
      /\ p.tag \in TagSlugs \cup {None} /\ p.primary \in ChannelSlugs \cup {None}
      /\ p.channels \in SUBSET ChannelSlugs
      /\ p.de \in German /\ p.en \in English \cup {None}
    BY DEF PostDoc
<1> QED
    BY <1>1, <1>2, <1>3

LEMMA Domains ==
    ASSUME NEW e \in PostEditions
    PROVE  DOMAIN e.posts = PostSlugs /\ DOMAIN e.tags = TagSlugs /\ DOMAIN e.channels = ChannelSlugs
    BY DEF PostEditions

LEMMA TheEntry ==
    ASSUME NEW entries, NEW x \in entries, NEW s, x.slug = s,
           \A y \in entries : y.slug = s => y = x
    PROVE  EntryOf(entries, s) = x
    BY DEF EntryOf

LEMMA NoEntry ==
    ASSUME NEW entries, NEW s, \A y \in entries : y.slug # s
    PROVE  EntryOf(entries, s) = None
    BY DEF EntryOf

LEMMA Locales ==
    ASSUME NEW k \in PostKeys, Localised(k)
    PROVE  k.locale = "en"
    BY DEF PostKeys, Localised

(* What a route tells, item by item: one for each slug.                    *)
TagOwn(k, f, t) == Localised(k) /\ t \in Active(f.tags) /\ f.tags[t].en # None
TagItem(k, e, f, t) ==
    [slug |-> t, name |-> IF TagOwn(k, f, t) THEN f.tags[t].en ELSE e.tags[t].de]
ChannelOwn(k, f, c) == Localised(k) /\ c \in Active(f.channels) /\ f.channels[c].en # None
ChannelItem(k, e, f, c) ==
    [slug |-> c, rev |-> e.channels[c].rev,
     text |-> IF ChannelOwn(k, f, c) THEN f.channels[c].en ELSE e.channels[c].de]

LEMMA TagTranslation ==
    ASSUME NEW k \in PostKeys, Localised(k), NEW f \in PostEditions, NEW t
    PROVE  /\ TagOwn(k, f, t) =>
                 /\ f.tags[t].en \in English /\ t \in TagSlugs
                 /\ [slug |-> t, name |-> f.tags[t].en] # None
                 /\ EntryOf(TagEntries(f, "en"), t) = [slug |-> t, name |-> f.tags[t].en]
           /\ ~TagOwn(k, f, t) => EntryOf(TagEntries(f, "en"), t) = None
<1> DEFINE Word(i) == [slug |-> i, name |-> f.tags[i].en]
           S == TagEntries(f, "en")
<1>1. \A x : x \in S <=> \E i \in Active(f.tags) : x = Word(i) /\ f.tags[i].en # None
    BY DEF TagEntries
<1>2. \A i : Word(i).slug = i
    OBVIOUS
<1>3. CASE TagOwn(k, f, t)
    <2>1. t \in Active(f.tags) /\ f.tags[t].en # None
        BY <1>3 DEF TagOwn
    <2>2. t \in TagSlugs /\ f.tags[t].en \in English
        BY <2>1, TagDocs DEF Active
    <2>3. Word(t) \in TagRow
        BY <2>2 DEF TagRow, Text
    <2>4. Word(t) # None
        BY <2>3, ContentAssumption, TextsAssumption
    <2> HIDE DEF S, Word
    <2>5. Word(t) \in S /\ \A y \in S : y.slug = t => y = Word(t)
        BY <1>1, <1>2, <2>1
    <2>6. EntryOf(S, t) = Word(t)
        BY <1>2, <2>5, TheEntry
    <2> QED
        BY <1>3, <2>2, <2>4, <2>6 DEF S, Word
<1>4. CASE ~TagOwn(k, f, t)
    <2>1. \A y \in S : y.slug # t
        <3> HIDE DEF S, Word
        <3> QED
            BY <1>1, <1>2, <1>4 DEF TagOwn
    <2>2. EntryOf(S, t) = None
        BY <2>1, NoEntry
    <2> QED
        BY <1>4, <2>2
<1> QED
    BY <1>3, <1>4

LEMMA TagsAnswer ==
    ASSUME NEW k \in PostKeys, k.route = "tags", NEW e \in PostEditions, NEW f \in PostEditions,
           PostsSecond(k, f, PostsFirst(k, e)) # None
    PROVE  /\ PostsFrom(k, e, f).items = {TagItem(k, e, f, t) : t \in Active(e.tags)}
           /\ PostsFrom(k, e, f).fallback
                 = (Localised(k) /\ \E t \in Active(e.tags) : ~TagOwn(k, f, t))
           /\ PostsFrom(k, e, f) # None
<1> DEFINE Raw(t) == [slug |-> t, name |-> e.tags[t].de]
           first == PostsFirst(k, e)
           second == IF PostsMore(k, first) THEN PostsSecond(k, f, first) ELSE None
           X(raw) == Overlay(k, second, raw)
           items == {IF X(raw) = None THEN raw ELSE X(raw) : raw \in first}
           lacking == {raw \in first : X(raw) = None}
<1>1. ASSUME NEW t \in Active(e.tags)
      PROVE  t \in TagSlugs /\ e.tags[t].de \in German /\ e.tags[t].de # None
    BY <1>1, TagDocs, ContentAssumption, TextsAssumption DEF Active
<1>2. first = {Raw(t) : t \in Active(e.tags)}
    <2>1. first = {x \in {[slug |-> t, name |-> e.tags[t].de] : t \in Active(e.tags)} : x.name # None}
        BY DEF PostsFirst, TagEntries
    <2> QED
        BY <1>1, <2>1
<1>3. Localised(k) => second = TagEntries(f, "en") /\ second # None
    <2>1. ASSUME Localised(k) PROVE second = TagEntries(f, "en") /\ second # None
        <3>1. PostsMore(k, first) /\ k.locale = "en"
            BY <2>1, Locales DEF PostsMore, IsList
        <3> QED
            BY <3>1 DEF PostsSecond
    <2> QED
        BY <2>1
<1>4. PostsFrom(k, e, f) = [items |-> items, fallback |-> Localised(k) /\ lacking # {}]
    BY DEF PostsFrom, PostsMerge, TagsMerged, AnswerOf
<1>5. ASSUME NEW t \in Active(e.tags)
      PROVE  /\ Raw(t) \in first
             /\ (IF X(Raw(t)) = None THEN Raw(t) ELSE X(Raw(t))) = TagItem(k, e, f, t)
             /\ Localised(k) => (X(Raw(t)) = None <=> ~TagOwn(k, f, t))
    <2>1. X(Raw(t)) = IF Localised(k) /\ second # None THEN EntryOf(second, t) ELSE None
        BY DEF Overlay
    <2> HIDE DEF second, first, X
    <2>2. CASE Localised(k)
        BY <1>2, <1>3, <2>1, <2>2, TagTranslation DEF TagItem
    <2>3. CASE ~Localised(k)
        BY <1>2, <2>1, <2>3 DEF TagItem, TagOwn
    <2> QED
        BY <2>2, <2>3
<1>6. ASSUME NEW t \in Active(e.tags) PROVE TagItem(k, e, f, t) \in TagRow
    BY <1>1, TagTranslation DEF TagItem, TagRow, Text, TagOwn
<1> HIDE DEF X, Raw, first, second
<1>7. items = {TagItem(k, e, f, t) : t \in Active(e.tags)}
    BY <1>2, <1>5
<1>8. (Localised(k) /\ lacking # {}) = (Localised(k) /\ \E t \in Active(e.tags) : ~TagOwn(k, f, t))
    BY <1>2, <1>5
<1>9. PostsFrom(k, e, f) \in PostAnswer
    <2>1. items \subseteq TagRow
        BY <1>6, <1>7
    <2> HIDE DEF items, lacking
    <2> QED
        BY <1>4, <2>1 DEF PostAnswer
<1>10. PostsFrom(k, e, f) # None
    BY <1>9, ContentAssumption, TextsAssumption
<1> HIDE DEF items, lacking
<1>11. PostsFrom(k, e, f).items = items
    BY <1>4
<1>12. PostsFrom(k, e, f).fallback = (Localised(k) /\ lacking # {})
    BY <1>4
<1> QED
    BY <1>7, <1>8, <1>10, <1>11, <1>12, Zenon

LEMMA ChannelTranslation ==
    ASSUME NEW k \in PostKeys, Localised(k), NEW f \in PostEditions, NEW c
    PROVE  /\ ChannelOwn(k, f, c) =>
                 /\ f.channels[c].en \in English \cup {Blank} /\ c \in ChannelSlugs
                 /\ [slug |-> c, rev |-> f.channels[c].rev, text |-> f.channels[c].en] # None
                 /\ EntryOf(ChannelEntries(f, "en"), c)
                      = [slug |-> c, rev |-> f.channels[c].rev, text |-> f.channels[c].en]
           /\ ~ChannelOwn(k, f, c) => EntryOf(ChannelEntries(f, "en"), c) = None
<1> DEFINE Word(i) == [slug |-> i, rev |-> f.channels[i].rev, text |-> f.channels[i].en]
           S == ChannelEntries(f, "en")
<1>1. \A x : x \in S <=> \E i \in Active(f.channels) : x = Word(i) /\ f.channels[i].en # None
    BY DEF ChannelEntries
<1>2. \A i : Word(i).slug = i
    OBVIOUS
<1>3. CASE ChannelOwn(k, f, c)
    <2>1. c \in Active(f.channels) /\ f.channels[c].en # None
        BY <1>3 DEF ChannelOwn
    <2>2. c \in ChannelSlugs /\ f.channels[c].en \in English \cup {Blank} /\ f.channels[c].rev \in Nat
        BY <2>1, ChannelDocs DEF Active
    <2>3. Word(c) \in ChannelRow
        BY <2>2 DEF ChannelRow, Text
    <2>4. Word(c) # None
        BY <2>3, ContentAssumption, TextsAssumption
    <2> HIDE DEF S, Word
    <2>5. Word(c) \in S /\ \A y \in S : y.slug = c => y = Word(c)
        BY <1>1, <1>2, <2>1
    <2>6. EntryOf(S, c) = Word(c)
        BY <1>2, <2>5, TheEntry
    <2> QED
        BY <1>3, <2>2, <2>4, <2>6 DEF S, Word
<1>4. CASE ~ChannelOwn(k, f, c)
    <2>1. \A y \in S : y.slug # c
        <3> HIDE DEF S, Word
        <3> QED
            BY <1>1, <1>2, <1>4 DEF ChannelOwn
    <2>2. EntryOf(S, c) = None
        BY <2>1, NoEntry
    <2> QED
        BY <1>4, <2>2
<1> QED
    BY <1>3, <1>4

LEMMA ChannelsAnswer ==
    ASSUME NEW k \in PostKeys, k.route = "channels", NEW e \in PostEditions, NEW f \in PostEditions,
           PostsSecond(k, f, PostsFirst(k, e)) # None
    PROVE  /\ PostsFrom(k, e, f).items = {ChannelItem(k, e, f, c) : c \in Active(e.channels)}
           /\ PostsFrom(k, e, f).fallback
                 = (Localised(k) /\ \E c \in Active(e.channels) :
                                       ~ChannelOwn(k, f, c) /\ e.channels[c].de # Blank)
           /\ PostsFrom(k, e, f) # None
<1> DEFINE Raw(c) == [slug |-> c, rev |-> e.channels[c].rev, text |-> e.channels[c].de]
           first == PostsFirst(k, e)
           second == IF PostsMore(k, first) THEN PostsSecond(k, f, first) ELSE None
           X(raw) == Overlay(k, second, raw)
           Told1(raw) == IF X(raw) = None THEN raw ELSE OverlayChannel(raw, X(raw))
           items == {Told1(raw) : raw \in first}
           lacking == {raw \in first : ChannelUntranslated(raw, X(raw))}
<1>1. ASSUME NEW c \in Active(e.channels)
      PROVE  /\ c \in ChannelSlugs /\ e.channels[c].de \in German \cup {Blank}
             /\ e.channels[c].de # None /\ e.channels[c].rev \in Nat
    BY <1>1, ChannelDocs, ContentAssumption, TextsAssumption DEF Active
<1>2. first = {Raw(c) : c \in Active(e.channels)}
    <2>1. first = {x \in {[slug |-> c, rev |-> e.channels[c].rev, text |-> e.channels[c].de] :
                             c \in Active(e.channels)} : x.text # None}
        BY DEF PostsFirst, ChannelEntries
    <2> QED
        BY <1>1, <2>1
<1>3. Localised(k) => second = ChannelEntries(f, "en") /\ second # None
    <2>1. ASSUME Localised(k) PROVE second = ChannelEntries(f, "en") /\ second # None
        <3>1. PostsMore(k, first) /\ k.locale = "en"
            BY <2>1, Locales DEF PostsMore, IsList
        <3> QED
            BY <3>1 DEF PostsSecond
    <2> QED
        BY <2>1
<1>4. PostsFrom(k, e, f) = [items |-> items, fallback |-> Localised(k) /\ lacking # {}]
    BY DEF PostsFrom, PostsMerge, ChannelsMerged, AnswerOf
<1>5. ASSUME NEW c \in Active(e.channels)
      PROVE  /\ Raw(c) \in first /\ Raw(c).text = e.channels[c].de
             /\ Told1(Raw(c)) = ChannelItem(k, e, f, c)
             /\ Localised(k) => (X(Raw(c)) = None <=> ~ChannelOwn(k, f, c))
    <2>1. X(Raw(c)) = IF Localised(k) /\ second # None THEN EntryOf(second, c) ELSE None
        BY DEF Overlay
    <2>2. Raw(c) \in first /\ Raw(c).text = e.channels[c].de
        BY <1>2
    <2> HIDE DEF second, first, X
    <2>3. CASE Localised(k) /\ ChannelOwn(k, f, c)
        BY <1>3, <2>1, <2>2, <2>3, ChannelTranslation DEF ChannelItem, OverlayChannel
    <2>4. CASE Localised(k) /\ ~ChannelOwn(k, f, c)
        BY <1>3, <2>1, <2>2, <2>4, ChannelTranslation DEF ChannelItem
    <2>5. CASE ~Localised(k)
        BY <2>1, <2>2, <2>5 DEF ChannelItem, ChannelOwn
    <2> QED
        BY <2>3, <2>4, <2>5
<1>6. ASSUME NEW c \in Active(e.channels) PROVE ChannelItem(k, e, f, c) \in ChannelRow
    BY <1>1, ChannelTranslation DEF ChannelItem, ChannelRow, Text, ChannelOwn
<1> HIDE DEF X, Raw, first, second, Told1
<1>7. items = {ChannelItem(k, e, f, c) : c \in Active(e.channels)}
    BY <1>2, <1>5
<1>8. (Localised(k) /\ lacking # {})
        = (Localised(k) /\ \E c \in Active(e.channels) :
                              ~ChannelOwn(k, f, c) /\ e.channels[c].de # Blank)
    BY <1>2, <1>5 DEF ChannelUntranslated
<1>9. PostsFrom(k, e, f) \in PostAnswer
    <2>1. items \subseteq ChannelRow
        BY <1>6, <1>7
    <2> HIDE DEF items, lacking
    <2> QED
        BY <1>4, <2>1 DEF PostAnswer
<1>10. PostsFrom(k, e, f) # None
    BY <1>9, ContentAssumption, TextsAssumption
<1> HIDE DEF items, lacking
<1>11. PostsFrom(k, e, f).items = items
    BY <1>4
<1>12. PostsFrom(k, e, f).fallback = (Localised(k) /\ lacking # {})
    BY <1>4
<1> QED
    BY <1>7, <1>8, <1>10, <1>11, <1>12, Zenon

(***************************************************************************)
(* Posts, events and one post                                              *)
(***************************************************************************)
Usable(e, s) ==
    e.posts[s].tag \in Published(e.tags) /\ e.posts[s].primary \in Published(e.channels)
PostOwn(k, f, s) == Localised(k) /\ s \in Published(f.posts) /\ f.posts[s].en # None
PostMerged(k, e, f, s) ==
    IF PostOwn(k, f, s) THEN OverlayPost(PostEntry(e, s, "de"), PostEntry(f, s, "en"))
    ELSE PostEntry(e, s, "de")
PostItem(k, e, f, s) ==
    [PostMerged(k, e, f, s) EXCEPT !.channels = @ \cup {PostMerged(k, e, f, s).primary}]

(* A tag is told by its translated name if the translated post has it.     *)
TagTold(k, e, f, s) ==
    IF /\ PostOwn(k, f, s) /\ f.posts[s].tag \in Published(f.tags)
       /\ f.tags[f.posts[s].tag].en # None
    THEN f.tags[f.posts[s].tag].en ELSE e.tags[e.posts[s].tag].de

LEMMA TagsIn ==
    ASSUME NEW e \in PostEditions, NEW t \in TagSlugs \cup {None}, NEW locale \in {"de", "en"}
    PROVE  /\ t \in Published(e.tags) =>
                 /\ TagIn(e, t, locale) = [slug |-> t, name |-> e.tags[t][locale]]
                 /\ TagIn(e, t, locale) \in TagRow /\ TagIn(e, t, locale) # None
           /\ t \notin Published(e.tags) => TagIn(e, t, locale) = None
<1>1. CASE t \in Published(e.tags)
    <2>1. t \in TagSlugs /\ t # None /\ e.tags[t] # None /\ e.tags[t][locale] \in Text
        BY <1>1, TagDocs, ContentAssumption, TextsAssumption DEF Published, Text
    <2>2. TagIn(e, t, locale) = [slug |-> t, name |-> e.tags[t][locale]]
        BY <2>1 DEF TagIn
    <2>3. TagIn(e, t, locale) \in TagRow
        BY <2>1, <2>2 DEF TagRow
    <2> QED
        BY <1>1, <2>2, <2>3, ContentAssumption, TextsAssumption
<1>2. CASE t \notin Published(e.tags)
    BY <1>2, Domains DEF Published, TagIn
<1> QED
    BY <1>1, <1>2

LEMMA ChannelsIn ==
    ASSUME NEW e \in PostEditions, NEW c \in ChannelSlugs \cup {None}
    PROVE  ChannelIn(e, c) = (IF c \in Published(e.channels) THEN c ELSE None)
           /\ ChannelIn(e, c) \in ChannelSlugs \cup {None}
           /\ (c \in Published(e.channels) <=> ChannelIn(e, c) # None)
    BY Domains, ContentAssumption, TextsAssumption DEF Published, ChannelIn

LEMMA EntryTyped ==
    ASSUME NEW e \in PostEditions, NEW s \in Published(e.posts), NEW locale \in {"de", "en"}
    PROVE  /\ PostEntry(e, s, locale) \in PostRow /\ PostEntry(e, s, locale) # None
           /\ PostEntry(e, s, locale).slug = s
<1> DEFINE p == e.posts[s]
<1>1. /\ s \in PostSlugs /\ p.rev \in Nat /\ p.from \in Day /\ p.to \in Day
      /\ p.tag \in TagSlugs \cup {None} /\ p.primary \in ChannelSlugs \cup {None}
      /\ p.channels \in SUBSET ChannelSlugs /\ p.de \in German /\ p.en \in English \cup {None}
    BY PostDocs
<1>2. TagIn(e, p.tag, locale) \in TagRow \cup {None}
    BY <1>1, TagsIn
<1>3. ChannelIn(e, p.primary) \in ChannelSlugs \cup {None}
    BY <1>1, ChannelsIn
<1>4. p[locale] \in Text
    BY <1>1 DEF Text
<1>5. PostEntry(e, s, locale)
        = [slug |-> s, rev |-> p.rev, from |-> p.from, to |-> p.to, text |-> p[locale],
           tag |-> TagIn(e, p.tag, locale), primary |-> ChannelIn(e, p.primary),
           channels |-> p.channels \cap Published(e.channels)]
    BY DEF PostEntry
<1> HIDE DEF p
<1>6. PostEntry(e, s, locale) \in PostRow
    BY <1>1, <1>2, <1>3, <1>4, <1>5 DEF PostRow
<1>7. PostEntry(e, s, locale) # None
    BY <1>6, ContentAssumption, TextsAssumption
<1> QED
    BY <1>5, <1>6, <1>7

LEMMA PostTranslation ==
    ASSUME NEW k \in PostKeys, Localised(k), NEW f \in PostEditions, NEW slugs, NEW s \in slugs
    PROVE  /\ PostOwn(k, f, s) => EntryOf(Translated(f, slugs), s) = PostEntry(f, s, "en")
           /\ ~PostOwn(k, f, s) => EntryOf(Translated(f, slugs), s) = None
<1> DEFINE S == Translated(f, slugs)
           Word(i) == PostEntry(f, i, "en")
<1>1. \A x : x \in S <=> \E i \in slugs \cap Published(f.posts) :
                              x = Word(i) /\ f.posts[i].en # None
    BY DEF Translated
<1>2. \A i \in Published(f.posts) : Word(i).slug = i
    BY EntryTyped
<1> HIDE DEF S, Word
<1>3. CASE PostOwn(k, f, s)
    <2>1. s \in Published(f.posts) /\ f.posts[s].en # None
        BY <1>3 DEF PostOwn
    <2>2. Word(s) \in S /\ \A y \in S : y.slug = s => y = Word(s)
        BY <1>1, <1>2, <2>1
    <2>3. EntryOf(S, s) = Word(s)
        BY <1>2, <2>1, <2>2, TheEntry
    <2> QED
        BY <1>3, <2>3 DEF S, Word
<1>4. CASE ~PostOwn(k, f, s)
    <2>1. \A y \in S : y.slug # s
        BY <1>1, <1>2, <1>4 DEF PostOwn
    <2>2. EntryOf(S, s) = None
        BY <2>1, NoEntry
    <2> QED
        BY <1>4, <2>2 DEF S
<1> QED
    BY <1>3, <1>4

(* What becomes of a post before those without tag or channel are dropped. *)
LEMMA MergedIs ==
    ASSUME NEW k \in PostKeys, NEW e \in PostEditions, NEW f \in PostEditions,
           NEW s \in Published(e.posts)
    PROVE  LET m == PostMerged(k, e, f, s)
               p == e.posts[s]
           IN  /\ m \in PostRow /\ m.slug = s /\ m.rev = p.rev
               /\ m.text = (IF PostOwn(k, f, s) THEN f.posts[s].en ELSE p.de)
               /\ m.tag = (IF p.tag \in Published(e.tags)
                           THEN [slug |-> p.tag, name |-> TagTold(k, e, f, s)] ELSE None)
               /\ (m.tag # None <=> p.tag \in Published(e.tags))
               /\ (m.primary # None <=> p.primary \in Published(e.channels))
<1> DEFINE p == e.posts[s]
           raw == PostEntry(e, s, "de")
           x == PostEntry(f, s, "en")
<1>1. /\ p.tag \in TagSlugs \cup {None} /\ p.primary \in ChannelSlugs \cup {None}
      /\ p.de \in German /\ p.en \in English \cup {None}
    BY PostDocs
<1>2. /\ raw \in PostRow /\ raw.slug = s /\ raw.rev = p.rev /\ raw.text = p.de
      /\ raw.tag = TagIn(e, p.tag, "de") /\ raw.primary = ChannelIn(e, p.primary)
    BY EntryTyped DEF PostEntry
<1>3. /\ p.tag \in Published(e.tags) =>
            raw.tag = [slug |-> p.tag, name |-> e.tags[p.tag].de] /\ raw.tag # None
      /\ p.tag \notin Published(e.tags) => raw.tag = None
    BY <1>1, <1>2, TagsIn
<1>4. raw.primary # None <=> p.primary \in Published(e.channels)
    BY <1>1, <1>2, ChannelsIn
<1>5. CASE ~PostOwn(k, f, s)
    <2>1. PostMerged(k, e, f, s) = raw /\ TagTold(k, e, f, s) = e.tags[p.tag].de
        BY <1>5 DEF PostMerged, TagTold
    <2> HIDE DEF raw, p
    <2> QED
        BY <1>2, <1>3, <1>4, <1>5, <2>1 DEF p
<1>6. CASE PostOwn(k, f, s)
    <2> DEFINE q == f.posts[s]
               tag == OverlayTag(raw.tag, x.tag)
    <2>1. s \in Published(f.posts) /\ q.en # None
        BY <1>6 DEF PostOwn
    <2>2. q.tag \in TagSlugs \cup {None} /\ q.en \in English
        BY <2>1, PostDocs
    <2>3. x.text = q.en /\ x.tag = TagIn(f, q.tag, "en")
        BY DEF PostEntry
    <2>4. /\ q.tag \in Published(f.tags) =>
                /\ x.tag = [slug |-> q.tag, name |-> f.tags[q.tag].en] /\ x.tag # None
                /\ f.tags[q.tag].en \in English \cup {None}
          /\ q.tag \notin Published(f.tags) => x.tag = None
        BY <2>2, <2>3, TagsIn, TagDocs
    <2>5. PostMerged(k, e, f, s) = [raw EXCEPT !.text = x.text, !.tag = tag]
        BY <1>6 DEF PostMerged, OverlayPost
    <2>6. TagTold(k, e, f, s) = IF q.tag \in Published(f.tags) /\ f.tags[q.tag].en # None
                               THEN f.tags[q.tag].en ELSE e.tags[p.tag].de
        BY <1>6 DEF TagTold
    <2>7. p.tag \in Published(e.tags) => e.tags[p.tag].de \in German /\ p.tag \in TagSlugs
        BY TagDocs
    <2>8. /\ p.tag \in Published(e.tags) =>
                /\ tag = [slug |-> p.tag, name |-> TagTold(k, e, f, s)]
                /\ tag \in TagRow /\ tag # None
          /\ p.tag \notin Published(e.tags) => tag = None
        <3>1. CASE p.tag \notin Published(e.tags)
            BY <1>3, <3>1 DEF OverlayTag
        <3>2. CASE p.tag \in Published(e.tags)
            <4>1. NameMissing(raw.tag, x.tag)
                    <=> ~(q.tag \in Published(f.tags) /\ f.tags[q.tag].en # None)
                <5> HIDE DEF raw, x, p, q
                <5> QED
                    BY <1>3, <2>4, <3>2 DEF NameMissing
            <4>2. CASE q.tag \in Published(f.tags) /\ f.tags[q.tag].en # None
                <5>1. tag = [raw.tag EXCEPT !.name = x.tag.name]
                    BY <1>3, <3>2, <4>1, <4>2 DEF OverlayTag
                <5>2. raw.tag = [slug |-> p.tag, name |-> e.tags[p.tag].de]
                      /\ x.tag.name = f.tags[q.tag].en
                    BY <1>3, <2>4, <3>2, <4>2
                <5>3. TagTold(k, e, f, s) = f.tags[q.tag].en /\ f.tags[q.tag].en \in English
                    BY <2>4, <2>6, <4>2
                <5> HIDE DEF tag, raw, x, p, q
                <5>4. tag = [slug |-> p.tag, name |-> TagTold(k, e, f, s)]
                    BY <5>1, <5>2, <5>3
                <5>5. tag \in TagRow
                    BY <2>7, <3>2, <5>3, <5>4 DEF TagRow, Text
                <5>6. tag # None
                    BY <5>5, ContentAssumption, TextsAssumption
                <5> QED
                    BY <3>2, <5>4, <5>5, <5>6
            <4>3. CASE ~(q.tag \in Published(f.tags) /\ f.tags[q.tag].en # None)
                <5>1. tag = raw.tag
                    BY <4>1, <4>3 DEF OverlayTag
                <5>2. TagTold(k, e, f, s) = e.tags[p.tag].de
                    BY <2>6, <4>3
                <5> HIDE DEF tag, raw, x, p, q
                <5>3. tag = [slug |-> p.tag, name |-> TagTold(k, e, f, s)] /\ tag # None
                    BY <1>3, <3>2, <5>1, <5>2
                <5>4. tag \in TagRow
                    BY <2>7, <3>2, <5>2, <5>3 DEF TagRow, Text
                <5> QED
                    BY <3>2, <5>3, <5>4
            <4> QED
                BY <4>2, <4>3
        <3> QED
            BY <3>1, <3>2
    <2>9. PICK m : m = PostMerged(k, e, f, s)
        OBVIOUS
    <2> HIDE DEF tag, raw, x, p, q
    <2>10. /\ m \in PostRow /\ m.slug = raw.slug /\ m.rev = raw.rev /\ m.primary = raw.primary
           /\ m.text = x.text /\ m.tag = tag
        <3>1. x.text \in Text /\ tag \in TagRow \cup {None}
            BY <2>2, <2>3, <2>8 DEF Text
        <3> QED
            BY <1>2, <2>5, <2>9, <3>1 DEF PostRow
    <2> QED
        BY <1>2, <1>4, <1>6, <2>3, <2>8, <2>9, <2>10 DEF p, q
<1> QED
    BY <1>5, <1>6

LEMMA ItemIs ==
    ASSUME NEW k \in PostKeys, NEW e \in PostEditions, NEW f \in PostEditions,
           NEW s \in Published(e.posts), Usable(e, s)
    PROVE  LET x == PostItem(k, e, f, s)
           IN  /\ x \in PostRow /\ x # None /\ x.slug = s /\ x.rev = e.posts[s].rev
               /\ x.text = (IF PostOwn(k, f, s) THEN f.posts[s].en ELSE e.posts[s].de)
               /\ x.tag = [slug |-> e.posts[s].tag, name |-> TagTold(k, e, f, s)]
<1>1. PICK m : m = PostMerged(k, e, f, s)
    OBVIOUS
<1>2. /\ m \in PostRow /\ m.slug = s /\ m.rev = e.posts[s].rev
      /\ m.text = (IF PostOwn(k, f, s) THEN f.posts[s].en ELSE e.posts[s].de)
      /\ m.tag = [slug |-> e.posts[s].tag, name |-> TagTold(k, e, f, s)]
      /\ m.primary # None
    BY <1>1, MergedIs DEF Usable
<1>3. PostItem(k, e, f, s) = [m EXCEPT !.channels = @ \cup {m.primary}]
    BY <1>1 DEF PostItem
<1>4. PICK x : x = PostItem(k, e, f, s)
    OBVIOUS
<1>5. m.primary \in ChannelSlugs /\ m.channels \in SUBSET ChannelSlugs
    BY <1>2 DEF PostRow
<1>6. /\ x \in PostRow /\ x.slug = m.slug /\ x.rev = m.rev /\ x.text = m.text /\ x.tag = m.tag
    BY <1>2, <1>3, <1>4, <1>5 DEF PostRow
<1>7. x # None
    BY <1>6, ContentAssumption, TextsAssumption
<1> QED
    BY <1>2, <1>4, <1>6, <1>7

LEMMA AnswerTyped ==
    ASSUME NEW items \in SUBSET (TagRow \cup ChannelRow \cup PostRow), NEW fallback
    PROVE  [items |-> items, fallback |-> fallback = TRUE] \in PostAnswer
    BY DEF PostAnswer

(* What the posts of a list or one post are made of.                       *)
Raws(e, chosen) == {PostEntry(e, s, "de") : s \in chosen}
Shown(e, chosen) == {s \in chosen : Usable(e, s)}
PostItems(k, e, f, chosen) == {PostItem(k, e, f, s) : s \in Shown(e, chosen)}
Lacking(k, e, f, s) ==
    Untranslated(PostEntry(e, s, "de"), IF PostOwn(k, f, s) THEN PostEntry(f, s, "en") ELSE None)

FeedLacks(k, e, f, chosen) == Localised(k) /\ \E s \in chosen : Lacking(k, e, f, s)

LEMMA FeedIs ==
    ASSUME NEW k \in PostKeys, NEW e \in PostEditions, NEW f \in PostEditions,
           NEW chosen \in SUBSET Published(e.posts), NEW slugs, chosen \subseteq slugs,
           NEW first, first = Raws(e, chosen), NEW second,
           chosen # {} /\ Localised(k) => second = Translated(f, slugs) /\ second # None
    PROVE  LET merged == FeedMerged(k, first, second)
           IN  /\ merged.items = PostItems(k, e, f, chosen)
               /\ merged.fallback = FeedLacks(k, e, f, chosen)
               /\ merged # None
<1> DEFINE Raw(s) == PostEntry(e, s, "de")
           X(raw) == Overlay(k, second, raw)
           raws == {IF X(raw) = None THEN raw ELSE OverlayPost(raw, X(raw)) : raw \in first}
           items == ItemsOf(raws)
           lacking == {raw \in first : Untranslated(raw, X(raw))}
           shown == {i \in chosen : Usable(e, i)}
<1>1. FeedMerged(k, first, second) = [items |-> items, fallback |-> Localised(k) /\ lacking # {}]
    BY DEF FeedMerged, AnswerOf
<1>2. ASSUME NEW s \in chosen
      PROVE  /\ (IF X(Raw(s)) = None THEN Raw(s) ELSE OverlayPost(Raw(s), X(Raw(s))))
                   = PostMerged(k, e, f, s)
             /\ Localised(k) => (Untranslated(Raw(s), X(Raw(s))) <=> Lacking(k, e, f, s))
    <2>1. Raw(s).slug = s /\ s \in slugs
        BY EntryTyped
    <2>2. X(Raw(s)) = IF Localised(k) /\ second # None THEN EntryOf(second, s) ELSE None
        BY <2>1 DEF Overlay
    <2>3. X(Raw(s)) = IF PostOwn(k, f, s) THEN PostEntry(f, s, "en") ELSE None
        <3>1. CASE Localised(k)
            BY <2>1, <2>2, <3>1, PostTranslation
        <3>2. CASE ~Localised(k)
            BY <2>2, <3>2 DEF PostOwn
        <3> QED
            BY <3>1, <3>2
    <2>4. PostOwn(k, f, s) => PostEntry(f, s, "en") # None
        BY EntryTyped DEF PostOwn
    <2> HIDE DEF X, Raw
    <2>5. CASE PostOwn(k, f, s)
        BY <2>3, <2>4, <2>5 DEF PostMerged, Lacking, Raw
    <2>6. CASE ~PostOwn(k, f, s)
        BY <2>3, <2>6 DEF PostMerged, Lacking, Raw
    <2> QED
        BY <2>5, <2>6
<1> HIDE DEF X, Raw
<1>3. first = {Raw(s) : s \in chosen}
    BY DEF Raw, Raws
<1>4. raws = {PostMerged(k, e, f, s) : s \in chosen}
    BY <1>2, <1>3
<1>5. \A s \in chosen : PostMerged(k, e, f, s).tag # None /\ PostMerged(k, e, f, s).primary # None
                          <=> Usable(e, s)
    BY MergedIs DEF Usable
<1>6. items = {PostItem(k, e, f, s) : s \in shown}
    <2>1. items = {[x EXCEPT !.channels = @ \cup {x.primary}] :
                      x \in {r \in raws : r.tag # None /\ r.primary # None}}
        BY DEF ItemsOf
    <2> DEFINE kept == {r \in raws : r.tag # None /\ r.primary # None}
    <2>2. kept = {PostMerged(k, e, f, s) : s \in shown}
        <3> HIDE DEF raws
        <3> QED
            BY <1>4, <1>5
    <2> HIDE DEF kept, items, shown
    <2>3. items = {[x EXCEPT !.channels = @ \cup {x.primary}] : x \in kept}
        BY <2>1 DEF kept
    <2> QED
        BY <2>2, <2>3 DEF PostItem
<1>7. (Localised(k) /\ lacking # {}) = (Localised(k) /\ \E s \in chosen : Lacking(k, e, f, s))
    BY <1>2, <1>3
<1>8. items \subseteq PostRow
    <2>1. \A s \in shown : PostItem(k, e, f, s) \in PostRow
        BY ItemIs
    <2> HIDE DEF items, shown
    <2> QED
        BY <1>6, <2>1
<1> HIDE DEF items, lacking, shown
<1>9. FeedMerged(k, first, second) \in PostAnswer
    <2>1. items \in SUBSET (TagRow \cup ChannelRow \cup PostRow)
        BY <1>8
    <2>2. [items |-> items, fallback |-> Localised(k) /\ lacking # {}] \in PostAnswer
        BY <2>1, AnswerTyped, Zenon
    <2> QED
        BY <1>1, <2>2, Zenon
<1>10. FeedMerged(k, first, second) # None
    BY <1>9, ContentAssumption, TextsAssumption
<1>11. FeedMerged(k, first, second).items = items
    BY <1>1
<1>12. FeedMerged(k, first, second).fallback = (Localised(k) /\ lacking # {})
    BY <1>1
<1>13. items = PostItems(k, e, f, chosen)
    BY <1>6 DEF shown, PostItems, Shown
<1> QED
    BY <1>7, <1>10, <1>11, <1>12, <1>13, Zenon DEF FeedLacks

LEMMA SelectedPublished ==
    ASSUME NEW k, NEW e PROVE Selected(k, e) \in SUBSET Published(e.posts)
    BY DEF Selected

LEMMA PostsAnswerIs ==
    ASSUME NEW k \in PostKeys, k.route \in {"posts", "events", "detail"},
           NEW e \in PostEditions, NEW f \in PostEditions,
           PostsSecond(k, f, PostsFirst(k, e)) # None
    PROVE  LET value == PostsFrom(k, e, f)
               chosen == Selected(k, e)
           IN  /\ value # None => /\ value.items = PostItems(k, e, f, chosen)
                                  /\ value.fallback = FeedLacks(k, e, f, chosen)
               /\ value = None => k.route = "detail" /\ Shown(e, chosen) = {}
<1> DEFINE chosen == Selected(k, e)
           first == PostsFirst(k, e)
           second == IF PostsMore(k, first) THEN PostsSecond(k, f, first) ELSE None
           slugs == IF k.route = "detail" THEN {k.slug} ELSE {x.slug : x \in first}
           merged == FeedMerged(k, first, second)
<1>1. chosen \in SUBSET Published(e.posts)
    BY SelectedPublished
<1>2. first = {PostEntry(e, s, "de") : s \in chosen}
    BY DEF PostsFirst
<1>2a. first = Raws(e, chosen)
    BY <1>2 DEF Raws
<1>3. chosen \subseteq slugs
    <2>1. CASE k.route = "detail"
        BY <2>1 DEF Selected
    <2>2. CASE k.route # "detail"
        <3>1. \A s \in chosen : PostEntry(e, s, "de").slug = s
            BY <1>1, EntryTyped
        <3> HIDE DEF chosen, first
        <3> QED
            BY <1>2, <2>2, <3>1
    <2> QED
        BY <2>1, <2>2
<1>4. ASSUME chosen # {}, Localised(k) PROVE second = Translated(f, slugs) /\ second # None
    <2>1. first # {}
        BY <1>2, <1>4
    <2>2. PostsMore(k, first)
        BY <1>4, <2>1 DEF PostsMore
    <2>3. PostsSecond(k, f, first) = Translated(f, slugs)
        BY DEF PostsSecond
    <2> QED
        BY <2>2, <2>3
<1>5. /\ merged.items = PostItems(k, e, f, chosen)
      /\ merged.fallback = FeedLacks(k, e, f, chosen)
      /\ merged # None
    <2>1. chosen # {} /\ Localised(k) => second = Translated(f, slugs) /\ second # None
        BY <1>4
    <2> HIDE DEF chosen, first, second, slugs
    <2>2. merged = FeedMerged(k, Raws(e, chosen), second)
        BY <1>2a
    <2> HIDE DEF merged
    <2> QED
        BY <1>1, <1>3, <2>1, <2>2, FeedIs
<1>6. PostsFrom(k, e, f) = IF k.route = "detail" /\ merged.items = {} THEN None ELSE merged
    BY DEF PostsFrom, PostsMerge, EventsMerged, DetailMerged
<1>7. PostItems(k, e, f, chosen) = {} <=> Shown(e, chosen) = {}
    <2> HIDE DEF chosen
    <2> QED
        BY DEF PostItems
<1> HIDE DEF chosen, merged
<1>8. CASE k.route = "detail" /\ merged.items = {}
    BY <1>5, <1>6, <1>7, <1>8 DEF chosen
<1>9. CASE ~(k.route = "detail" /\ merged.items = {})
    <2>1. PostsFrom(k, e, f) = merged
        BY <1>6, <1>9
    <2> QED
        BY <1>5, <2>1 DEF chosen
<1> QED
    BY <1>8, <1>9

(***************************************************************************)
(* What is meant, by the words of the reference                            *)
(***************************************************************************)
(* An event takes place on some day of the range exactly if the filters of *)
(* the request let it through.                                             *)
LEMMA DuringIs ==
    ASSUME NEW k \in PostKeys, k.route = "events", NEW from \in Int, NEW to \in Day,
           to # None => from <= to
    PROVE  (from <= k.to /\ IF to = None THEN from >= k.from ELSE to >= k.from)
             <=> \E day \in k.from .. k.to : from <= day /\ day <= (IF to = None THEN from ELSE to)
<1>1. k.from \in Int /\ k.to \in Int /\ k.from <= k.to
    BY DEF PostKeys, PostRoutes
<1> DEFINE last == IF to = None THEN from ELSE to
<1>2. last \in Int /\ from <= last
    BY DEF Day
<1>3. (from <= k.to /\ IF to = None THEN from >= k.from ELSE to >= k.from)
        <=> from <= k.to /\ last >= k.from
    BY <1>1, <1>2
<1> HIDE DEF last
<1>4. ASSUME from <= k.to, last >= k.from
      PROVE  \E day \in k.from .. k.to : from <= day /\ day <= last
    <2>1. CASE from >= k.from
        <3>1. from \in k.from .. k.to
            BY <1>1, <1>4, <2>1
        <3> QED
            BY <1>2, <3>1
    <2>2. CASE ~(from >= k.from)
        <3>1. k.from \in k.from .. k.to /\ from <= k.from /\ k.from <= last
            BY <1>1, <1>2, <1>4, <2>2
        <3> QED
            BY <3>1
    <2> QED
        BY <2>1, <2>2
<1>5. ASSUME NEW day \in k.from .. k.to, from <= day, day <= last
      PROVE  from <= k.to /\ last >= k.from
    BY <1>1, <1>2, <1>5
<1> QED
    BY <1>3, <1>4, <1>5 DEF last

LEMMA MeantTag ==
    ASSUME NEW k \in PostKeys, k.route = "tags", NEW e \in PostEditions, NEW t \in TagSlugs
    PROVE  /\ t \in Active(e.tags) =>
                 /\ Meant(k, e, t) # None
                 /\ Meant(k, e, t) = [slug |-> t, name |-> InOwnWords(e.tags[t], k)]
           /\ t \notin Active(e.tags) => Meant(k, e, t) = None
<1>0. Docs(k, e) = e.tags
    BY DEF Docs
<1>1. CASE t \in Active(e.tags)
    <2>1. e.tags[t] # None /\ e.tags[t].active /\ InOwnWords(e.tags[t], k) \in Text
        BY <1>1, TagDocs DEF Active, Published, InOwnWords, Text
    <2>2. Meant(k, e, t) = [slug |-> t, name |-> InOwnWords(e.tags[t], k)]
        BY <1>0, <2>1 DEF Meant, MeantOther
    <2>3. Meant(k, e, t) \in TagRow
        BY <2>1, <2>2 DEF TagRow
    <2>4. Meant(k, e, t) # None
        BY <2>3, ContentAssumption, TextsAssumption
    <2> QED
        BY <1>1, <2>2, <2>4
<1>2. CASE t \notin Active(e.tags)
    <2>1. e.tags[t] = None \/ ~e.tags[t].active
        BY <1>2, Domains DEF Active, Published
    <2>2. Meant(k, e, t) = None
        BY <1>0, <2>1 DEF Meant, MeantOther
    <2> QED
        BY <1>2, <2>2
<1> QED
    BY <1>1, <1>2

LEMMA MeantChannel ==
    ASSUME NEW k \in PostKeys, k.route = "channels", NEW e \in PostEditions, NEW c \in ChannelSlugs
    PROVE  /\ c \in Active(e.channels) =>
                 /\ Meant(k, e, c) # None
                 /\ Meant(k, e, c) = [slug |-> c, rev |-> e.channels[c].rev,
                                      text |-> InOwnWords(e.channels[c], k)]
           /\ c \notin Active(e.channels) => Meant(k, e, c) = None
<1>0. Docs(k, e) = e.channels
    BY DEF Docs
<1>1. CASE c \in Active(e.channels)
    <2>1. /\ e.channels[c] # None /\ e.channels[c].active /\ e.channels[c].rev \in Nat
          /\ InOwnWords(e.channels[c], k) \in Text
        BY <1>1, ChannelDocs DEF Active, Published, InOwnWords, Text
    <2>2. Meant(k, e, c) = [slug |-> c, rev |-> e.channels[c].rev,
                           text |-> InOwnWords(e.channels[c], k)]
        BY <1>0, <2>1 DEF Meant, MeantOther
    <2>3. Meant(k, e, c) \in ChannelRow
        BY <2>1, <2>2 DEF ChannelRow
    <2>4. Meant(k, e, c) # None
        BY <2>3, ContentAssumption, TextsAssumption
    <2> QED
        BY <1>1, <2>2, <2>4
<1>2. CASE c \notin Active(e.channels)
    <2>1. e.channels[c] = None \/ ~e.channels[c].active
        BY <1>2, Domains DEF Active, Published
    <2>2. Meant(k, e, c) = None
        BY <1>0, <2>1 DEF Meant, MeantOther
    <2> QED
        BY <1>2, <2>2
<1> QED
    BY <1>1, <1>2

(* The name of its tag that a post is meant to have.                       *)
TagMeant(k, e, s) ==
    IF e.posts[s].en = None THEN e.tags[e.posts[s].tag].de
    ELSE InOwnWords(e.tags[e.posts[s].tag], k)

LEMMA MeantPostIs ==
    ASSUME NEW k \in PostKeys, k.route \in {"posts", "events", "detail"},
           NEW e \in PostEditions, NEW s \in PostSlugs
    PROVE  /\ s \in Shown(e, Selected(k, e)) =>
                 /\ Meant(k, e, s) # None
                 /\ Meant(k, e, s) = [slug |-> s, rev |-> e.posts[s].rev,
                                      text |-> InOwnWords(e.posts[s], k),
                                      tag |-> [slug |-> e.posts[s].tag, name |-> TagMeant(k, e, s)]]
           /\ s \notin Shown(e, Selected(k, e)) => Meant(k, e, s) = None
<1>0. Docs(k, e) = e.posts /\ k.route \notin {"tags", "channels"}
    BY DEF Docs
<1>1. CASE e.posts[s] = None
    BY <1>0, <1>1 DEF Meant, Shown, Selected, Published
<1>2. CASE e.posts[s] # None
    <2> DEFINE p == e.posts[s]
               usable == p.tag \in Published(e.tags) /\ p.primary \in Published(e.channels)
               shown == CASE k.route = "posts" -> p.open /\ OfChannels(k, e, p) /\ OfTags(k, e, p)
                          [] k.route = "events" ->
                               /\ p.tag = EventTag /\ e.tags[EventTag].active /\ OfChannels(k, e, p)
                               /\ p.from # None
                               /\ \E day \in k.from .. k.to :
                                     p.from <= day /\ day <= (IF p.to = None THEN p.from ELSE p.to)
                          [] OTHER -> k.slug = s
               told == [slug |-> s, rev |-> p.rev, text |-> InOwnWords(p, k),
                        tag |-> [slug |-> p.tag, name |-> TagMeant(k, e, s)]]
    <2>1. s \in Published(e.posts)
        BY <1>2, Domains DEF Published
    <2>2. Meant(k, e, s) = IF ~usable \/ ~shown THEN None ELSE told
        BY <1>0, <1>2 DEF Meant, MeantPost, TagMeant
    <2>3. /\ p.rev \in Nat /\ p.tag \in TagSlugs \cup {None} /\ p.de \in German
          /\ p.en \in English \cup {None} /\ p.from \in Day /\ p.to \in Day
          /\ (p.from # None /\ p.to # None => p.from <= p.to)
        BY <2>1, PostDocs
    <2>4. ASSUME usable PROVE shown <=> s \in Selected(k, e)
        <3>1. CASE k.route = "posts"
            BY <2>1, <3>1 DEF Selected, InFeed
        <3>2. CASE k.route = "detail"
            BY <2>1, <3>2 DEF Selected
        <3>3. CASE k.route = "events"
            <4>1. p.tag = EventTag => (e.tags[EventTag].active <=> EventTag \in Active(e.tags))
                BY <2>4 DEF Active
            <4>2. p.from # None =>
                    (During(k, p) <=> \E day \in k.from .. k.to :
                        p.from <= day /\ day <= (IF p.to = None THEN p.from ELSE p.to))
                <5>1. ASSUME p.from # None
                      PROVE  During(k, p) <=> \E day \in k.from .. k.to :
                               p.from <= day /\ day <= (IF p.to = None THEN p.from ELSE p.to)
                    <6>1. p.from \in Int
                        BY <2>3, <5>1 DEF Day
                    <6>2. PICK from \in Int, to \in Day : from = p.from /\ to = p.to
                        BY <2>3, <6>1
                    <6> HIDE DEF p
                    <6>3. to # None => from <= to
                        BY <2>3, <5>1, <6>2
                    <6> QED
                        BY <3>3, <5>1, <6>2, <6>3, DuringIs DEF During
                <5> QED
                    BY <5>1
            <4>3. During(k, p) => p.from # None
                BY DEF During
            <4>4. s \in Selected(k, e) <=> IsEvent(k, e, p)
                BY <2>1, <3>3 DEF Selected
            <4> QED
                BY <3>3, <4>1, <4>2, <4>3, <4>4 DEF IsEvent
        <3> QED
            BY <3>1, <3>2, <3>3
    <2>5. ASSUME usable PROVE told # None
        <3>1. InOwnWords(p, k) \in Text
            BY <2>3 DEF InOwnWords, Text
        <3>2. p.tag \in TagSlugs /\ TagMeant(k, e, s) \in Text
            BY <2>5, TagDocs DEF TagMeant, InOwnWords, Text
        <3>3. told \in PostTold
            <4>1. [slug |-> p.tag, name |-> TagMeant(k, e, s)] \in TagRow
                BY <3>2 DEF TagRow
            <4> HIDE DEF p
            <4> QED
                BY <2>3, <3>1, <4>1 DEF PostTold
        <3> QED
            BY <3>3, ContentAssumption, TextsAssumption
    <2>6. s \in Shown(e, Selected(k, e)) <=> usable /\ s \in Selected(k, e)
        BY DEF Shown, Usable
    <2> HIDE DEF usable, shown, told
    <2>7. CASE usable /\ shown
        <3>1. Meant(k, e, s) = told /\ told # None /\ s \in Shown(e, Selected(k, e))
            BY <2>2, <2>4, <2>5, <2>6, <2>7
        <3> QED
            BY <3>1 DEF told
    <2>8. CASE ~(usable /\ shown)
        <3>1. Meant(k, e, s) = None /\ s \notin Shown(e, Selected(k, e))
            BY <2>2, <2>4, <2>6, <2>8
        <3> QED
            BY <3>1
    <2> QED
        BY <2>7, <2>8
<1> QED
    BY <1>1, <1>2

(***************************************************************************)
(* An answer from two editions against what is meant in them               *)
(***************************************************************************)
Both(k, e, f) == /\ k \in PostKeys /\ e \in PostEditions /\ f \in PostEditions
                 /\ PostsSecond(k, f, PostsFirst(k, e)) # None

(* An item is meant in the first of the editions, its text is of either.   *)
TextFrom(k, e, f, x) ==
    /\ x.rev = Docs(k, e)[x.slug].rev
    /\ \/ x.text = Docs(k, e)[x.slug].de
       \/ Docs(k, f)[x.slug] # None /\ x.text = Docs(k, f)[x.slug].en

LEMMA ItemsMeant ==
    ASSUME NEW k, NEW e, NEW f, Both(k, e, f), PostsFrom(k, e, f) # None,
           NEW x \in PostsFrom(k, e, f).items
    PROVE  Meant(k, e, x.slug) # None /\ (k.route # "tags" => TextFrom(k, e, f, x))
<1>0. k \in PostKeys /\ e \in PostEditions /\ f \in PostEditions /\ PostsSecond(k, f, PostsFirst(k, e)) # None
    BY DEF Both
<1>1. CASE k.route = "tags"
    <2>1. PICK t \in Active(e.tags) : x = TagItem(k, e, f, t)
        BY <1>0, <1>1, TagsAnswer
    <2>2. x.slug = t /\ t \in TagSlugs
        BY <1>0, <2>1, TagDocs DEF TagItem, Active
    <2> QED
        BY <1>0, <1>1, <2>2, MeantTag
<1>2. CASE k.route = "channels"
    <2>1. PICK c \in Active(e.channels) : x = ChannelItem(k, e, f, c)
        BY <1>0, <1>2, ChannelsAnswer
    <2>2. /\ x.slug = c /\ x.rev = e.channels[c].rev
          /\ x.text = IF ChannelOwn(k, f, c) THEN f.channels[c].en ELSE e.channels[c].de
        BY <2>1 DEF ChannelItem
    <2>3. c \in ChannelSlugs
        BY <1>0, ChannelDocs DEF Active
    <2>4. Docs(k, e) = e.channels /\ Docs(k, f) = f.channels
        BY <1>2 DEF Docs
    <2>5. ChannelOwn(k, f, c) => f.channels[c] # None
        BY DEF ChannelOwn, Active, Published
    <2>6. Meant(k, e, c) # None
        BY <1>0, <1>2, <2>3, MeantChannel
    <2> QED
        BY <2>2, <2>4, <2>5, <2>6 DEF TextFrom
<1>3. CASE k.route \in {"posts", "events", "detail"}
    <2>1. PICK s \in Shown(e, Selected(k, e)) : x = PostItem(k, e, f, s)
        BY <1>0, <1>3, PostsAnswerIs DEF PostItems
    <2>2. s \in Published(e.posts) /\ Usable(e, s)
        BY SelectedPublished DEF Shown
    <2>3. /\ x.slug = s /\ x.rev = e.posts[s].rev
          /\ x.text = IF PostOwn(k, f, s) THEN f.posts[s].en ELSE e.posts[s].de
        BY <1>0, <2>1, <2>2, ItemIs
    <2>4. s \in PostSlugs
        BY <1>0, <2>2, PostDocs
    <2>5. Docs(k, e) = e.posts /\ Docs(k, f) = f.posts
        BY <1>3 DEF Docs
    <2>6. PostOwn(k, f, s) => f.posts[s] # None
        BY DEF PostOwn, Published
    <2>7. Meant(k, e, s) # None
        BY <1>0, <1>3, <2>4, MeantPostIs
    <2> QED
        BY <2>3, <2>5, <2>6, <2>7 DEF TextFrom
<1> QED
    BY <1>0, <1>1, <1>2, <1>3 DEF PostKeys, PostRoutes

(* What means the same in both editions, in the same language, is told     *)
(* just like that.                                                         *)
ToldOf(k, items, s) ==
    LET x == EntryOf(items, s)
    IN  IF x = None \/ k.route \in {"tags", "channels"} THEN x
        ELSE [slug |-> s, rev |-> x.rev, text |-> x.text, tag |-> x.tag]
Steady(k, e, f, s) ==
    Meant(k, e, s) = Meant(k, f, s) /\ InEnglish(k, e, s) = InEnglish(k, f, s)

LEMMA SteadyTags ==
    ASSUME NEW k, NEW e, NEW f, Both(k, e, f), k.route = "tags",
           NEW s \in TagSlugs, Steady(k, e, f, s)
    PROVE  ToldOf(k, PostsFrom(k, e, f).items, s) = Meant(k, e, s)
<1> DEFINE items == PostsFrom(k, e, f).items
<1>0. /\ k \in PostKeys /\ e \in PostEditions /\ f \in PostEditions
      /\ Docs(k, e) = e.tags /\ Docs(k, f) = f.tags
    BY DEF Both, Docs
<1>1. items = {TagItem(k, e, f, t) : t \in Active(e.tags)}
    BY TagsAnswer DEF Both
<1>2. \A t : TagItem(k, e, f, t).slug = t
    BY DEF TagItem
<1> HIDE DEF items
<1>3. ToldOf(k, items, s) = EntryOf(items, s)
    BY DEF ToldOf
<1>4. CASE s \notin Active(e.tags)
    <2>1. \A y \in items : y.slug # s
        BY <1>1, <1>2, <1>4
    <2>2. EntryOf(items, s) = None
        BY <2>1, NoEntry
    <2>3. Meant(k, e, s) = None
        BY <1>0, <1>4, MeantTag
    <2> QED
        BY <1>3, <2>2, <2>3 DEF items
<1>5. CASE s \in Active(e.tags)
    <2>1. TagItem(k, e, f, s) \in items /\ \A y \in items : y.slug = s => y = TagItem(k, e, f, s)
        BY <1>1, <1>2, <1>5
    <2>2. EntryOf(items, s) = TagItem(k, e, f, s)
        BY <1>2, <2>1, TheEntry
    <2>3. /\ Meant(k, e, s) # None
          /\ Meant(k, e, s) = [slug |-> s, name |-> InOwnWords(e.tags[s], k)]
        BY <1>0, <1>5, MeantTag
    <2>4. s \in Active(f.tags)
        BY <1>0, <2>3, MeantTag DEF Steady
    <2>5. Meant(k, f, s) = [slug |-> s, name |-> InOwnWords(f.tags[s], k)]
        BY <1>0, <2>4, MeantTag
    <2>6. InOwnWords(e.tags[s], k) = InOwnWords(f.tags[s], k)
        <3>1. Meant(k, e, s).name = Meant(k, f, s).name
            BY DEF Steady
        <3> QED
            BY <2>3, <2>5, <3>1
    <2>7. e.tags[s].en # None <=> f.tags[s].en # None
        BY <1>0, <2>3 DEF Steady, InEnglish
    <2>8. (IF TagOwn(k, f, s) THEN f.tags[s].en ELSE e.tags[s].de) = InOwnWords(e.tags[s], k)
        BY <2>4, <2>6, <2>7 DEF TagOwn, InOwnWords
    <2> QED
        BY <1>3, <2>2, <2>3, <2>8 DEF TagItem, items
<1> QED
    BY <1>4, <1>5

LEMMA SteadyChannels ==
    ASSUME NEW k, NEW e, NEW f, Both(k, e, f), k.route = "channels",
           NEW s \in ChannelSlugs, Steady(k, e, f, s)
    PROVE  ToldOf(k, PostsFrom(k, e, f).items, s) = Meant(k, e, s)
<1> DEFINE items == PostsFrom(k, e, f).items
<1>0. /\ k \in PostKeys /\ e \in PostEditions /\ f \in PostEditions
      /\ Docs(k, e) = e.channels /\ Docs(k, f) = f.channels
    BY DEF Both, Docs
<1>1. items = {ChannelItem(k, e, f, c) : c \in Active(e.channels)}
    BY ChannelsAnswer DEF Both
<1>2. \A c : ChannelItem(k, e, f, c).slug = c
    BY DEF ChannelItem
<1> HIDE DEF items
<1>3. ToldOf(k, items, s) = EntryOf(items, s)
    BY DEF ToldOf
<1>4. CASE s \notin Active(e.channels)
    <2>1. \A y \in items : y.slug # s
        BY <1>1, <1>2, <1>4
    <2>2. EntryOf(items, s) = None
        BY <2>1, NoEntry
    <2>3. Meant(k, e, s) = None
        BY <1>0, <1>4, MeantChannel
    <2> QED
        BY <1>3, <2>2, <2>3 DEF items
<1>5. CASE s \in Active(e.channels)
    <2>1. /\ ChannelItem(k, e, f, s) \in items
          /\ \A y \in items : y.slug = s => y = ChannelItem(k, e, f, s)
        BY <1>1, <1>2, <1>5
    <2>2. EntryOf(items, s) = ChannelItem(k, e, f, s)
        BY <1>2, <2>1, TheEntry
    <2>3. /\ Meant(k, e, s) # None
          /\ Meant(k, e, s) = [slug |-> s, rev |-> e.channels[s].rev,
                               text |-> InOwnWords(e.channels[s], k)]
        BY <1>0, <1>5, MeantChannel
    <2>4. s \in Active(f.channels)
        BY <1>0, <2>3, MeantChannel DEF Steady
    <2>5. Meant(k, f, s) = [slug |-> s, rev |-> f.channels[s].rev,
                           text |-> InOwnWords(f.channels[s], k)]
        BY <1>0, <2>4, MeantChannel
    <2>6. InOwnWords(e.channels[s], k) = InOwnWords(f.channels[s], k)
        <3>1. Meant(k, e, s).text = Meant(k, f, s).text
            BY DEF Steady
        <3> QED
            BY <2>3, <2>5, <3>1
    <2>7. e.channels[s].en # None <=> f.channels[s].en # None
        BY <1>0, <2>3 DEF Steady, InEnglish
    <2>8. (IF ChannelOwn(k, f, s) THEN f.channels[s].en ELSE e.channels[s].de)
            = InOwnWords(e.channels[s], k)
        BY <2>4, <2>6, <2>7 DEF ChannelOwn, InOwnWords
    <2> QED
        BY <1>3, <2>2, <2>3, <2>8 DEF ChannelItem, items
<1> QED
    BY <1>4, <1>5

LEMMA SteadyPosts ==
    ASSUME NEW k, NEW e, NEW f, Both(k, e, f), k.route \in {"posts", "events", "detail"},
           PostsFrom(k, e, f) # None, NEW s \in PostSlugs, Steady(k, e, f, s)
    PROVE  ToldOf(k, PostsFrom(k, e, f).items, s) = Meant(k, e, s)
<1> DEFINE items == PostsFrom(k, e, f).items
           shown == Shown(e, Selected(k, e))
<1>0. /\ k \in PostKeys /\ e \in PostEditions /\ f \in PostEditions
      /\ Docs(k, e) = e.posts /\ Docs(k, f) = f.posts
    BY DEF Both, Docs
<1>1. items = {PostItem(k, e, f, i) : i \in shown}
    BY PostsAnswerIs DEF Both, PostItems
<1>2. ASSUME NEW i \in shown PROVE i \in Published(e.posts) /\ Usable(e, i)
    BY SelectedPublished DEF Shown
<1>3. \A i \in shown : PostItem(k, e, f, i).slug = i
    BY <1>0, <1>2, ItemIs
<1> HIDE DEF items, shown
<1>4. CASE s \notin shown
    <2>1. \A y \in items : y.slug # s
        BY <1>1, <1>3, <1>4
    <2>2. EntryOf(items, s) = None
        BY <2>1, NoEntry
    <2>3. Meant(k, e, s) = None
        BY <1>0, <1>4, MeantPostIs DEF shown
    <2> QED
        BY <2>2, <2>3 DEF items, ToldOf
<1>5. CASE s \in shown
    <2> DEFINE x == PostItem(k, e, f, s)
               p == e.posts[s]
               q == f.posts[s]
    <2>1. x \in items /\ \A y \in items : y.slug = s => y = x
        BY <1>1, <1>3, <1>5
    <2>2. EntryOf(items, s) = x
        BY <1>3, <1>5, <2>1, TheEntry
    <2>3. /\ x # None /\ x.rev = p.rev
          /\ x.text = (IF PostOwn(k, f, s) THEN q.en ELSE p.de)
          /\ x.tag = [slug |-> p.tag, name |-> TagTold(k, e, f, s)]
        BY <1>0, <1>2, <1>5, ItemIs
    <2>4. /\ Meant(k, e, s) # None
          /\ Meant(k, e, s) = [slug |-> s, rev |-> p.rev, text |-> InOwnWords(p, k),
                               tag |-> [slug |-> p.tag, name |-> TagMeant(k, e, s)]]
        BY <1>0, <1>5, MeantPostIs DEF shown
    <2>5. s \in Shown(f, Selected(k, f))
        BY <1>0, <2>4, MeantPostIs DEF Steady
    <2>6. Meant(k, f, s) = [slug |-> s, rev |-> q.rev, text |-> InOwnWords(q, k),
                           tag |-> [slug |-> q.tag, name |-> TagMeant(k, f, s)]]
        BY <1>0, <2>5, MeantPostIs
    <2>7. s \in Published(f.posts) /\ Usable(f, s)
        BY <2>5, SelectedPublished DEF Shown
    <2> HIDE DEF x, p, q
    <2>8. /\ InOwnWords(p, k) = InOwnWords(q, k) /\ p.tag = q.tag
          /\ TagMeant(k, e, s) = TagMeant(k, f, s)
        <3>1. Meant(k, e, s).text = Meant(k, f, s).text /\ Meant(k, e, s).tag = Meant(k, f, s).tag
            BY DEF Steady
        <3>2. [slug |-> p.tag, name |-> TagMeant(k, e, s)] = [slug |-> q.tag, name |-> TagMeant(k, f, s)]
            BY <2>4, <2>6, <3>1
        <3>3. InOwnWords(p, k) = InOwnWords(q, k)
            BY <2>4, <2>6, <3>1
        <3>4. /\ [slug |-> p.tag, name |-> TagMeant(k, e, s)].slug
                   = [slug |-> q.tag, name |-> TagMeant(k, f, s)].slug
              /\ [slug |-> p.tag, name |-> TagMeant(k, e, s)].name
                   = [slug |-> q.tag, name |-> TagMeant(k, f, s)].name
            BY <3>2
        <3> QED
            BY <3>3, <3>4
    <2>9. p.en # None <=> q.en # None
        BY <1>0, <2>4 DEF Steady, InEnglish, p, q
    <2>10. (IF PostOwn(k, f, s) THEN q.en ELSE p.de) = InOwnWords(p, k)
        BY <2>7, <2>8, <2>9 DEF PostOwn, InOwnWords, q
    <2>11. TagTold(k, e, f, s) = TagMeant(k, e, s)
        <3> DEFINE t == p.tag
        <3>1. t \in Published(e.tags) /\ t \in Published(f.tags)
            BY <1>2, <1>5, <2>7, <2>8 DEF Usable, p, q
        <3>2. /\ e.tags[t].de \in German /\ e.tags[t].en \in English \cup {None}
              /\ f.tags[t].de \in German /\ f.tags[t].en \in English \cup {None}
            BY <1>0, <3>1, TagDocs
        <3>3. PostOwn(k, f, s) <=> Localised(k) /\ q.en # None
            BY <2>7 DEF PostOwn, q
        <3>4. TagTold(k, e, f, s) = IF Localised(k) /\ q.en # None /\ f.tags[t].en # None
                                   THEN f.tags[t].en ELSE e.tags[t].de
            BY <2>8, <3>1, <3>3 DEF TagTold, p, q
        <3>5. /\ TagMeant(k, e, s) = IF p.en = None THEN e.tags[t].de ELSE InOwnWords(e.tags[t], k)
              /\ TagMeant(k, f, s) = IF q.en = None THEN f.tags[t].de ELSE InOwnWords(f.tags[t], k)
            BY <2>8 DEF TagMeant, p, q
        <3>6. German \cap English = {} /\ None \notin German
            BY ContentAssumption, TextsAssumption
        <3> HIDE DEF t
        <3>7. CASE q.en = None
            BY <2>9, <3>4, <3>5, <3>7
        <3>8. CASE q.en # None /\ ~Localised(k)
            BY <2>9, <3>4, <3>5, <3>8 DEF InOwnWords
        <3>9. CASE q.en # None /\ Localised(k)
            <4>1. TagMeant(k, e, s) = (IF e.tags[t].en # None THEN e.tags[t].en ELSE e.tags[t].de)
                  /\ TagMeant(k, f, s) = (IF f.tags[t].en # None THEN f.tags[t].en ELSE f.tags[t].de)
                BY <2>9, <3>5, <3>9 DEF InOwnWords
            <4>2. CASE f.tags[t].en # None
                BY <2>8, <3>4, <3>9, <4>1, <4>2
            <4>3. CASE f.tags[t].en = None
                <5>1. e.tags[t].en = None
                    BY <2>8, <3>2, <3>6, <4>1, <4>3
                <5> QED
                    BY <3>4, <4>1, <4>3, <5>1
            <4> QED
                BY <4>2, <4>3
        <3> QED
            BY <3>7, <3>8, <3>9
    <2>12. ToldOf(k, items, s) = [slug |-> s, rev |-> x.rev, text |-> x.text, tag |-> x.tag]
        BY <2>2, <2>3 DEF ToldOf
    <2> QED
        BY <2>3, <2>4, <2>10, <2>11, <2>12 DEF items
<1> QED
    BY <1>4, <1>5

(* Without the flag nothing is German.                                     *)
LEMMA HonestAnswer ==
    ASSUME NEW k, NEW e, NEW f, Both(k, e, f), Localised(k), PostsFrom(k, e, f) # None,
           ~PostsFrom(k, e, f).fallback, NEW x \in PostsFrom(k, e, f).items
    PROVE  TextsOf(k, x) \cap German = {}
<1>0. /\ k \in PostKeys /\ e \in PostEditions /\ f \in PostEditions
      /\ PostsSecond(k, f, PostsFirst(k, e)) # None
      /\ (English \cup {Blank}) \cap German = {}
    BY ContentAssumption, TextsAssumption DEF Both
<1>1. CASE k.route = "tags"
    <2>1. PICK t \in Active(e.tags) : x = TagItem(k, e, f, t)
        BY <1>0, <1>1, TagsAnswer
    <2>2. TagOwn(k, f, t)
        BY <1>0, <1>1, TagsAnswer
    <2>3. x.name \in English
        BY <1>0, <2>1, <2>2, TagTranslation DEF TagItem
    <2> QED
        BY <1>0, <1>1, <2>3 DEF TextsOf
<1>2. CASE k.route = "channels"
    <2>1. PICK c \in Active(e.channels) : x = ChannelItem(k, e, f, c)
        BY <1>0, <1>2, ChannelsAnswer
    <2>2. ChannelOwn(k, f, c) \/ e.channels[c].de = Blank
        BY <1>0, <1>2, ChannelsAnswer
    <2>3. x.text \in English \cup {Blank}
        BY <1>0, <2>1, <2>2, ChannelTranslation DEF ChannelItem
    <2> QED
        BY <1>0, <1>2, <2>3 DEF TextsOf
<1>3. CASE k.route \in {"posts", "events", "detail"}
    <2>1. PICK s \in Shown(e, Selected(k, e)) : x = PostItem(k, e, f, s)
        BY <1>0, <1>3, PostsAnswerIs DEF PostItems
    <2>2. s \in Selected(k, e) /\ s \in Published(e.posts) /\ Usable(e, s)
        BY SelectedPublished DEF Shown
    <2>3. ~Lacking(k, e, f, s)
        <3>1. ~FeedLacks(k, e, f, Selected(k, e))
            BY <1>0, <1>3, PostsAnswerIs
        <3> QED
            BY <2>2, <3>1 DEF FeedLacks
    <2> DEFINE raw == PostEntry(e, s, "de")
               q == f.posts[s]
    <2>4. PostOwn(k, f, s)
        BY <2>3 DEF Lacking, Untranslated
    <2>5. s \in Published(f.posts) /\ q.en \in English /\ q.tag \in TagSlugs \cup {None}
        BY <1>0, <2>4, PostDocs DEF PostOwn
    <2>6. raw.tag # None
        <3>1. raw.tag = TagIn(e, e.posts[s].tag, "de")
            BY DEF PostEntry
        <3>2. e.posts[s].tag \in TagSlugs \cup {None}
            BY <1>0, <2>2, PostDocs
        <3> QED
            BY <1>0, <2>2, <3>1, <3>2, TagsIn DEF Usable
    <2>7. ~NameMissing(raw.tag, PostEntry(f, s, "en").tag)
        BY <2>3, <2>4 DEF Lacking, Untranslated
    <2>8. TagIn(f, q.tag, "en") # None /\ TagIn(f, q.tag, "en").name # None
        <3>1. PostEntry(f, s, "en").tag = TagIn(f, q.tag, "en")
            BY DEF PostEntry
        <3> HIDE DEF raw
        <3> QED
            BY <2>6, <2>7, <3>1 DEF NameMissing
    <2>9. q.tag \in Published(f.tags) /\ f.tags[q.tag].en # None
        BY <1>0, <2>5, <2>8, TagsIn
    <2>10. TagTold(k, e, f, s) \in English
        BY <1>0, <2>4, <2>9, TagDocs DEF TagTold
    <2>11. x.text = q.en /\ x.tag.name = TagTold(k, e, f, s)
        <3>1. /\ x.text = (IF PostOwn(k, f, s) THEN f.posts[s].en ELSE e.posts[s].de)
              /\ x.tag = [slug |-> e.posts[s].tag, name |-> TagTold(k, e, f, s)]
            BY <1>0, <2>1, <2>2, ItemIs
        <3> QED
            BY <2>4, <3>1
    <2> HIDE DEF q, raw
    <2> QED
        BY <1>0, <1>3, <2>5, <2>10, <2>11 DEF TextsOf
<1> QED
    BY <1>0, <1>1, <1>2, <1>3 DEF PostKeys, PostRoutes

(* Only a post that is asked for by its slug is ever missing.              *)
LEMMA MissingMeant ==
    ASSUME NEW k, NEW e, NEW f, Both(k, e, f), PostsFrom(k, e, f) = None
    PROVE  Meant(k, e, k.slug) = None
<1>0. k \in PostKeys /\ e \in PostEditions /\ f \in PostEditions
    BY DEF Both
<1>1. k.route \notin {"tags", "channels"}
    BY TagsAnswer, ChannelsAnswer DEF Both
<1>2. k.route \in {"posts", "events", "detail"}
    BY <1>0, <1>1 DEF PostKeys, PostRoutes
<1>3. k.route = "detail" /\ Shown(e, Selected(k, e)) = {}
    BY <1>2, PostsAnswerIs DEF Both
<1>4. k.slug \in PostSlugs
    BY <1>0, <1>3 DEF PostKeys, PostRoutes
<1> QED
    BY <1>0, <1>2, <1>3, <1>4, MeantPostIs

(* Who selects no channel or no tag is meant to be told nothing.           *)
LEMMA UnaskedMeant ==
    ASSUME NEW k \in PostKeys, PostsUnasked(k), NEW e \in PostEditions, NEW s \in PostSlugs
    PROVE  Meant(k, e, s) = None
<1>1. k.route \in {"posts", "events"} /\ {} \in {k.channels, k.tags}
    BY DEF PostsUnasked, IsList
<1>2. k.channels # {} => k.route = "posts" /\ k.tags = {}
    BY <1>1, ContentAssumption, TextsAssumption DEF PostKeys, PostRoutes
<1>3. SUFFICES ASSUME s \in Selected(k, e) PROVE FALSE
    BY <1>1, MeantPostIs DEF Shown
<1>4. OfChannels(k, e, e.posts[s]) /\ (k.route = "posts" => OfTags(k, e, e.posts[s]))
    BY <1>1, <1>3 DEF Selected, InFeed, IsEvent
<1>5. None # {}
    BY TextsAssumption
<1>6. k.channels # {}
    BY <1>4, <1>5 DEF OfChannels
<1> QED
    BY <1>2, <1>4, <1>5, <1>6 DEF OfTags

(***************************************************************************)
(* The properties of posts                                                 *)
(***************************************************************************)
LEMMA BothOf ==
    ASSUME NEW s \in Scenarios, NEW k \in s.keys, k.route \in PostRoutes,
           NEW e \in s.editions, NEW f \in s.editions
    PROVE  Both(k, e, f) /\ AnswerFrom(k, e, f) = PostsFrom(k, e, f)
<1>1. Both(k, e, f)
    BY PostsAssumption, ContentAssumption DEF Both
<1> DEFINE first == PostsFirst(k, e)
           second == PostsSecond(k, f, first)
<1>2. /\ First(k, e) = first /\ More(k, first) = PostsMore(k, first)
      /\ Second(k, f, first) = second
      /\ Merge(k, first, None) = PostsMerge(k, first, None)
      /\ Merge(k, first, second) = PostsMerge(k, first, second)
    BY PostsAssumption
<1> HIDE DEF first, second
<1>3. AnswerFrom(k, e, f) = PostsMerge(k, first, IF PostsMore(k, first) THEN second ELSE None)
    BY <1>2 DEF AnswerFrom
<1> QED
    BY <1>1, <1>3 DEF PostsFrom, first, second

LEMMA PostsServedFrom ==
    ASSUME Inv, PostsServed
    PROVE  LET k == answer.key IN
           /\ k \in PostKeys /\ answer.value # None /\ cms \in PostEditions
           /\ \A e \in Recent(k) : e \in PostEditions
           /\ \/ PostsUnasked(k) /\ answer.value = PostsEmpty(k)
              \/ \E e, f \in Recent(k) : Both(k, e, f) /\ answer.value = PostsFrom(k, e, f)
<1> DEFINE k == answer.key
<1>1. /\ scope \in Scenarios /\ k \in scope.keys /\ answer.value # None
      /\ Recent(k) \subseteq scope.editions /\ cms \in scope.editions
    BY ServedFrom DEF PostsServed, Inv, Typed
<1>2. k.route \in PostRoutes
    BY DEF PostsServed
<1>3. k \in PostKeys /\ scope.editions \subseteq PostEditions
    BY <1>1, <1>2, ContentAssumption
<1>4. Unasked(k) = PostsUnasked(k) /\ Empty(k) = PostsEmpty(k)
    BY <1>1, <1>2, PostsAssumption
<1>5. \A e, f \in Recent(k) : Both(k, e, f) /\ AnswerFrom(k, e, f) = PostsFrom(k, e, f)
    BY <1>1, <1>2, BothOf
<1> QED
    BY <1>1, <1>3, <1>4, <1>5, ServedFrom DEF PostsServed

LEMMA PostsWithdrawn == Inv => PostsWithdrawnSoon
<1> SUFFICES ASSUME Inv, PostsServed, NEW x \in answer.value.items
             PROVE  LET k == answer.key
                        meant == {Meant(k, e, x.slug) : e \in Recent(k)} \ {None}
                        words == {Docs(k, e)[x.slug] : e \in Recent(k)} \ {None}
                    IN  /\ meant # {}
                        /\ k.route # "tags" => x.text \in {d.de : d \in words} \cup {d.en : d \in words}
                                             /\ x.rev \in {d.rev : d \in words}
    BY DEF PostsWithdrawnSoon
<1> DEFINE k == answer.key
           meant == {Meant(k, e, x.slug) : e \in Recent(k)} \ {None}
           words == {Docs(k, e)[x.slug] : e \in Recent(k)} \ {None}
<1>1. k \in PostKeys /\ answer.value # None
    BY PostsServedFrom
<1>2. ~(PostsUnasked(k) /\ answer.value = PostsEmpty(k))
    BY DEF PostsEmpty
<1>3. PICK e \in Recent(k), f \in Recent(k) : Both(k, e, f) /\ answer.value = PostsFrom(k, e, f)
    BY <1>2, PostsServedFrom
<1>4. Meant(k, e, x.slug) # None /\ (k.route # "tags" => TextFrom(k, e, f, x))
    BY <1>1, <1>3, ItemsMeant
<1>5. meant # {}
    BY <1>4
<1>6. ASSUME k.route # "tags"
      PROVE  /\ x.text \in {d.de : d \in words} \cup {d.en : d \in words}
             /\ x.rev \in {d.rev : d \in words}
    <2>1. Docs(k, e)[x.slug] \in words
        BY <1>4 DEF Meant
    <2>2. Docs(k, f)[x.slug] # None => Docs(k, f)[x.slug] \in words
        OBVIOUS
    <2>3. TextFrom(k, e, f, x)
        BY <1>4, <1>6
    <2> HIDE DEF words
    <2> QED
        BY <2>1, <2>2, <2>3 DEF TextFrom
<1> QED
    BY <1>5, <1>6

LEMMA PostsSteady == Inv => PostsSteadyServed
<1> SUFFICES ASSUME Inv, PostsServed, NEW s \in Slugs(answer.key),
                    \A e, f \in Recent(answer.key) : Steady(answer.key, e, f, s),
                    NEW d \in Recent(answer.key)
             PROVE  Told(answer.key, s) = Meant(answer.key, d, s)
    BY DEF PostsSteadyServed, Steady
<1> DEFINE k == answer.key
<1>0. k \in PostKeys /\ answer.value # None
    BY PostsServedFrom
<1>1. Told(k, s) = ToldOf(k, answer.value.items, s)
    BY DEF Told, ToldOf
<1>2. cms \in PostEditions
    BY PostsServedFrom
<1>3. CASE PostsUnasked(k) /\ answer.value = PostsEmpty(k)
    <2>1. EntryOf({}, s) = None
        BY NoEntry
    <2>2. ToldOf(k, answer.value.items, s) = None
        BY <1>3, <2>1 DEF ToldOf, PostsEmpty
    <2>3. s \in PostSlugs
        BY <1>2, <1>3, Domains DEF Slugs, Docs, PostsUnasked, IsList
    <2>4. d \in PostEditions
        BY PostsServedFrom
    <2>5. Meant(k, d, s) = None
        BY <1>0, <1>3, <2>3, <2>4, UnaskedMeant
    <2> QED
        BY <1>1, <2>2, <2>5
<1>4. CASE ~(PostsUnasked(k) /\ answer.value = PostsEmpty(k))
    <2>1. PICK e \in Recent(k), f \in Recent(k) :
                 Both(k, e, f) /\ answer.value = PostsFrom(k, e, f)
        BY <1>4, PostsServedFrom
    <2>2. Steady(k, e, f, s) /\ Meant(k, e, s) = Meant(k, d, s)
        BY <2>1 DEF Steady
    <2>3. ToldOf(k, PostsFrom(k, e, f).items, s) = Meant(k, e, s)
        <3>1. CASE k.route = "tags"
            <4>1. s \in TagSlugs
                BY <1>2, <3>1, Domains DEF Slugs, Docs
            <4> QED
                BY <2>1, <2>2, <3>1, <4>1, SteadyTags
        <3>2. CASE k.route = "channels"
            <4>1. s \in ChannelSlugs
                BY <1>2, <3>2, Domains DEF Slugs, Docs
            <4> QED
                BY <2>1, <2>2, <3>2, <4>1, SteadyChannels
        <3>3. CASE k.route \in {"posts", "events", "detail"}
            <4>1. s \in PostSlugs
                BY <1>2, <3>3, Domains DEF Slugs, Docs
            <4> QED
                BY <1>0, <2>1, <2>2, <3>3, <4>1, SteadyPosts
        <3> QED
            BY <1>0, <3>1, <3>2, <3>3 DEF PostKeys, PostRoutes
    <2> QED
        BY <1>1, <2>1, <2>2, <2>3
<1> QED
    BY <1>3, <1>4

LEMMA PostsHonest == Inv => FallbackHonest
<1> SUFFICES ASSUME Inv, PostsServed, Localised(answer.key), ~answer.value.fallback,
                    NEW x \in answer.value.items
             PROVE  TextsOf(answer.key, x) \cap German = {}
    BY DEF FallbackHonest
<1>1. ~(PostsUnasked(answer.key) /\ answer.value = PostsEmpty(answer.key))
    BY DEF PostsEmpty
<1>2. PICK e \in Recent(answer.key), f \in Recent(answer.key) :
             Both(answer.key, e, f) /\ answer.value = PostsFrom(answer.key, e, f)
    BY <1>1, PostsServedFrom
<1> QED
    BY <1>2, PostsServedFrom, HonestAnswer

LEMMA PostsMiss == Inv => MissFresh
<1> SUFFICES ASSUME Inv, answer # None, answer.kind = "missing", answer.key.route \in PostRoutes
             PROVE  \E e \in JustNow : Meant(answer.key, e, answer.key.slug) = None
    BY DEF MissFresh
<1> DEFINE k == answer.key
<1>1. scope \in Scenarios /\ k \in scope.keys /\ Made(scope.editions, ago, k, None, FetchTime)
    BY DEF Inv, Typed, Keys, AnswerFine
<1>2. PICK e \in scope.editions, f \in scope.editions :
             ago[e] <= FetchTime /\ None = AnswerFrom(k, e, f)
    BY <1>1 DEF Made
<1>3. Meant(k, e, k.slug) = None
    <2>1. Both(k, e, f) /\ AnswerFrom(k, e, f) = PostsFrom(k, e, f)
        BY <1>1, BothOf
    <2> QED
        BY <1>2, <2>1, MissingMeant
<1> QED
    BY <1>2, <1>3 DEF JustNow

(* Nothing is told that was not meant to be told within the time that an   *)
(* answer may be kept, whatever happens between the requests of a build.   *)
THEOREM PostsWithdrawnSoonHolds == Spec => []PostsWithdrawnSoon
<1> QED
    BY Invariance, PostsWithdrawn, PTL

(* What means the same all that time is told just like that.               *)
THEOREM PostsSteadyServedHolds == Spec => []PostsSteadyServed
<1> QED
    BY Invariance, PostsSteady, PTL

(* An English answer without translationFallback holds no German text.     *)
THEOREM FallbackHonestHolds == Spec => []FallbackHonest
<1> QED
    BY Invariance, PostsHonest, PTL

(* POST_NOT_FOUND is told of what is missing now, not of what once was.    *)
THEOREM MissFreshHolds == Spec => []MissFresh
<1> QED
    BY Invariance, PostsMiss, PTL

(***************************************************************************)
(* Contacts: what an answer that is put together from two editions holds   *)
(***************************************************************************)
ContactsFrom(k, e, f) ==
    LET first == ContactsFirst(k, e)
    IN  ContactsMerge(k, first, IF ContactsMore(k, first) THEN ContactsSecond(k, f, first) ELSE None)

BothContacts(k, e, f) == /\ k \in ContactKeys /\ e \in ContactEditions /\ f \in ContactEditions
                         /\ ContactsSecond(k, f, ContactsFirst(k, e)) # None

(* Pages.                                                                  *)
LEMMA Quotients ==
    ASSUME NEW p \in Nat \ {0}, NEW n \in Nat
    PROVE  /\ n \div p \in Nat /\ p * (n \div p) <= n /\ n < p * (n \div p) + p
    OBVIOUS

LEMMA PageNumbers ==
    ASSUME NEW p \in Nat \ {0}, NEW n \in Nat, NEW m \in Nat, n < m, m <= 2 * p
    PROVE  /\ n \div p \in {0, 1}
           /\ n \div p = 1 => (m + p - 1) \div p > 1
<1> DEFINE q == n \div p
           w == (m + p - 1) \div p
<1>1. q \in Nat /\ p * q <= n /\ n < p * q + p
    BY Quotients
<1>2. m + p - 1 \in Nat
    OBVIOUS
<1>3. w \in Nat /\ p * w <= m + p - 1 /\ m + p - 1 < p * w + p
    BY <1>2, Quotients
<1> HIDE DEF q, w
<1>4. q < 2
    BY <1>1
<1>5. q = 1 => w > 1
    BY <1>1, <1>3
<1> QED
    BY <1>1, <1>4, <1>5 DEF q, w

LEMMA RoomDocs ==
    ASSUME NEW e \in ContactEditions, NEW r, Visible(e, r)
    PROVE  /\ r \in RoomKeys /\ e.rooms[r].de \in German \cup {Blank}
           /\ e.rooms[r].en \in English \cup {Blank}
    BY DEF ContactEditions, Visible, Published, RoomDoc

LEMMA PersonDocs ==
    ASSUME NEW e \in ContactEditions, NEW p \in Published(e.persons)
    PROVE  /\ p \in PersonIds /\ e.persons[p].rev \in Nat /\ e.persons[p].rooms \subseteq RoomKeys
           /\ e.persons[p].de \in German \cup {Blank, None}
           /\ e.persons[p].en \in English \cup {Blank, None}
    BY DEF ContactEditions, Published, PersonDoc

LEMMA AreaDocs ==
    ASSUME NEW e \in ContactEditions, NEW s \in Published(e.areas)
    PROVE  /\ s \in AreaSlugs /\ e.areas[s].active \in BOOLEAN /\ e.areas[s].rev \in Nat
           /\ e.areas[s].de \in German \cup {None} /\ e.areas[s].en \in English \cup {None}
           /\ e.areas[s].rooms \subseteq RoomKeys
           /\ e.areas[s].persons \in [{"de", "en"} -> SUBSET PersonIds]
    BY DEF ContactEditions, Published, AreaDoc

LEMMA Shapes ==
    ASSUME NEW e \in ContactEditions
    PROVE  DOMAIN e.areas = AreaSlugs /\ DOMAIN e.rooms = RoomKeys
    BY DEF ContactEditions

(* Rows are what they are declared to be; above all, they are something.   *)
LEMMA RoomsTyped ==
    ASSUME NEW e \in ContactEditions, NEW rooms, NEW l
    PROVE  RoomRefs(e, rooms, l) \subseteq RoomRow
<1> SUFFICES ASSUME NEW r, Visible(e, r) PROVE RoomRef(e, r, l) \in RoomRow
    BY DEF RoomRefs
<1>1. r \in RoomKeys /\ e.rooms[r].de \in Text /\ e.rooms[r].en \in Text
    BY RoomDocs DEF Text
<1> QED
    BY <1>1 DEF RoomRef, RoomRow, NameIn, FallsBack

LEMMA PersonsTyped ==
    ASSUME NEW e \in ContactEditions, NEW a, NEW l \in {"de", "en"}, NEW shown
    PROVE  PersonsIn(e, a, l, shown) \subseteq PersonRow
<1> SUFFICES ASSUME NEW p \in Published(e.persons)
             PROVE  [person |-> p, rev |-> e.persons[p].rev, role |-> e.persons[p][l],
                     rooms |-> RoomRefs(e, e.persons[p].rooms, shown)] \in PersonRow
    BY DEF PersonsIn
<1>1. p \in PersonIds /\ e.persons[p].rev \in Nat
    BY PersonDocs
<1>2. e.persons[p].de \in Text /\ e.persons[p].en \in Text
    BY PersonDocs DEF Text
<1>3. RoomRefs(e, e.persons[p].rooms, shown) \in SUBSET RoomRow
    BY RoomsTyped
<1> QED
    BY <1>1, <1>2, <1>3 DEF PersonRow

LEMMA AreaTyped ==
    ASSUME NEW e \in ContactEditions, NEW s \in Published(e.areas), NEW l \in {"de", "en"}, NEW shown
    PROVE  AreaEntry(e, s, l, shown) \in AreaRow /\ AreaEntry(e, s, l, shown) # None
<1>1. s \in AreaSlugs /\ e.areas[s].rev \in Nat
    BY AreaDocs
<1>2. e.areas[s].de \in Text /\ e.areas[s].en \in Text
    BY AreaDocs DEF Text
<1>3. RoomRefs(e, e.areas[s].rooms, shown) \in SUBSET RoomRow
    BY RoomsTyped
<1>4. PersonsIn(e, e.areas[s], l, shown) \in SUBSET PersonRow
    BY PersonsTyped
<1>5. AreaEntry(e, s, l, shown) \in AreaRow
    BY <1>1, <1>2, <1>3, <1>4 DEF AreaEntry, AreaRow
<1> QED
    BY <1>5, DirectoryAssumption

(* Rows tell what is meant of rooms and persons, and as many persons.      *)
LEMMA RoomsTold ==
    ASSUME NEW e, NEW rooms, NEW l
    PROVE  {<<r.room, r.name>> : r \in RoomRefs(e, rooms, l)} = MeantRooms(e, rooms, l)
<1> DEFINE S == {x \in rooms \cap Catalogue : Visible(e, x)}
<1>1. {<<r.room, r.name>> : r \in {RoomRef(e, x, l) : x \in S}}
         = {<<x, NameIn(e.rooms[x], l)>> : x \in S}
    <2> HIDE DEF S
    <2>1. \A x : RoomRef(e, x, l).room = x /\ RoomRef(e, x, l).name = NameIn(e.rooms[x], l)
        BY DEF RoomRef
    <2> QED
        BY <2>1
<1> QED
    BY <1>1 DEF RoomRefs, MeantRooms

Delivered(e, a, l) ==
    {x \in a.persons[l] \cap Published(e.persons) : e.persons[x][l] # None /\ Delivers(e, x)}

LEMMA PersonsTold ==
    ASSUME NEW e, NEW a, NEW l, NEW shown
    PROVE  {<<p.person, p.rev, p.role, {<<r.room, r.name>> : r \in p.rooms}>> :
               p \in PersonsIn(e, a, l, shown)} = MeantPersons(e, a, l, shown)
<1> DEFINE row(p) == [person |-> p, rev |-> e.persons[p].rev, role |-> e.persons[p][l],
                      rooms |-> RoomRefs(e, e.persons[p].rooms, shown)]
           meant(p) == <<p, e.persons[p].rev, e.persons[p][l],
                         MeantRooms(e, e.persons[p].rooms, shown)>>
           told(x) == <<x.person, x.rev, x.role, {<<r.room, r.name>> : r \in x.rooms}>>
<1>1. PersonsIn(e, a, l, shown) = {row(p) : p \in Delivered(e, a, l)}
    BY DEF PersonsIn, Delivered
<1>2. MeantPersons(e, a, l, shown) = {meant(p) : p \in Delivered(e, a, l)}
    <2>1. Delivered(e, a, l) = {x \in a.persons[l] : /\ x \in Published(e.persons)
                                                   /\ e.persons[x].active
                                                   /\ e.persons[x][l] # None}
        BY DEF Delivered, Delivers
    <2> QED
        BY <2>1 DEF MeantPersons
<1>3. ASSUME NEW p PROVE told(row(p)) = meant(p)
    <2>1. {<<r.room, r.name>> : r \in RoomRefs(e, e.persons[p].rooms, shown)}
             = MeantRooms(e, e.persons[p].rooms, shown)
        BY RoomsTold
    <2> QED
        BY <2>1
<1> HIDE DEF row, meant, told
<1>4. {told(x) : x \in PersonsIn(e, a, l, shown)} = MeantPersons(e, a, l, shown)
    BY <1>1, <1>2, <1>3
<1> QED
    BY <1>4 DEF told

LEMMA SameCount ==
    ASSUME NEW S, NEW T, IsFiniteSet(S), NEW F \in [S -> T],
           \A x, y \in S : F[x] = F[y] => x = y,
           \A t \in T : \E x \in S : F[x] = t
    PROVE  IsFiniteSet(T) /\ Cardinality(T) = Cardinality(S)
<1>1. F \in Bijection(S, T)
    BY DEF Bijection, Injection, Surjection, IsInjective
<1>2. ExistsBijection(S, T)
    BY <1>1 DEF ExistsBijection
<1> QED
    BY <1>2, FS_Bijection

LEMMA PersonsCounted ==
    ASSUME NEW e \in ContactEditions, NEW s \in Published(e.areas), NEW l \in {"de", "en"},
           NEW one, NEW other
    PROVE  Cardinality(PersonsIn(e, e.areas[s], l, one))
              = Cardinality(MeantPersons(e, e.areas[s], l, other))
<1> DEFINE a == e.areas[s]
           P == Delivered(e, a, l)
           row(p) == [person |-> p, rev |-> e.persons[p].rev, role |-> e.persons[p][l],
                      rooms |-> RoomRefs(e, e.persons[p].rooms, one)]
           meant(p) == <<p, e.persons[p].rev, e.persons[p][l],
                         MeantRooms(e, e.persons[p].rooms, other)>>
           rows == {row(p) : p \in P}
           told == {meant(p) : p \in P}
<1>1. IsFiniteSet(P)
    <2>1. a.persons[l] \subseteq PersonIds
        BY AreaDocs
    <2>2. P \in SUBSET PersonIds
        BY <2>1 DEF Delivered
    <2> QED
        BY <2>2, DirectoryAssumption, FS_Subset
<1>2. PersonsIn(e, a, l, one) = rows
    BY DEF PersonsIn, Delivered
<1>3. MeantPersons(e, a, l, other) = told
    <2>1. P = {x \in a.persons[l] : /\ x \in Published(e.persons) /\ e.persons[x].active
                                    /\ e.persons[x][l] # None}
        BY DEF Delivered, Delivers
    <2> QED
        BY <2>1 DEF MeantPersons
<1>4. \A p, q : (row(p) = row(q) => p = q) /\ (meant(p) = meant(q) => p = q)
    <2>1. \A p : row(p).person = p /\ meant(p)[1] = p
        OBVIOUS
    <2> HIDE DEF row, meant
    <2> QED
        BY <2>1
<1> HIDE DEF row, meant, P
<1>5. Cardinality(rows) = Cardinality(P)
    <2> DEFINE F == [p \in P |-> row(p)]
    <2>1. /\ F \in [P -> rows] /\ \A p \in P : F[p] = row(p)
        OBVIOUS
    <2> HIDE DEF F
    <2>2. \A t \in rows : \E p \in P : F[p] = t
        BY <2>1
    <2>3. \A p, q \in P : F[p] = F[q] => p = q
        BY <1>4, <2>1
    <2> QED
        BY <1>1, <2>1, <2>2, <2>3, SameCount
<1>6. Cardinality(told) = Cardinality(P)
    <2> DEFINE F == [p \in P |-> meant(p)]
    <2>1. /\ F \in [P -> told] /\ \A p \in P : F[p] = meant(p)
        OBVIOUS
    <2> HIDE DEF F
    <2>2. \A t \in told : \E p \in P : F[p] = t
        BY <2>1
    <2>3. \A p, q \in P : F[p] = F[q] => p = q
        BY <1>4, <2>1
    <2> QED
        BY <1>1, <2>1, <2>2, <2>3, SameCount
<1> QED
    BY <1>2, <1>3, <1>5, <1>6

(* What the routes for areas tell: an item for each area there is in       *)
(* German, in English where there is that.                                 *)
AreasOf(k, e, l) == {s \in Published(e.areas) : /\ e.areas[s].active /\ e.areas[s][l] # None
                                               /\ k.slug \in {None, s}}
AreaOwn(k, f, s) == Localised(k) /\ s \in AreasOf(k, f, "en")
Spoken(k, f, s) == IF AreaOwn(k, f, s) THEN AreaEntry(f, s, "en", k.locale) ELSE None
AreaItem(k, e, f, s) ==
    LET raw == AreaEntry(e, s, "de", k.locale)
    IN  IF k.route = "areas" THEN Counted(raw, Spoken(k, f, s)) ELSE MergedArea(raw, Spoken(k, f, s))

LEMMA AreaTranslation ==
    ASSUME NEW k \in ContactKeys, ~IsRooms(k), NEW f \in ContactEditions, NEW raw, NEW first,
           ContactsSecond(k, f, first) # None
    PROVE  Overlay(k, IF ContactsMore(k, first) THEN ContactsSecond(k, f, first) ELSE None, raw)
              = Spoken(k, f, raw.slug)
<1> DEFINE entries == AreaEntries(k, f, "en")
           s == raw.slug
<1>1. CASE ~Localised(k)
    BY <1>1 DEF Overlay, Spoken, AreaOwn
<1>2. CASE Localised(k)
    <2>1. k.locale = "en"
        BY <1>2 DEF Localised, ContactKeys
    <2>2. ContactsMore(k, first) /\ ContactsSecond(k, f, first) = entries
        BY <1>2, <2>1 DEF ContactsMore, ContactsSecond
    <2>3. entries = {AreaEntry(f, x, "en", k.locale) : x \in AreasOf(k, f, "en")}
        BY DEF AreaEntries, AreasOf
    <2>4. entries # None
        BY <2>2
    <2>5. \A x : AreaEntry(f, x, "en", k.locale).slug = x
        BY DEF AreaEntry
    <2>6. EntryOf(entries, s) = Spoken(k, f, s)
        <3>1. CASE s \in AreasOf(k, f, "en")
            <4>1. AreaEntry(f, s, "en", k.locale) \in entries
                BY <2>3, <3>1
            <4>2. \A y \in entries : y.slug = s => y = AreaEntry(f, s, "en", k.locale)
                BY <2>3, <2>5
            <4>3. EntryOf(entries, s) = AreaEntry(f, s, "en", k.locale)
                BY <2>5, <4>1, <4>2, TheEntry
            <4> QED
                BY <1>2, <3>1, <4>3 DEF Spoken, AreaOwn
        <3>2. CASE s \notin AreasOf(k, f, "en")
            <4>1. \A y \in entries : y.slug # s
                BY <2>3, <2>5, <3>2
            <4>2. EntryOf(entries, s) = None
                BY <4>1, NoEntry
            <4> QED
                BY <3>2, <4>2 DEF Spoken, AreaOwn
        <3> QED
            BY <3>1, <3>2
    <2> HIDE DEF entries
    <2> QED
        BY <1>2, <2>2, <2>4, <2>6 DEF Overlay
<1> QED
    BY <1>1, <1>2

LEMMA AreasAnswer ==
    ASSUME NEW k, NEW e, NEW f, BothContacts(k, e, f), ~IsRooms(k), ContactsFrom(k, e, f) # None
    PROVE  ContactsFrom(k, e, f).items = {AreaItem(k, e, f, s) : s \in AreasOf(k, e, "de")}
<1> DEFINE first == AreaEntries(k, e, "de")
           second == IF ContactsMore(k, first) THEN ContactsSecond(k, f, first) ELSE None
           x(raw) == Overlay(k, second, raw)
           raw(s) == AreaEntry(e, s, "de", k.locale)
           all == AreasOf(k, e, "de")
<1>1. first = {raw(s) : s \in all}
    BY DEF AreaEntries, AreasOf
<1>2. ContactsFirst(k, e) = first
    BY DEF ContactsFirst
<1>3. \A s : x(raw(s)) = Spoken(k, f, s)
    <2>1. \A s : raw(s).slug = s
        BY DEF AreaEntry
    <2>2. ContactsSecond(k, f, first) # None /\ k \in ContactKeys /\ f \in ContactEditions
        BY <1>2 DEF BothContacts
    <2> HIDE DEF raw, first
    <2> QED
        BY <2>1, <2>2, AreaTranslation
<1>4. ContactsFrom(k, e, f) = ContactsMerge(k, first, second)
    BY <1>2 DEF ContactsFrom
<1>5. k.route \in {"areas", "search", "area"}
    BY DEF BothContacts, ContactKeys, ContactRoutes, IsRooms
<1>6. CASE k.route = "areas"
    <2>1. ContactsFrom(k, e, f).items = {Counted(r, x(r)) : r \in first}
        BY <1>4, <1>6 DEF ContactsMerge, AreasMerged
    <2> HIDE DEF x, raw, first
    <2>2. {Counted(r, x(r)) : r \in first} = {Counted(raw(s), Spoken(k, f, s)) : s \in all}
        BY <1>1, <1>3
    <2> QED
        BY <1>6, <2>1, <2>2 DEF AreaItem, raw
<1>7. CASE k.route # "areas"
    <2>1. ContactsFrom(k, e, f) = SearchMerged(k, first, second)
        BY <1>4, <1>5, <1>7 DEF ContactsMerge, AreaMerged
    <2>2. ContactsFrom(k, e, f).items = {MergedArea(r, x(r)) : r \in first}
        BY <2>1 DEF SearchMerged
    <2> HIDE DEF x, raw, first
    <2>3. {MergedArea(r, x(r)) : r \in first} = {MergedArea(raw(s), Spoken(k, f, s)) : s \in all}
        BY <1>1, <1>3
    <2> QED
        BY <1>7, <2>2, <2>3 DEF AreaItem, raw
<1> QED
    BY <1>6, <1>7

(* What an item is told to be.                                             *)
LEMMA AreaItemIs ==
    ASSUME NEW k \in ContactKeys, NEW e \in ContactEditions, NEW f \in ContactEditions,
           NEW s \in AreasOf(k, e, "de")
    PROVE  LET x == AreaItem(k, e, f, s)
               own == AreaOwn(k, f, s)
           IN  /\ x.slug = s /\ x.rev = e.areas[s].rev
               /\ x.text = IF own THEN f.areas[s].en ELSE e.areas[s].de
               /\ k.route = "areas" =>
                     x.count = Cardinality(PersonsIn(e, e.areas[s], "de", k.locale))
               /\ k.route # "areas" =>
                     /\ x.rooms = RoomRefs(e, e.areas[s].rooms, k.locale)
                     /\ x.persons = IF own THEN PersonsIn(f, f.areas[s], "en", k.locale)
                                    ELSE PersonsIn(e, e.areas[s], "de", k.locale)
<1> DEFINE raw == AreaEntry(e, s, "de", k.locale)
           over == AreaEntry(f, s, "en", k.locale)
<1>1. /\ raw.slug = s /\ raw.rev = e.areas[s].rev /\ raw.text = e.areas[s].de
      /\ raw.rooms = RoomRefs(e, e.areas[s].rooms, k.locale)
      /\ raw.persons = PersonsIn(e, e.areas[s], "de", k.locale)
      /\ DOMAIN raw = {"slug", "rev", "text", "persons", "rooms"}
    BY DEF AreaEntry
<1>2. over.text = f.areas[s].en /\ over.persons = PersonsIn(f, f.areas[s], "en", k.locale)
    BY DEF AreaEntry
<1>3. AreaOwn(k, f, s) => over # None
    BY AreaTyped DEF AreaOwn, AreasOf
<1> HIDE DEF raw, over
<1>4. CASE AreaOwn(k, f, s)
    <2>1. Spoken(k, f, s) = over
        BY <1>4 DEF Spoken, over
    <2>2. MergedArea(raw, over) = [raw EXCEPT !.text = over.text, !.persons = over.persons]
        BY <1>3, <1>4 DEF MergedArea
    <2>3. /\ MergedArea(raw, over).slug = s /\ MergedArea(raw, over).rev = raw.rev
          /\ MergedArea(raw, over).text = over.text /\ MergedArea(raw, over).persons = over.persons
          /\ MergedArea(raw, over).rooms = raw.rooms
        BY <1>1, <2>2
    <2>4. AreaItem(k, e, f, s) = IF k.route = "areas" THEN Counted(raw, over)
                                 ELSE MergedArea(raw, over)
        BY <2>1 DEF AreaItem, raw
    <2> QED
        BY <1>1, <1>2, <1>4, <2>3, <2>4 DEF Counted
<1>5. CASE ~AreaOwn(k, f, s)
    <2>1. Spoken(k, f, s) = None
        BY <1>5 DEF Spoken
    <2>2. MergedArea(raw, None) = raw
        BY DEF MergedArea
    <2>3. AreaItem(k, e, f, s) = IF k.route = "areas" THEN Counted(raw, None) ELSE raw
        BY <2>1, <2>2 DEF AreaItem, raw
    <2> QED
        BY <1>1, <1>5, <2>2, <2>3 DEF Counted
<1> QED
    BY <1>4, <1>5

(* An area that looks the same in both editions is told just like that.    *)
LEMMA SteadyArea ==
    ASSUME NEW k \in ContactKeys, NEW e \in ContactEditions, NEW f \in ContactEditions,
           NEW s \in AreasOf(k, e, "de"), SameArea(k, e, f, s)
    PROVE  ToldArea(k, AreaItem(k, e, f, s)) = MeantArea(k, e, s)
<1> DEFINE a == e.areas[s]
           b == f.areas[s]
           l == k.locale
           x == AreaItem(k, e, f, s)
           own == AreaOwn(k, f, s)
           names(rooms) == {<<r.room, r.name>> : r \in rooms}
           persons(ps) == {<<p.person, p.rev, p.role, {<<r.room, r.name>> : r \in p.rooms}>> : p \in ps}
           count == Cardinality(MeantPersons(e, a, "de", "de"))
<1>1. l \in {"de", "en"} /\ (Localised(k) <=> l = "en")
    BY DEF ContactKeys, Localised
<1>2. IsMeant(e, s) /\ s \in Published(e.areas) /\ a.de \in German /\ a.en \in English \cup {None}
    BY AreaDocs DEF AreasOf, IsMeant
<1>3. IsMeant(f, s) /\ MeantArea(k, e, s) = MeantArea(k, f, s)
    BY <1>2 DEF SameArea
<1>4. s \in Published(f.areas) /\ b.active /\ b.de \in German /\ b.en \in English \cup {None}
    BY <1>3, AreaDocs DEF IsMeant
<1>5. own <=> l = "en" /\ b.en # None
    BY <1>1, <1>4 DEF AreaOwn, AreasOf
<1>6. /\ x.rev = a.rev /\ x.text = IF own THEN b.en ELSE a.de
      /\ k.route = "areas" => x.count = Cardinality(PersonsIn(e, a, "de", l))
      /\ k.route # "areas" => /\ x.rooms = RoomRefs(e, a.rooms, l)
                              /\ x.persons = IF own THEN PersonsIn(f, b, "en", l)
                                             ELSE PersonsIn(e, a, "de", l)
    BY AreaItemIs
<1>7. Cardinality(PersonsIn(e, a, "de", l)) = count
    BY <1>2, PersonsCounted
<1>8. /\ names(RoomRefs(e, a.rooms, l)) = MeantRooms(e, a.rooms, l)
      /\ persons(PersonsIn(f, b, "en", l)) = MeantPersons(f, b, "en", l)
      /\ persons(PersonsIn(e, a, "de", l)) = MeantPersons(e, a, "de", l)
    BY RoomsTold, PersonsTold
<1>9. ToldArea(k, x) = <<x.rev, x.text, IF k.route = "areas" THEN x.count
                                        ELSE <<persons(x.persons), names(x.rooms)>>>>
    BY DEF ToldArea
<1>10. MeantArea(k, e, s) =
          IF l = "en" /\ a.en # None
          THEN <<a.rev, a.en, IF k.route = "areas" THEN count
                              ELSE <<MeantPersons(e, a, "en", l), MeantRooms(e, a.rooms, l)>>>>
          ELSE <<a.rev, a.de, IF k.route = "areas" THEN count
                              ELSE <<MeantPersons(e, a, "de", l), MeantRooms(e, a.rooms, l)>>>>
    BY <1>1 DEF MeantArea
<1>11. MeantArea(k, f, s) =
          IF l = "en" /\ b.en # None
          THEN <<b.rev, b.en, IF k.route = "areas" THEN Cardinality(MeantPersons(f, b, "de", "de"))
                              ELSE <<MeantPersons(f, b, "en", l), MeantRooms(f, b.rooms, l)>>>>
          ELSE <<b.rev, b.de, IF k.route = "areas" THEN Cardinality(MeantPersons(f, b, "de", "de"))
                              ELSE <<MeantPersons(f, b, "de", l), MeantRooms(f, b.rooms, l)>>>>
    BY <1>1 DEF MeantArea
<1> HIDE DEF a, b, x, l, own, names, persons, count
<1>12. German \cap English = {}
    BY TextsAssumption
<1>13. ASSUME own PROVE ToldArea(k, x) = MeantArea(k, e, s)
    <2>1. l = "en" /\ b.en # None /\ b.en \in English
        BY <1>4, <1>5, <1>13
    <2>2. MeantArea(k, f, s)[2] = b.en
        BY <1>11, <2>1
    <2>3. a.en # None
        <3>1. a.en = None => MeantArea(k, e, s)[2] = a.de
            BY <1>10
        <3> QED
            BY <1>2, <1>3, <1>12, <2>1, <2>2, <3>1
    <2>4. b.en = a.en
        BY <1>3, <1>10, <2>1, <2>2, <2>3
    <2>5. ASSUME k.route = "areas" PROVE ToldArea(k, x) = MeantArea(k, e, s)
        BY <1>6, <1>7, <1>9, <1>10, <1>13, <2>1, <2>3, <2>4, <2>5
    <2>6. ASSUME k.route # "areas" PROVE ToldArea(k, x) = MeantArea(k, e, s)
        <3>1. MeantArea(k, f, s)[3][1] = MeantPersons(f, b, "en", l)
            BY <1>11, <2>1, <2>6
        <3>2. MeantArea(k, e, s)[3][1] = MeantPersons(e, a, "en", l)
            BY <1>10, <2>1, <2>3, <2>6
        <3>3. persons(x.persons) = MeantPersons(e, a, "en", l)
            BY <1>3, <1>6, <1>8, <1>13, <2>6, <3>1, <3>2
        <3>4. names(x.rooms) = MeantRooms(e, a.rooms, l)
            BY <1>6, <1>8, <2>6
        <3> QED
            BY <1>6, <1>9, <1>10, <1>13, <2>1, <2>3, <2>4, <2>6, <3>3, <3>4
    <2> QED
        BY <2>5, <2>6
<1>14. ASSUME ~own PROVE ToldArea(k, x) = MeantArea(k, e, s)
    <2>1. l = "en" => a.en = None
        <3> SUFFICES ASSUME l = "en", a.en # None PROVE FALSE
            OBVIOUS
        <3>1. MeantArea(k, f, s)[2] = b.de
            BY <1>5, <1>11, <1>14
        <3>2. MeantArea(k, e, s)[2] = a.en
            BY <1>10
        <3> QED
            BY <1>2, <1>3, <1>4, <1>12, <3>1, <3>2
    <2>2. MeantArea(k, e, s) = <<a.rev, a.de, IF k.route = "areas" THEN count
                              ELSE <<MeantPersons(e, a, "de", l), MeantRooms(e, a.rooms, l)>>>>
        BY <1>10, <2>1
    <2>3. x.rev = a.rev /\ x.text = a.de
        BY <1>6, <1>14
    <2>4. k.route = "areas" => x.count = count
        BY <1>6, <1>7
    <2>5. k.route # "areas" => /\ persons(x.persons) = MeantPersons(e, a, "de", l)
                               /\ names(x.rooms) = MeantRooms(e, a.rooms, l)
        BY <1>6, <1>8, <1>14
    <2> QED
        BY <1>9, <2>2, <2>3, <2>4, <2>5
<1> QED
    BY <1>13, <1>14 DEF x

(* The list of rooms: the first page of one edition, the second of another. *)
LEMMA PageIs ==
    ASSUME NEW e \in ContactEditions, NEW r, Visible(e, r)
    PROVE  /\ PageOf(e, r) \in {1, 2}
           /\ PageOf(e, r) = 2 =>
                 (Cardinality({x \in DOMAIN e.rooms : Visible(e, x)}) + PageSize - 1) \div PageSize > 1
<1> DEFINE shown == {x \in DOMAIN e.rooms : Visible(e, x)}
           below == {x \in DOMAIN e.rooms : Visible(e, x) /\ x < r}
           n == Cardinality(below)
           m == Cardinality(shown)
<1>1. r \in RoomKeys /\ r \in Int /\ DOMAIN e.rooms = RoomKeys
    BY RoomDocs, Shapes, DirectoryAssumption
<1>2. IsFiniteSet(RoomKeys) /\ Cardinality(RoomKeys) \in Nat
    BY DirectoryAssumption, FS_CardinalityType
<1>3. IsFiniteSet(shown) /\ m <= Cardinality(RoomKeys) /\ m \in Nat
    <2>1. shown \in SUBSET RoomKeys
        BY <1>1
    <2> HIDE DEF shown
    <2> QED
        BY <1>2, <2>1, FS_Subset, FS_CardinalityType
<1>4. IsFiniteSet(below) /\ n < m /\ n \in Nat
    <2>1. below \in SUBSET shown /\ r \in shown /\ r \notin below
        BY <1>1
    <2> HIDE DEF shown, below
    <2>2. IsFiniteSet(below) /\ n <= m /\ (m = n => shown = below)
        BY <1>3, <2>1, FS_Subset
    <2>3. n \in Nat
        BY <2>2, FS_CardinalityType
    <2> QED
        BY <1>3, <2>1, <2>2, <2>3
<1>5. PageSize \in Nat \ {0} /\ m <= 2 * PageSize
    <2> HIDE DEF m
    <2> QED
        BY <1>2, <1>3, PageAssumption
<1>6. PageOf(e, r) = (n \div PageSize) + 1
    BY DEF PageOf
<1> HIDE DEF n, m, shown, below
<1>7. n \div PageSize \in {0, 1} /\ (n \div PageSize = 1 => (m + PageSize - 1) \div PageSize > 1)
    BY <1>3, <1>4, <1>5, PageNumbers
<1>8. (m + PageSize - 1) \div PageSize > 1 <=>
      (Cardinality({x \in DOMAIN e.rooms : Visible(e, x)}) + PageSize - 1) \div PageSize > 1
    BY DEF m, shown
<1>9. PageOf(e, r) \in {1, 2} /\ (PageOf(e, r) = 2 => n \div PageSize = 1)
    BY <1>6, <1>7
<1> QED
    BY <1>7, <1>8, <1>9

Shelf(e, n) == {r \in Catalogue : Visible(e, r) /\ PageOf(e, r) = n}
Pages(e) == (Cardinality({r \in DOMAIN e.rooms : Visible(e, r)}) + PageSize - 1) \div PageSize

LEMMA RoomsAnswer ==
    ASSUME NEW k, NEW e, NEW f, BothContacts(k, e, f), IsRooms(k)
    PROVE  ContactsFrom(k, e, f).items =
              {RoomRef(e, r, k.locale) : r \in Shelf(e, 1)}
              \cup IF Pages(e) > 1 THEN {RoomRef(f, r, k.locale) : r \in Shelf(f, 2)} ELSE {}
<1> DEFINE l == k.locale
           first == ContactsFirst(k, e)
           second == ContactsSecond(k, f, first)
<1>0. e \in ContactEditions /\ f \in ContactEditions
    BY DEF BothContacts
<1>1. ASSUME NEW d \in ContactEditions, NEW n
      PROVE  RoomPage(d, n, l) = {RoomRef(d, r, l) : r \in Shelf(d, n)}
    <2>1. {r \in DOMAIN d.rooms : Visible(d, r) /\ PageOf(d, r) = n} \cap Catalogue = Shelf(d, n)
        BY RoomDocs, Shapes DEF Shelf
    <2>2. {x \in {r \in DOMAIN d.rooms : Visible(d, r) /\ PageOf(d, r) = n} \cap Catalogue :
              Visible(d, x)} = Shelf(d, n)
        BY <2>1 DEF Shelf
    <2> QED
        BY <2>2 DEF RoomPage, RoomRefs
<1>2. first.rooms = RoomPage(e, 1, l) /\ first.pages = Pages(e)
    BY DEF ContactsFirst, Pages
<1>3. second # None /\ second = RoomPage(f, 2, l)
    BY DEF BothContacts, ContactsSecond
<1>4. ContactsMore(k, first) <=> Pages(e) > 1
    BY <1>2 DEF ContactsMore
<1>5. ContactsFrom(k, e, f) = RoomsMerged(k, first, IF ContactsMore(k, first) THEN second ELSE None)
    BY DEF ContactsFrom, ContactsMerge, IsRooms
<1> HIDE DEF first, second
<1>6. ContactsFrom(k, e, f).items = first.rooms \cup IF Pages(e) > 1 THEN second ELSE {}
    BY <1>3, <1>4, <1>5 DEF RoomsMerged
<1> QED
    BY <1>0, <1>1, <1>2, <1>3, <1>6

LEMMA SteadyRoom ==
    ASSUME NEW k, NEW e, NEW f, BothContacts(k, e, f), IsRooms(k), NEW r \in Catalogue,
           SameRoom(k, e, f, r)
    PROVE  {x.name : x \in {y \in ContactsFrom(k, e, f).items : y.room = r}}
              = IF Visible(e, r) THEN {NameIn(e.rooms[r], k.locale)} ELSE {}
<1> DEFINE l == k.locale
           items == ContactsFrom(k, e, f).items
           names == {x.name : x \in {y \in items : y.room = r}}
<1>0. e \in ContactEditions /\ f \in ContactEditions
    BY DEF BothContacts
<1>1. items = {RoomRef(e, x, l) : x \in Shelf(e, 1)}
              \cup IF Pages(e) > 1 THEN {RoomRef(f, x, l) : x \in Shelf(f, 2)} ELSE {}
    BY RoomsAnswer
<1>2. \A d, x : RoomRef(d, x, l).room = x /\ RoomRef(d, x, l).name = NameIn(d.rooms[x], l)
    BY DEF RoomRef
<1> HIDE DEF items
<1>3. CASE ~Visible(e, r)
    <2>1. ~Visible(f, r)
        BY <1>3 DEF SameRoom
    <2>2. \A y \in items : y.room # r
        BY <1>1, <1>2, <1>3, <2>1 DEF Shelf
    <2> QED
        BY <1>3, <2>2 DEF items
<1>4. CASE Visible(e, r)
    <2>1. /\ Visible(f, r) /\ PageOf(f, r) = PageOf(e, r)
          /\ NameIn(f.rooms[r], l) = NameIn(e.rooms[r], l)
        BY <1>4 DEF SameRoom
    <2>2. PageOf(e, r) \in {1, 2} /\ (PageOf(e, r) = 2 => Pages(e) > 1)
        BY <1>0, <1>4, PageIs DEF Pages
    <2>3. \A y \in items : y.room = r => y.name = NameIn(e.rooms[r], l)
        BY <1>1, <1>2, <2>1
    <2>4. \E y \in items : y.room = r
        <3>1. CASE PageOf(e, r) = 1
            BY <1>1, <1>2, <1>4, <3>1 DEF Shelf
        <3>2. CASE PageOf(e, r) = 2
            <4>1. r \in Shelf(f, 2) /\ Pages(e) > 1
                BY <2>1, <2>2, <3>2 DEF Shelf
            <4> QED
                BY <1>1, <1>2, <4>1
        <3> QED
            BY <2>2, <3>1, <3>2
    <2>5. names = {NameIn(e.rooms[r], l)}
        BY <2>3, <2>4
    <2> QED
        BY <1>4, <2>5 DEF items
<1> QED
    BY <1>3, <1>4

(***************************************************************************)
(* The properties of contacts                                              *)
(***************************************************************************)
LEMMA BothContactsOf ==
    ASSUME NEW s \in Scenarios, NEW k \in s.keys, k.route \in ContactRoutes,
           NEW e \in s.editions, NEW f \in s.editions
    PROVE  BothContacts(k, e, f) /\ AnswerFrom(k, e, f) = ContactsFrom(k, e, f)
<1>1. BothContacts(k, e, f)
    BY ContactsAssumption, DirectoryAssumption DEF BothContacts
<1> DEFINE first == ContactsFirst(k, e)
           second == ContactsSecond(k, f, first)
<1>2. /\ First(k, e) = first /\ More(k, first) = ContactsMore(k, first)
      /\ Second(k, f, first) = second
      /\ Merge(k, first, None) = ContactsMerge(k, first, None)
      /\ Merge(k, first, second) = ContactsMerge(k, first, second)
    BY ContactsAssumption
<1> HIDE DEF first, second
<1>3. AnswerFrom(k, e, f)
         = ContactsMerge(k, first, IF ContactsMore(k, first) THEN second ELSE None)
    BY <1>2 DEF AnswerFrom
<1> QED
    BY <1>1, <1>3 DEF ContactsFrom, first, second

LEMMA ContactsServedFrom ==
    ASSUME Inv, ContactServed
    PROVE  LET k == answer.key IN
           /\ k \in ContactKeys /\ answer.value # None /\ cms \in ContactEditions
           /\ cms \in Recent(k)
           /\ \E e, f \in Recent(k) : BothContacts(k, e, f) /\ answer.value = ContactsFrom(k, e, f)
<1> DEFINE k == answer.key
<1>1. /\ scope \in Scenarios /\ k \in scope.keys /\ answer.value # None
      /\ Recent(k) \subseteq scope.editions /\ cms \in scope.editions /\ ago[cms] = 0
    BY ServedFrom DEF ContactServed, Inv, Typed
<1>2. k.route \in ContactRoutes
    BY DEF ContactServed
<1>3. k \in ContactKeys /\ scope.editions \subseteq ContactEditions
    BY <1>1, <1>2, DirectoryAssumption
<1>4. ~Unasked(k)
    BY <1>1, <1>2, ContactsAssumption DEF ContactsUnasked
<1>5. \A e, f \in Recent(k) : BothContacts(k, e, f) /\ AnswerFrom(k, e, f) = ContactsFrom(k, e, f)
    BY <1>1, <1>2, BothContactsOf
<1>6. \E e, f \in Recent(k) : answer.value = AnswerFrom(k, e, f)
    BY <1>4, ServedFrom DEF ContactServed
<1>7. cms \in Recent(k)
    <2>1. Ttl(k) \in Nat \ {0} /\ FetchTime \in Nat
        BY <1>1, ReadAssumption
    <2> HIDE DEF k
    <2>2. 0 < Horizon(k)
        BY <2>1 DEF Horizon
    <2> QED
        BY <1>1, <2>2 DEF Recent
<1> QED
    BY <1>1, <1>3, <1>5, <1>6, <1>7

LEMMA RowsWere ==
    ASSUME NEW k, NEW e \in Recent(k), NEW a, NEW l
    PROVE  /\ \A rooms, shown : \A r \in RoomRefs(e, rooms, shown) : RoomWas(k, r.room)
           /\ \A shown : \A p \in PersonsIn(e, a, l, shown) :
                 /\ PersonWas(k, p.person, p.rev)
                 /\ \A r \in p.rooms : RoomWas(k, r.room)
<1>1. ASSUME NEW rooms, NEW shown, NEW r \in RoomRefs(e, rooms, shown)
      PROVE  RoomWas(k, r.room)
    <2>1. PICK x : Visible(e, x) /\ r = RoomRef(e, x, shown)
        BY DEF RoomRefs
    <2>2. r.room = x
        BY <2>1 DEF RoomRef
    <2> QED
        BY <2>1, <2>2 DEF RoomWas
<1>2. ASSUME NEW shown, NEW p \in PersonsIn(e, a, l, shown)
      PROVE  PersonWas(k, p.person, p.rev) /\ \A r \in p.rooms : RoomWas(k, r.room)
    <2>1. PICK x \in Published(e.persons) :
             /\ e.persons[x].active
             /\ p = [person |-> x, rev |-> e.persons[x].rev, role |-> e.persons[x][l],
                     rooms |-> RoomRefs(e, e.persons[x].rooms, shown)]
        BY DEF PersonsIn, Delivers
    <2>2. p.person = x /\ p.rev = e.persons[x].rev /\ p.rooms = RoomRefs(e, e.persons[x].rooms, shown)
        BY <2>1
    <2> QED
        BY <1>1, <2>1, <2>2 DEF PersonWas
<1> QED
    BY <1>1, <1>2

LEMMA ContactsWithdrawn == Inv => ContactsWithdrawnSoon
<1> SUFFICES ASSUME Inv, ContactServed, NEW x \in answer.value.items
             PROVE  LET k == answer.key IN
                    IF IsRooms(k) THEN RoomWas(k, x.room)
                    ELSE /\ AreaWas(k, x.slug)
                         /\ k.route # "areas" =>
                               /\ \A r \in x.rooms : RoomWas(k, r.room)
                               /\ \A p \in x.persons : /\ PersonWas(k, p.person, p.rev)
                                                       /\ \A r \in p.rooms : RoomWas(k, r.room)
    BY DEF ContactsWithdrawnSoon
<1> DEFINE k == answer.key
<1>1. PICK e \in Recent(k), f \in Recent(k) :
         BothContacts(k, e, f) /\ answer.value = ContactsFrom(k, e, f)
    BY ContactsServedFrom
<1>2. k \in ContactKeys /\ e \in ContactEditions /\ f \in ContactEditions /\ answer.value # None
    BY <1>1, ContactsServedFrom DEF BothContacts
<1> HIDE DEF k
<1>3. ASSUME IsRooms(k) PROVE RoomWas(k, x.room)
    <2>1. PICK d \in {e, f}, r \in Catalogue : Visible(d, r) /\ x = RoomRef(d, r, k.locale)
        BY <1>1, <1>3, RoomsAnswer DEF Shelf
    <2>2. x.room = r
        BY <2>1 DEF RoomRef
    <2> QED
        BY <2>1, <2>2 DEF RoomWas
<1>4. ASSUME ~IsRooms(k)
      PROVE  /\ AreaWas(k, x.slug)
             /\ k.route # "areas" =>
                   /\ \A r \in x.rooms : RoomWas(k, r.room)
                   /\ \A p \in x.persons : /\ PersonWas(k, p.person, p.rev)
                                           /\ \A r \in p.rooms : RoomWas(k, r.room)
    <2>1. PICK s \in AreasOf(k, e, "de") : x = AreaItem(k, e, f, s)
        BY <1>1, <1>2, <1>4, AreasAnswer
    <2>2. /\ x.slug = s
          /\ k.route # "areas" =>
                /\ x.rooms = RoomRefs(e, e.areas[s].rooms, k.locale)
                /\ x.persons = IF AreaOwn(k, f, s) THEN PersonsIn(f, f.areas[s], "en", k.locale)
                               ELSE PersonsIn(e, e.areas[s], "de", k.locale)
        BY <1>2, <2>1, AreaItemIs
    <2>3. AreaWas(k, x.slug)
        BY <2>2 DEF AreaWas, AreasOf
    <2> QED
        BY <2>2, <2>3, RowsWere
<1> QED
    BY <1>3, <1>4 DEF k

LEMMA ContactsSteady == Inv => ContactsSteadyServed
<1> SUFFICES ASSUME Inv, ContactServed PROVE ContactsSteadyServed
    BY DEF ContactsSteadyServed
<1> DEFINE k == answer.key
           items == answer.value.items
<1>1. PICK e \in Recent(k), f \in Recent(k) :
         BothContacts(k, e, f) /\ answer.value = ContactsFrom(k, e, f)
    BY ContactsServedFrom
<1>2. /\ k \in ContactKeys /\ e \in ContactEditions /\ f \in ContactEditions
      /\ answer.value # None /\ cms \in Recent(k) /\ cms \in ContactEditions
    BY <1>1, ContactsServedFrom DEF BothContacts
<1>3. ASSUME IsRooms(k), NEW r \in Catalogue, \A d, c \in Recent(k) : SameRoom(k, d, c, r)
      PROVE  {x.name : x \in {y \in items : y.room = r}}
                = IF Visible(cms, r) THEN {NameIn(cms.rooms[r], k.locale)} ELSE {}
    <2> HIDE DEF k
    <2>1. SameRoom(k, e, f, r) /\ SameRoom(k, e, cms, r)
        BY <1>2, <1>3
    <2>2. {x.name : x \in {y \in items : y.room = r}}
             = IF Visible(e, r) THEN {NameIn(e.rooms[r], k.locale)} ELSE {}
        BY <1>1, <1>3, <2>1, SteadyRoom
    <2> QED
        BY <2>1, <2>2 DEF SameRoom
<1>4. ASSUME ~IsRooms(k), NEW s \in DOMAIN cms.areas, k.slug \in {None, s},
             \A d, c \in Recent(k) : SameArea(k, d, c, s)
      PROVE  {ToldArea(k, x) : x \in {y \in items : y.slug = s}}
                = IF IsMeant(cms, s) THEN {MeantArea(k, cms, s)} ELSE {}
    <2> HIDE DEF k
    <2>1. SameArea(k, e, f, s) /\ SameArea(k, e, cms, s)
        BY <1>2, <1>4
    <2>2. items = {AreaItem(k, e, f, t) : t \in AreasOf(k, e, "de")}
        BY <1>1, <1>2, <1>4, AreasAnswer
    <2>3. \A t \in AreasOf(k, e, "de") : AreaItem(k, e, f, t).slug = t
        BY <1>2, AreaItemIs
    <2>4. s \in AreasOf(k, e, "de") <=> IsMeant(e, s)
        BY <1>4 DEF AreasOf, IsMeant
    <2> HIDE DEF items
    <2>5. CASE ~IsMeant(e, s)
        <3>1. {y \in items : y.slug = s} = {}
            BY <2>2, <2>3, <2>4, <2>5
        <3>2. ~IsMeant(cms, s)
            BY <2>1, <2>5 DEF SameArea
        <3> QED
            BY <3>1, <3>2
    <2>6. CASE IsMeant(e, s)
        <3>1. {y \in items : y.slug = s} = {AreaItem(k, e, f, s)}
            BY <2>2, <2>3, <2>4, <2>6
        <3>2. ToldArea(k, AreaItem(k, e, f, s)) = MeantArea(k, e, s)
            BY <1>2, <2>1, <2>4, <2>6, SteadyArea
        <3>3. IsMeant(cms, s) /\ MeantArea(k, cms, s) = MeantArea(k, e, s)
            BY <2>1, <2>6 DEF SameArea
        <3> QED
            BY <3>1, <3>2, <3>3
    <2> QED
        BY <2>5, <2>6
<1> QED
    BY <1>3, <1>4 DEF ContactsSteadyServed

(* Whatever the editors withdraw of areas, persons and rooms is gone from  *)
(* every answer within the time that one is built and kept.                *)
THEOREM ContactsWithdrawnSoonHolds == Spec => []ContactsWithdrawnSoon
<1> QED
    BY Invariance, ContactsWithdrawn, PTL

(* An area or a room that stays as it is, is told just like that.          *)
THEOREM ContactsSteadyServedHolds == Spec => []ContactsSteadyServed
<1> QED
    BY Invariance, ContactsSteady, PTL
=============================================================================
