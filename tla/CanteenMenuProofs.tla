-------------------------- MODULE CanteenMenuProofs --------------------------
(***************************************************************************)
(* What clients are told of the menu, for any number of dishes, imports,   *)
(* requests and failures, and whatever the two caches hold.                *)
(***************************************************************************)
EXTENDS CanteenMenu, TLAPS, SequenceTheorems, WellFoundedInduction

(***************************************************************************)
(* The cache                                                               *)
(***************************************************************************)
Entries(c) == {c[i] : i \in 1 .. Len(c)}
Entry(e) == DOMAIN e = {"key", "value", "left"} /\ e.left \in Nat
OneEach(c) == \A i, j \in 1 .. Len(c) : c[i].key = c[j].key => i = j
IsCache(c) == c \in Seq(Entries(c)) /\ OneEach(c) /\ \A e \in Entries(c) : Entry(e)

LEMMA LeastOfNaturals ==
    ASSUME NEW S \in SUBSET Nat, S # {}
    PROVE  \E n \in S : \A m \in S : n <= m
<1> DEFINE R == OpToRel(<, Nat)
<1>1. \A x, y \in Nat : <<x, y>> \in R <=> x < y
    BY DEF OpToRel
<1>2. IsWellFoundedOn(R, Nat)
    BY NatLessThanWellFounded
<1> HIDE DEF R
<1>3. PICK n \in S : \A m \in S : ~(<<m, n>> \in R)
    BY <1>2, WFMin
<1>4. ASSUME NEW m \in S PROVE n <= m
    <2>1. n \in Nat /\ m \in Nat
        OBVIOUS
    <2>2. ~(m < n)
        BY <1>1, <1>3, <2>1
    <2> QED
        BY <2>1, <2>2
<1> QED
    BY <1>4

(* A sequence holds what it holds, and its entries are found in it.        *)
LEMMA SequenceOfEntries ==
    ASSUME NEW E, NEW c \in Seq(E)
    PROVE  /\ Len(c) \in Nat /\ DOMAIN c = 1 .. Len(c)
           /\ c \in Seq(Entries(c)) /\ Entries(c) \subseteq E
<1>1. Len(c) \in Nat /\ DOMAIN c = 1 .. Len(c) /\ \A i \in 1 .. Len(c) : c[i] \in E
    OBVIOUS
<1>2. c = [i \in 1 .. Len(c) |-> c[i]]
    OBVIOUS
<1>3. \A i \in 1 .. Len(c) : c[i] \in Entries(c)
    BY DEF Entries
<1>4. [i \in 1 .. Len(c) |-> c[i]] \in Seq(Entries(c))
    BY <1>1, <1>3, IsASeq
<1> QED
    BY <1>1, <1>2, <1>4 DEF Entries

LEMMA EntryForRight ==
    ASSUME NEW c, NEW k, Holds(c, k)
    PROVE  /\ PlaceOf(c, k) \in 1 .. Len(c)
           /\ EntryFor(c, k) \in Entries(c) /\ EntryFor(c, k).key = k
BY DEF Holds, PlaceOf, EntryFor, Entries

LEMMA WithoutRight ==
    ASSUME NEW c, IsCache(c), NEW k
    PROVE  /\ IsCache(Without(c, k))
           /\ Entries(Without(c, k)) = {e \in Entries(c) : e.key # k}
           /\ Len(Without(c, k)) = IF Holds(c, k) THEN Len(c) - 1 ELSE Len(c)
<1>1. c \in Seq(Entries(c)) /\ Len(c) \in Nat
    BY DEF IsCache
<1>2. CASE ~Holds(c, k)
    <2>1. Entries(c) = {e \in Entries(c) : e.key # k}
        BY <1>2 DEF Holds, Entries
    <2> QED
        BY <1>2, <2>1 DEF Without
<1>3. CASE Holds(c, k)
    <2> DEFINE n == PlaceOf(c, k)
               w == Without(c, k)
    <2>1. n \in 1 .. Len(c) /\ c[n].key = k
        BY <1>3, EntryForRight DEF EntryFor
    <2>2. w = SubSeq(c, 1, n - 1) \o SubSeq(c, n + 1, Len(c))
        BY <1>3 DEF Without
    <2> HIDE DEF n, w
    <2>3. /\ SubSeq(c, 1, n - 1) \in Seq(Entries(c)) /\ Len(SubSeq(c, 1, n - 1)) = n - 1
          /\ \A i \in 1 .. n - 1 : SubSeq(c, 1, n - 1)[i] = c[i]
        BY <1>1, <2>1
    <2>4. /\ SubSeq(c, n + 1, Len(c)) \in Seq(Entries(c))
          /\ Len(SubSeq(c, n + 1, Len(c))) = Len(c) - n
          /\ \A i \in 1 .. Len(c) - n : SubSeq(c, n + 1, Len(c))[i] = c[n + i]
        BY <1>1, <2>1
    <2>5. /\ w \in Seq(Entries(c)) /\ Len(w) = Len(c) - 1
          /\ \A i \in 1 .. Len(c) - 1 : w[i] = IF i < n THEN c[i] ELSE c[i + 1]
        <3> DEFINE a == SubSeq(c, 1, n - 1)
                   b == SubSeq(c, n + 1, Len(c))
        <3>1. w = a \o b /\ Len(a) = n - 1 /\ Len(b) = Len(c) - n /\ n \in 1 .. Len(c)
              /\ a \in Seq(Entries(c)) /\ b \in Seq(Entries(c))
            BY <2>1, <2>2, <2>3, <2>4
        <3>2. /\ \A i \in 1 .. n - 1 : a[i] = c[i]
              /\ \A i \in 1 .. Len(c) - n : b[i] = c[n + i]
            BY <2>3, <2>4
        <3> HIDE DEF a, b
        <3>3. w \in Seq(Entries(c)) /\ Len(w) = Len(c) - 1
            BY <1>1, <3>1
        <3>4. \A i \in 1 .. Len(c) - 1 : w[i] = IF i < n THEN a[i] ELSE b[i - (n - 1)]
            BY <1>1, <3>1
        <3>5. ASSUME NEW i \in 1 .. Len(c) - 1, ~(i < n) PROVE b[i - (n - 1)] = c[i + 1]
            <4>1. i - (n - 1) \in 1 .. Len(c) - n /\ n + (i - (n - 1)) = i + 1
                BY <1>1, <3>1, <3>5
            <4> QED
                BY <3>2, <4>1
        <3>6. \A i \in 1 .. Len(c) - 1 : i < n => a[i] = c[i]
            BY <1>1, <3>1, <3>2
        <3> QED
            BY <3>3, <3>4, <3>5, <3>6
    <2>6. OneEach(w)
        BY <1>1, <2>1, <2>5 DEF IsCache, OneEach
    <2>7. ASSUME NEW e \in Entries(w) PROVE e \in Entries(c) /\ e.key # k
        <3>1. PICK i \in 1 .. Len(w) : e = w[i]
            BY DEF Entries
        <3>2. PICK j \in 1 .. Len(c) : e = c[j] /\ j # n
            <4>1. CASE i < n
                BY <1>1, <2>1, <2>5, <3>1, <4>1
            <4>2. CASE ~(i < n)
                BY <1>1, <2>1, <2>5, <3>1, <4>2
            <4> QED
                BY <4>1, <4>2
        <3> QED
            BY <2>1, <3>2 DEF IsCache, OneEach, Entries
    <2>8. ASSUME NEW e \in Entries(c), e.key # k PROVE e \in Entries(w)
        <3>1. PICK i \in 1 .. Len(c) : e = c[i] /\ i # n
            BY <2>1, <2>8 DEF Entries
        <3>2. e = w[IF i < n THEN i ELSE i - 1] /\ (IF i < n THEN i ELSE i - 1) \in 1 .. Len(w)
            BY <1>1, <2>1, <2>5, <3>1
        <3> QED
            BY <3>2 DEF Entries
    <2>9. w \in Seq(Entries(w))
        BY <2>5, SequenceOfEntries
    <2> QED
        BY <1>3, <2>5, <2>6, <2>7, <2>8, <2>9 DEF w, IsCache
<1> QED
    BY <1>2, <1>3

(* Live is defined: its recursion over the places of a cache has a value   *)
(* up to each of them, the first place without one being none.             *)
LiveTo(c, g, n) ==
    IF n = 0 THEN <<>>
    ELSE IF c[n].left > 0 THEN Append(g[n - 1], c[n]) ELSE g[n - 1]
Follows(c, g, m) == g = [n \in 0 .. m |-> LiveTo(c, g, n)]

LEMMA LiveDefined ==
    ASSUME NEW c, Len(c) \in Nat
    PROVE  \E g : Follows(c, g, Len(c)) /\ Live(c) = g[Len(c)]
<1>1. ASSUME NEW n \in Nat, n # 0, NEW g, Follows(c, g, n - 1)
      PROVE  \E h : Follows(c, h, n)
    <2> DEFINE h == [i \in 0 .. n |-> IF i = n THEN LiveTo(c, g, n) ELSE g[i]]
    <2>1. \A i \in 0 .. n - 1 : g[i] = LiveTo(c, g, i)
        BY <1>1 DEF Follows
    <2>2. \A i \in 0 .. n : LiveTo(c, h, i) = LiveTo(c, g, i)
        BY <1>1 DEF LiveTo
    <2>3. ASSUME NEW i \in 0 .. n PROVE h[i] = LiveTo(c, h, i)
        <3>1. CASE i = n
            BY <2>2, <3>1
        <3>2. CASE i # n
            <4>1. i \in 0 .. n - 1
                BY <1>1, <3>2
            <4> QED
                BY <2>1, <2>2, <3>2, <4>1
        <3> QED
            BY <3>1, <3>2
    <2>4. h = [i \in 0 .. n |-> h[i]]
        OBVIOUS
    <2> HIDE DEF h
    <2>5. [i \in 0 .. n |-> h[i]] = [i \in 0 .. n |-> LiveTo(c, h, i)]
        BY <2>3
    <2> QED
        BY <2>4, <2>5 DEF Follows
<1>2. \E g : Follows(c, g, Len(c))
    <2> DEFINE Bad == {n \in 0 .. Len(c) : ~\E g : Follows(c, g, n)}
    <2>1. SUFFICES ASSUME Bad # {} PROVE FALSE
        BY Len(c) \in 0 .. Len(c)
    <2>2. PICK n \in Bad : \A m \in Bad : n <= m
        <3>1. Bad \in SUBSET Nat
            OBVIOUS
        <3> HIDE DEF Bad
        <3> QED
            BY <2>1, <3>1, LeastOfNaturals
    <2>3. n # 0
        <3>1. Follows(c, [i \in 0 .. 0 |-> <<>>], 0)
            BY DEF Follows, LiveTo
        <3> QED
            BY <3>1
    <2>4. \E g : Follows(c, g, n - 1)
        BY <2>2, <2>3
    <2> QED
        BY <1>1, <2>3, <2>4
<1> DEFINE f == CHOOSE g : g = [n \in 0 .. Len(c) |->
                    IF n = 0 THEN <<>>
                    ELSE IF c[n].left > 0 THEN Append(g[n - 1], c[n]) ELSE g[n - 1]]
<1>3. Live(c) = f[Len(c)]
    BY DEF Live
<1>4. f = CHOOSE g : Follows(c, g, Len(c))
    BY DEF Follows, LiveTo
<1> HIDE DEF f
<1>5. Follows(c, f, Len(c))
    BY <1>2, <1>4
<1> QED
    BY <1>3, <1>5

LEMMA LiveRight ==
    ASSUME NEW c, IsCache(c)
    PROVE  IsCache(Live(c)) /\ Entries(Live(c)) \subseteq Entries(c)
<1>1. c \in Seq(Entries(c)) /\ Len(c) \in Nat /\ \A i \in 1 .. Len(c) : c[i] \in Entries(c)
    BY DEF IsCache, Entries
<1>2. PICK g : Follows(c, g, Len(c)) /\ Live(c) = g[Len(c)]
    BY <1>1, LiveDefined
<1>3. \A n \in 0 .. Len(c) : g[n] = LiveTo(c, g, n)
    BY <1>2 DEF Follows
<1> DEFINE Good(n) == /\ g[n] \in Seq(Entries(c)) /\ OneEach(g[n])
                      /\ \A j \in 1 .. Len(g[n]) : \E i \in 1 .. n : g[n][j] = c[i]
           Bad == {n \in 0 .. Len(c) : ~Good(n)}
<1>4. SUFFICES Bad = {}
    <2>1. Good(Len(c))
        BY <1>1, <1>4
    <2>2. Live(c) \in Seq(Entries(Live(c))) /\ Entries(Live(c)) \subseteq Entries(c)
        BY <1>2, <2>1, SequenceOfEntries
    <2> QED
        BY <1>2, <2>1, <2>2 DEF IsCache
<1>5. SUFFICES ASSUME Bad # {} PROVE FALSE
    OBVIOUS
<1>6. PICK n \in Bad : \A m \in Bad : n <= m
    <2>1. Bad \in SUBSET Nat
        OBVIOUS
    <2> HIDE DEF Bad
    <2> QED
        BY <1>5, <2>1, LeastOfNaturals
<1>7. n # 0
    <2>1. g[0] = <<>>
        BY <1>1, <1>3 DEF LiveTo
    <2>2. Good(0)
        BY <2>1 DEF OneEach
    <2> QED
        BY <2>2
<1>8. n - 1 \in 0 .. Len(c) /\ n \in 1 .. Len(c)
    BY <1>1, <1>7
<1>9. Good(n - 1)
    BY <1>6, <1>8
<1>10. g[n] = IF c[n].left > 0 THEN Append(g[n - 1], c[n]) ELSE g[n - 1]
    BY <1>3, <1>7 DEF LiveTo
<1>11. CASE ~(c[n].left > 0)
    BY <1>8, <1>9, <1>10, <1>11
<1>12. CASE c[n].left > 0
    <2> DEFINE s == g[n - 1]
               t == g[n]
    <2>1. t = Append(s, c[n]) /\ s \in Seq(Entries(c)) /\ OneEach(s) /\ c[n] \in Entries(c)
          /\ \A j \in 1 .. Len(s) : \E i \in 1 .. n - 1 : s[j] = c[i]
        BY <1>1, <1>8, <1>9, <1>10, <1>12
    <2> HIDE DEF s, t
    <2>2. /\ t \in Seq(Entries(c)) /\ Len(t) = Len(s) + 1 /\ Len(s) \in Nat
          /\ \A j \in 1 .. Len(s) : t[j] = s[j]
          /\ t[Len(s) + 1] = c[n]
        BY <2>1
    <2>3. ASSUME NEW j \in 1 .. Len(s) PROVE t[j].key # c[n].key
        <3>1. PICK i \in 1 .. n - 1 : t[j] = c[i]
            BY <2>1, <2>2
        <3>2. i \in 1 .. Len(c) /\ i # n
            BY <1>1, <1>8
        <3> QED
            BY <1>8, <3>1, <3>2 DEF IsCache, OneEach
    <2>4. OneEach(t)
        BY <2>1, <2>2, <2>3 DEF OneEach
    <2>5. ASSUME NEW j \in 1 .. Len(t) PROVE \E i \in 1 .. n : t[j] = c[i]
        <3>1. CASE j = Len(s) + 1
            BY <1>8, <2>2, <3>1
        <3>2. CASE j # Len(s) + 1
            <4>1. j \in 1 .. Len(s)
                BY <2>2, <3>2
            <4>2. PICK i \in 1 .. n - 1 : s[j] = c[i]
                BY <2>1, <4>1
            <4> QED
                BY <1>8, <2>2, <4>1, <4>2
        <3> QED
            BY <3>1, <3>2
    <2> QED
        BY <2>2, <2>4, <2>5 DEF t
<1> QED
    BY <1>11, <1>12

(* Adding an entry for a key that has none.                                *)
LEMMA AppendRight ==
    ASSUME NEW c, IsCache(c), NEW e, Entry(e), \A x \in Entries(c) : x.key # e.key
    PROVE  /\ IsCache(Append(c, e)) /\ Entries(Append(c, e)) = Entries(c) \cup {e}
           /\ Len(Append(c, e)) = Len(c) + 1 /\ Len(c) \in Nat
<1> DEFINE a == Append(c, e)
           E == Entries(c) \cup {e}
<1>1. c \in Seq(E) /\ e \in E
    <2>1. c \in Seq(Entries(c))
        BY DEF IsCache
    <2> HIDE DEF E
    <2>2. \A S : c \in Seq(S) /\ S \subseteq E => c \in Seq(E)
        OBVIOUS
    <2>3. Entries(c) \subseteq E /\ e \in E
        BY DEF E
    <2> QED
        BY <2>1, <2>2, <2>3
<1> HIDE DEF E
<1>2. /\ a \in Seq(E) /\ Len(a) = Len(c) + 1 /\ Len(c) \in Nat
      /\ \A i \in 1 .. Len(c) : a[i] = c[i]
      /\ a[Len(c) + 1] = e
    BY <1>1
<1> HIDE DEF a
<1>3. \A i \in 1 .. Len(a) : i \in 1 .. Len(c) \/ i = Len(c) + 1
    BY <1>2
<1>4. \A i \in 1 .. Len(c) : c[i].key # e.key
    BY DEF Entries
<1>5. OneEach(a)
    BY <1>2, <1>3, <1>4 DEF IsCache, OneEach
<1>6. Entries(a) = Entries(c) \cup {e}
    <2>1. ASSUME NEW x \in Entries(a) PROVE x \in Entries(c) \cup {e}
        BY <1>2, <1>3 DEF Entries
    <2>2. ASSUME NEW x \in Entries(c) PROVE x \in Entries(a)
        <3>1. PICK i \in 1 .. Len(c) : x = c[i]
            BY DEF Entries
        <3>2. i \in 1 .. Len(a) /\ x = a[i]
            BY <1>2, <3>1
        <3> QED
            BY <3>2 DEF Entries
    <2>3. e \in Entries(a)
        <3>1. Len(c) + 1 \in 1 .. Len(a)
            BY <1>2
        <3> QED
            BY <1>2, <3>1 DEF Entries
    <2> QED
        BY <2>1, <2>2, <2>3
<1>7. a \in Seq(Entries(a))
    BY <1>2, SequenceOfEntries
<1> QED
    BY <1>2, <1>5, <1>6, <1>7 DEF a, IsCache

LEMMA TouchedRight ==
    ASSUME NEW c, IsCache(c), NEW k, Holds(c, k)
    PROVE  /\ IsCache(Touched(c, k)) /\ Entries(Touched(c, k)) = Entries(c)
           /\ Len(Touched(c, k)) = Len(c)
<1> DEFINE w == Without(c, k)
           e == EntryFor(c, k)
<1>1. /\ IsCache(w) /\ Entries(w) = {x \in Entries(c) : x.key # k}
      /\ Len(w) = Len(c) - 1 /\ Len(c) \in Nat
    BY WithoutRight DEF IsCache
<1>2. e \in Entries(c) /\ e.key = k
    BY EntryForRight
<1>3. Entry(e)
    BY <1>2 DEF IsCache
<1>4. \A x \in Entries(c) : x.key = k => x = e
    BY <1>2 DEF Entries, IsCache, OneEach
<1>5. Touched(c, k) = Append(w, e)
    BY DEF Touched
<1> HIDE DEF w, e
<1>6. \A x \in Entries(w) : x.key # e.key
    BY <1>1, <1>2
<1>7. /\ IsCache(Append(w, e)) /\ Entries(Append(w, e)) = Entries(w) \cup {e}
      /\ Len(Append(w, e)) = Len(w) + 1
    BY <1>1, <1>3, <1>6, AppendRight
<1>8. Entries(w) \cup {e} = Entries(c)
    BY <1>1, <1>2, <1>4
<1> QED
    BY <1>1, <1>5, <1>7, <1>8

LEMMA StoredRight ==
    ASSUME NEW c, IsCache(c), NEW k, NEW v, NEW ttl \in Nat, NEW capacity \in Nat \ {0}
    PROVE  /\ IsCache(StoredIn(c, k, v, ttl, capacity))
           /\ Entries(StoredIn(c, k, v, ttl, capacity))
                 \subseteq {x \in Entries(c) : x.key # k}
                              \cup {[key |-> k, value |-> v, left |-> ttl]}
           /\ Len(StoredIn(c, k, v, ttl, capacity)) <= capacity
<1> DEFINE l == Live(Without(c, k))
           e == [key |-> k, value |-> v, left |-> ttl]
           a == Append(l, e)
           n == IF Len(a) > capacity THEN Len(a) - capacity + 1 ELSE 1
           s == SubSeq(a, n, Len(a))
<1>1. IsCache(l) /\ Entries(l) \subseteq {x \in Entries(c) : x.key # k}
    BY WithoutRight, LiveRight
<1>2. Entry(e) /\ e.key = k
    BY DEF Entry
<1>3. StoredIn(c, k, v, ttl, capacity) = s
    BY DEF StoredIn
<1> HIDE DEF l, e
<1>4. IsCache(a) /\ Entries(a) = Entries(l) \cup {e} /\ Len(a) \in Nat \ {0}
    BY <1>1, <1>2, AppendRight
<1> HIDE DEF a
<1>5. /\ n \in 1 .. Len(a) /\ Len(a) - n + 1 <= capacity /\ a \in Seq(Entries(a))
    BY <1>4 DEF IsCache
<1> HIDE DEF n
<1>6. /\ s \in Seq(Entries(a)) /\ Len(s) = Len(a) - n + 1
      /\ \A i \in 1 .. Len(a) - n + 1 : s[i] = a[n + i - 1]
    BY <1>4, <1>5
<1> HIDE DEF s
<1>7. \A i \in 1 .. Len(s) : n + i - 1 \in 1 .. Len(a)
    BY <1>4, <1>5, <1>6
<1>8. OneEach(s)
    <2> SUFFICES ASSUME NEW i \in 1 .. Len(s), NEW j \in 1 .. Len(s), s[i].key = s[j].key
                 PROVE  i = j
        BY DEF OneEach
    <2>1. a[n + i - 1].key = a[n + j - 1].key
        BY <1>6
    <2>2. n + i - 1 = n + j - 1
        BY <1>4, <1>7, <2>1 DEF IsCache, OneEach
    <2>3. i \in Int /\ j \in Int /\ n \in Int
        BY <1>4, <1>5, <1>6
    <2> QED
        BY <2>2, <2>3
<1>9. s \in Seq(Entries(s)) /\ Entries(s) \subseteq Entries(a)
    BY <1>6, SequenceOfEntries
<1>10. IsCache(s)
    BY <1>4, <1>8, <1>9 DEF IsCache
<1>11. Len(s) <= capacity
    BY <1>5, <1>6
<1> QED
    BY <1>1, <1>3, <1>4, <1>9, <1>10, <1>11 DEF e

LEMMA AgedRight ==
    ASSUME NEW c, IsCache(c)
    PROVE  /\ IsCache(Aged(c)) /\ Len(Aged(c)) = Len(c)
           /\ \A x \in Entries(Aged(c)) : \E e \in Entries(c) :
                 /\ x.key = e.key /\ x.value = e.value
                 /\ x.left = IF e.left > 0 THEN e.left - 1 ELSE 0
<1> DEFINE Older(e) == [e EXCEPT !.left = IF @ > 0 THEN @ - 1 ELSE 0]
           a == Aged(c)
<1>1. c \in Seq(Entries(c)) /\ Len(c) \in Nat
    BY DEF IsCache
<1>2. ASSUME NEW e, Entry(e)
      PROVE  /\ Entry(Older(e)) /\ Older(e).key = e.key /\ Older(e).value = e.value
             /\ Older(e).left = IF e.left > 0 THEN e.left - 1 ELSE 0
    BY <1>2 DEF Entry
<1>3. a = [i \in 1 .. Len(c) |-> Older(c[i])]
    BY DEF Aged
<1>4. \A i \in 1 .. Len(c) : Entry(c[i])
    BY DEF IsCache, Entries
<1> HIDE DEF Older, a
<1>5. [i \in 1 .. Len(c) |-> Older(c[i])] \in Seq({Older(c[i]) : i \in 1 .. Len(c)})
    BY <1>1, IsASeq
<1>6. a \in Seq(Entries(a)) /\ Len(a) = Len(c)
    <2> DEFINE O == {Older(c[i]) : i \in 1 .. Len(c)}
    <2>1. a \in Seq(O)
        BY <1>3, <1>5
    <2>2. DOMAIN a = 1 .. Len(c)
        BY <1>3
    <2> HIDE DEF O
    <2>3. DOMAIN a = 1 .. Len(a) /\ Len(a) \in Nat /\ a \in Seq(Entries(a))
        BY <2>1, SequenceOfEntries
    <2> QED
        BY <1>1, <2>2, <2>3
<1>7. ASSUME NEW i \in 1 .. Len(c)
      PROVE  /\ Entry(a[i]) /\ a[i].key = c[i].key /\ a[i].value = c[i].value
             /\ a[i].left = IF c[i].left > 0 THEN c[i].left - 1 ELSE 0
    BY <1>2, <1>3, <1>4
<1>8. OneEach(a)
    BY <1>6, <1>7 DEF IsCache, OneEach
<1>9. \A x \in Entries(a) : Entry(x)
    BY <1>6, <1>7 DEF Entries
<1> QED
    BY <1>6, <1>7, <1>8, <1>9 DEF a, IsCache, Entries

LEMMA EmptyRight == IsCache(EmptyCache) /\ Entries(EmptyCache) = {} /\ Len(EmptyCache) = 0
<1>1. Entries(<<>>) = {}
    BY DEF Entries
<1> QED
    BY <1>1 DEF IsCache, EmptyCache, OneEach

(***************************************************************************)
(* The invariant                                                           *)
(***************************************************************************)
(* What the days of an answer say of a plan id is what was stored under it *)
(* at two moments not longer than "most" ago: one for the dish, one for    *)
(* its prices.                                                             *)
PricesIn(x) == IF x = None THEN {} ELSE x.prices
TellsOf(ages, k, days, p, most, y, z) ==
    /\ ages[y] <= most /\ ages[z] <= most
    /\ \A d \in k.from .. k.to : \A s \in days[d] : s.plan = p =>
          y # None /\ s.name = y.name /\ s.prices = PricesIn(z)
    /\ y # None /\ y.canteen = k.canteen /\ y.date \in k.from .. k.to =>
          \E s \in days[y.date] : s.plan = p /\ s.name = y.name /\ s.prices = PricesIn(z)
Tells(ages, k, days, p, most) ==
    \E y, z \in Contents \cup {None} : TellsOf(ages, k, days, p, most, y, z)

(* A dictionary that differs from the stored one only by changes not       *)
(* longer ago than "most"; dishes that were labelled by it.                *)
Behind(dict, stored, since, most) == \A c \in Codes : dict[c] # stored[c] => since[c] <= most
AllergensBy(dict, codes) ==
    LET own == {AllergenOf(c, dict) : c \in codes} \ {None}
    IN  own \cup ({Parent[a] : a \in own} \ {None})
Labelled(days, dict) ==
    \A d \in DOMAIN days : \A s \in days[d] :
        /\ s.plan \in Plans
        /\ \E codes \in SUBSET Codes : /\ s.markers = {<<c, dict[c]>> : c \in codes}
                                       /\ s.allergens = AllergensBy(dict, codes)
LabelledBehind(days, stored, since, most) ==
    \E dict \in Dictionary : Behind(dict, stored, since, most) /\ Labelled(days, dict)
Told(ages, stored, since, k, days, most) ==
    /\ DOMAIN days = k.from .. k.to
    /\ \A p \in Plans : Tells(ages[p], k, days, p, most)
    /\ LabelledBehind(days, stored, since, DictTtl + most)

Build == [key : Keys, age : 0 .. BuildTime, dishes : Table \cup {None},
          dict : Dictionary \cup {None}, import : Nat]

(* The rows a build has read are stored or were, while it was at it; a row *)
(* whose prices it will not find was replaced meanwhile.                   *)
DishesRecent(b, m, ages) ==
    b.dishes # None => \A p \in Plans :
        /\ ages[p][ContentOf(b.dishes[p])] <= b.age
        /\ b.dishes[p] # None /\ (m[p] = None \/ m[p].row # b.dishes[p].row)
              => ages[p][None] <= b.age
DictionaryRecent(b, stored, since) ==
    b.dict # None => Behind(b.dict, stored, since, DictTtl + b.age)

Since == [Codes -> Nat]
Ages == [Plans -> [Contents \cup {None} -> Nat]]
Typed ==
    /\ meals \in Table /\ labels \in Dictionary
    /\ gone \in Ages
    /\ known \in Since
    /\ builds \subseteq Build
    /\ dictFlight \in {None} \cup 0 .. BuildTime
    /\ edits \in 0 .. MaxEdits /\ faults \in 0 .. MaxFaults
    /\ \A p \in Plans : gone[p][ContentOf(meals[p])] = 0
CachesInv ==
    /\ IsCache(menuCache) /\ Len(menuCache) <= Capacity
    /\ IsCache(dictCache) /\ Len(dictCache) <= 1
    /\ \A e \in Entries(menuCache) :
          /\ e.key \in Keys /\ e.left <= MenuTtl
          /\ e.left > 0 => Told(gone, labels, known, e.key, e.value.days,
                                BuildTime + MenuTtl - e.left)
    /\ \A e \in Entries(dictCache) :
          /\ e.key = "all" /\ e.value \in Dictionary /\ e.left <= DictTtl
          /\ e.left > 0 => Behind(e.value, labels, known, DictTtl - e.left)
BuildsInv ==
    /\ pending = {b.key : b \in builds}
    /\ \A b, c \in builds : b.key = c.key => b = c
    /\ \A b \in builds : Waiting(b) => dictFlight # None
    /\ \A b \in builds : DishesRecent(b, meals, gone) /\ DictionaryRecent(b, labels, known)
ForwardInv ==
    /\ seen \in [Keys -> Nat] /\ \A k \in Keys : seen[k] <= edits
    /\ \A e \in Entries(menuCache) : /\ e.value.import \in 0 .. edits
                                     /\ seen[e.key] <= e.value.import
    /\ \A b \in builds : /\ b.import <= edits
                         /\ b.dishes # None => seen[b.key] <= b.import
                         /\ \A e \in Entries(menuCache) : e.key # b.key
AnswerInv ==
    answer # None => /\ answer.key \in Keys
                     /\ Told(gone, labels, known, answer.key, answer.days, Horizon - 1)
Inv == Typed /\ CachesInv /\ BuildsInv /\ ForwardInv /\ AnswerInv

(***************************************************************************)
(* What was recent a moment ago is recent still                            *)
(***************************************************************************)
(* At most n units of time pass, and labels change or do not.              *)
Drift(ages, stored, since, ages2, stored2, since2, n) ==
    /\ \A p \in Plans, x \in Contents \cup {None} : ages2[p][x] <= ages[p][x] + n
    /\ \A c \in Codes : \/ stored2[c] = stored[c] /\ since2[c] <= since[c] + n
                        \/ since2[c] = 0

LEMMA BehindLater ==
    ASSUME NEW n \in Nat, NEW ages, NEW ages2, NEW stored, NEW stored2,
           NEW since \in Since, NEW since2 \in Since,
           Drift(ages, stored, since, ages2, stored2, since2, n),
           NEW dict, NEW most \in Nat, Behind(dict, stored, since, most)
    PROVE  Behind(dict, stored2, since2, most + n)
<1> SUFFICES ASSUME NEW c \in Codes, dict[c] # stored2[c] PROVE since2[c] <= most + n
    BY DEF Behind
<1>1. since[c] \in Nat /\ since2[c] \in Nat
    BY DEF Since
<1>2. dict[c] # stored[c] => since[c] <= most
    BY DEF Behind
<1> QED
    BY <1>1, <1>2 DEF Drift

LEMMA ToldLater ==
    ASSUME NEW n \in Nat, NEW ages \in Ages, NEW ages2 \in Ages, NEW stored, NEW stored2,
           NEW since \in Since, NEW since2 \in Since,
           Drift(ages, stored, since, ages2, stored2, since2, n),
           NEW k, NEW days, NEW most \in Nat, Told(ages, stored, since, k, days, most)
    PROVE  Told(ages2, stored2, since2, k, days, most + n)
<1>1. ASSUME NEW p \in Plans PROVE Tells(ages2[p], k, days, p, most + n)
    <2>1. PICK y \in Contents \cup {None}, z \in Contents \cup {None} :
             TellsOf(ages[p], k, days, p, most, y, z)
        BY DEF Told, Tells
    <2>2. /\ ages[p][y] \in Nat /\ ages2[p][y] \in Nat /\ ages[p][z] \in Nat
          /\ ages2[p][z] \in Nat
        BY DEF Ages
    <2>3. ages2[p][y] <= ages[p][y] + n /\ ages2[p][z] <= ages[p][z] + n
        BY DEF Drift
    <2>4. ages[p][y] <= most /\ ages[p][z] <= most
        BY <2>1 DEF TellsOf
    <2>5. ages2[p][y] <= most + n /\ ages2[p][z] <= most + n
        BY <2>2, <2>3, <2>4
    <2>6. TellsOf(ages2[p], k, days, p, most + n, y, z)
        BY <2>1, <2>5 DEF TellsOf
    <2> QED
        BY <2>6 DEF Tells
<1>2. LabelledBehind(days, stored2, since2, DictTtl + (most + n))
    <2>1. PICK dict \in Dictionary : Behind(dict, stored, since, DictTtl + most)
                                      /\ Labelled(days, dict)
        BY DEF Told, LabelledBehind
    <2>2. DictTtl + most \in Nat /\ (DictTtl + most) + n = DictTtl + (most + n)
        BY MenuAssumption
    <2>3. Behind(dict, stored2, since2, DictTtl + (most + n))
        BY <2>1, <2>2, BehindLater
    <2> QED
        BY <2>1, <2>3 DEF LabelledBehind
<1> QED
    BY <1>1, <1>2 DEF Told

LEMMA ToldLonger ==
    ASSUME NEW ages \in Ages, NEW stored, NEW since \in Since,
           NEW k, NEW days, NEW most \in Nat, Told(ages, stored, since, k, days, most),
           NEW more \in Nat, most <= more
    PROVE  Told(ages, stored, since, k, days, more)
<1>1. Drift(ages, stored, since, ages, stored, since, more - most)
    BY DEF Drift, Ages, Since
<1>2. more - most \in Nat /\ most + (more - most) = more
    OBVIOUS
<1> QED
    BY <1>1, <1>2, ToldLater

(***************************************************************************)
(* Types                                                                   *)
(***************************************************************************)
LEMMA HitRight ==
    ASSUME NEW c, NEW k, IsHit(c, k), IsCache(c)
    PROVE  \E e \in Entries(c) : /\ e.key = k /\ e.left \in Nat /\ e.left > 0
                                 /\ Hit(c, k) = e.value
<1>1. Holds(c, k) /\ EntryFor(c, k).left > 0
    BY DEF IsHit
<1>2. EntryFor(c, k) \in Entries(c) /\ EntryFor(c, k).key = k
    BY <1>1, EntryForRight
<1>3. EntryFor(c, k).left \in Nat
    BY <1>2 DEF IsCache, Entry
<1> QED
    BY <1>1, <1>2, <1>3 DEF Hit

LEMMA NothingElse ==
    /\ None \notin Contents /\ None \notin Row /\ None \notin Table
    /\ None \notin Dictionary /\ None \notin Nat
    /\ MenuTtl \in Nat \ {0} /\ DictTtl \in Nat \ {0} /\ Capacity \in Nat \ {0}
    /\ BuildTime \in Nat /\ MaxEdits \in Nat /\ MaxFaults \in Nat
BY MenuAssumption

LEMMA StoredRow ==
    ASSUME NEW i \in Imports, NEW p \in Plans, NEW m \in Table, NEW n \in 0 .. MaxEdits - 1
    PROVE  LET r == IF i.menu[p] = None THEN None
                    ELSE [row |-> IF m[p] = None THEN n + 1 ELSE m[p].row, is |-> i.menu[p]]
           IN  r \in Row \cup {None} /\ ContentOf(r) = i.menu[p]
<1>1. i.menu[p] \in Contents \cup {None} /\ m[p] \in Row \cup {None}
    BY MenuAssumption DEF Table
<1>2. CASE i.menu[p] = None
    BY <1>2 DEF ContentOf
<1>3. CASE i.menu[p] # None
    <2> DEFINE r == [row |-> IF m[p] = None THEN n + 1 ELSE m[p].row, is |-> i.menu[p]]
    <2>1. (IF m[p] = None THEN n + 1 ELSE m[p].row) \in 0 .. MaxEdits
        BY <1>1, NothingElse DEF Row
    <2>2. r \in Row
        BY <1>1, <1>3, <2>1 DEF Row
    <2>3. r # None
        BY <2>2, NothingElse
    <2> QED
        BY <1>3, <2>2, <2>3 DEF ContentOf
<1> QED
    BY <1>2, <1>3

LEMMA NewBuildRight ==
    ASSUME NEW k \in Keys, NEW d \in Dictionary \cup {None}
    PROVE  /\ NewBuild(k, d) \in Build
           /\ NewBuild(k, d).key = k /\ NewBuild(k, d).dict = d /\ NewBuild(k, d).dishes = None
BY NothingElse DEF NewBuild, Build

LEMMA BuildChanged ==
    ASSUME NEW b \in Build
    PROVE  /\ \A d \in Dictionary : /\ [b EXCEPT !.dict = d] \in Build
                                    /\ [b EXCEPT !.dict = d].key = b.key
                                    /\ [b EXCEPT !.dict = d].dict = d
                                    /\ [b EXCEPT !.dict = d].age = b.age
                                    /\ [b EXCEPT !.dict = d].dishes = b.dishes
                                    /\ [b EXCEPT !.dict = d].import = b.import
           /\ b.age < BuildTime =>
                 LET c == [b EXCEPT !.age = @ + 1]
                 IN  /\ c \in Build /\ c.key = b.key /\ c.age = b.age + 1 /\ c.dict = b.dict
                     /\ c.dishes = b.dishes /\ c.import = b.import
<1>1. BuildTime \in Nat
    BY NothingElse
<1> QED
    BY <1>1 DEF Build

(* The first query: the rows that are stored, and what import left them.   *)
WithDishes(b, m, n) == [b EXCEPT !.dishes = m, !.import = n]
LEMMA DishesChanged ==
    ASSUME NEW b \in Build, NEW m \in Table, NEW n \in Nat
    PROVE  /\ WithDishes(b, m, n) \in Build /\ WithDishes(b, m, n).key = b.key
           /\ WithDishes(b, m, n).age = b.age /\ WithDishes(b, m, n).dict = b.dict
           /\ WithDishes(b, m, n).dishes = m /\ WithDishes(b, m, n).import = n
<1>1. WithDishes(b, m, n) = [[b EXCEPT !.dishes = m] EXCEPT !.import = n]
    BY DEF WithDishes, Build
<1> DEFINE c == [b EXCEPT !.dishes = m]
<1>2. c \in Build /\ c.key = b.key /\ c.age = b.age /\ c.dict = b.dict /\ c.dishes = m
    BY DEF Build
<1> HIDE DEF c
<1>3. /\ [c EXCEPT !.import = n] \in Build /\ [c EXCEPT !.import = n].key = c.key
      /\ [c EXCEPT !.import = n].age = c.age /\ [c EXCEPT !.import = n].dict = c.dict
      /\ [c EXCEPT !.import = n].dishes = c.dishes /\ [c EXCEPT !.import = n].import = n
    BY <1>2 DEF Build
<1> QED
    BY <1>1, <1>2, <1>3 DEF c

LEMMA TypedInit == Init => Typed
<1> SUFFICES ASSUME Init PROVE Typed
    OBVIOUS
<1>1. PICK i \in Imports :
         /\ labels = i.dict
         /\ meals = [p \in Plans |-> IF i.menu[p] = None THEN None
                                     ELSE [row |-> 0, is |-> i.menu[p]]]
         /\ gone = [p \in Plans |-> [x \in Contents \cup {None} |->
                       IF i.menu[p] = x THEN 0 ELSE Horizon]]
    BY DEF Init
<1>2. Horizon \in Nat /\ Settling \in Nat
    BY NothingElse DEF Horizon, Settling
<1>3. ASSUME NEW p \in Plans
      PROVE  meals[p] \in Row \cup {None} /\ ContentOf(meals[p]) = i.menu[p]
             /\ i.menu[p] \in Contents \cup {None}
    <2>1. i.menu[p] \in Contents \cup {None}
        BY MenuAssumption
    <2>2. CASE i.menu[p] = None
        BY <1>1, <2>2 DEF ContentOf
    <2>3. CASE i.menu[p] # None
        <3>1. [row |-> 0, is |-> i.menu[p]] \in Row
            BY <2>1, <2>3, NothingElse DEF Row
        <3> QED
            BY <1>1, <2>1, <2>3, <3>1, NothingElse DEF ContentOf
    <2> QED
        BY <2>2, <2>3
<1>4. meals \in Table
    BY <1>1, <1>3 DEF Table
<1>5. gone \in Ages /\ known \in Since
    BY <1>1, <1>2 DEF Ages, Since, Init
<1>6. \A p \in Plans : gone[p][ContentOf(meals[p])] = 0
    BY <1>1, <1>3
<1>7. labels \in Dictionary
    BY <1>1, MenuAssumption
<1>8. /\ builds = {} /\ dictFlight = None /\ edits = 0 /\ faults = 0
      /\ 0 \in 0 .. MaxEdits /\ 0 \in 0 .. MaxFaults
    BY NothingElse DEF Init
<1> QED
    BY <1>4, <1>5, <1>6, <1>7, <1>8 DEF Typed

(* Time that passes and imports that commit, seen from the histories.      *)
LEMMA Drifts ==
    ASSUME Typed, Import \/ Tick
    PROVE  /\ gone' \in Ages /\ known' \in Since
           /\ meals' \in Table /\ labels' \in Dictionary
           /\ \A p \in Plans : gone'[p][ContentOf(meals'[p])] = 0
           /\ Import => Drift(gone, labels, known, gone', labels', known', 0)
           /\ Tick => Drift(gone, labels, known, gone', labels', known', 1)
<1>0. Horizon \in Nat /\ Settling \in Nat
    BY NothingElse DEF Horizon, Settling
<1>1. /\ meals \in Table /\ labels \in Dictionary /\ gone \in Ages /\ known \in Since
      /\ edits \in 0 .. MaxEdits
      /\ \A p \in Plans, x \in Contents \cup {None} : gone[p][x] \in Nat
      /\ \A c \in Codes : known[c] \in Nat
    BY DEF Typed, Ages, Since
<1>2. CASE Import
    <2>1. PICK i \in Imports :
             /\ meals' = [p \in Plans |->
                   IF i.menu[p] = None THEN None
                   ELSE [row |-> IF meals[p] = None THEN edits + 1 ELSE meals[p].row,
                         is |-> i.menu[p]]]
             /\ labels' = i.dict
             /\ gone' = [p \in Plans |-> [x \in Contents \cup {None} |->
                           IF i.menu[p] = x THEN 0 ELSE gone[p][x]]]
             /\ known' = [c \in Codes |-> IF i.dict[c] = labels[c] THEN known[c] ELSE 0]
        BY <1>2 DEF Import
    <2>2. edits \in 0 .. MaxEdits - 1
        BY <1>1, <1>2, NothingElse DEF Import
    <2>3. \A p \in Plans : meals'[p] \in Row \cup {None} /\ ContentOf(meals'[p]) = i.menu[p]
                           /\ i.menu[p] \in Contents \cup {None}
        BY <1>1, <2>1, <2>2, StoredRow, MenuAssumption
    <2>4. meals' \in Table
        <3>1. meals' = [p \in Plans |-> meals'[p]]
            BY <2>1
        <3> QED
            BY <2>3, <3>1 DEF Table
    <2>5. labels' \in Dictionary
        BY <2>1, MenuAssumption
    <2>6. gone' \in Ages /\ known' \in Since
        BY <1>1, <2>1 DEF Ages, Since
    <2>7. \A p \in Plans : gone'[p][ContentOf(meals'[p])] = 0
        BY <2>1, <2>3
    <2>8. \A p \in Plans, x \in Contents \cup {None} : gone'[p][x] <= gone[p][x] + 0
        BY <1>1, <2>1
    <2>9. \A c \in Codes : \/ labels'[c] = labels[c] /\ known'[c] <= known[c] + 0
                          \/ known'[c] = 0
        BY <1>1, <2>1
    <2>10. ~Tick
        BY <1>1, <1>2 DEF Import, Tick
    <2> QED
        BY <2>4, <2>5, <2>6, <2>7, <2>8, <2>9, <2>10 DEF Drift
<1>3. CASE Tick
    <2>1. /\ gone' = [p \in Plans |-> [x \in Contents \cup {None} |->
                        IF ContentOf(meals[p]) = x THEN 0 ELSE UpTo(gone[p][x], Horizon)]]
          /\ known' = [c \in Codes |-> UpTo(known[c], Settling)]
          /\ UNCHANGED <<meals, labels, edits>>
        BY <1>3 DEF Tick, tables
    <2>2. \A n \in Nat, most \in Nat : UpTo(n, most) \in Nat /\ UpTo(n, most) <= n + 1
        BY DEF UpTo
    <2>3. ASSUME NEW p \in Plans, NEW x \in Contents \cup {None}
          PROVE  gone'[p][x] \in Nat /\ gone'[p][x] <= gone[p][x] + 1
        <3>1. gone'[p][x] = IF ContentOf(meals[p]) = x THEN 0 ELSE UpTo(gone[p][x], Horizon)
            BY <2>1
        <3>2. UpTo(gone[p][x], Horizon) \in Nat /\ UpTo(gone[p][x], Horizon) <= gone[p][x] + 1
            BY <1>0, <1>1, <2>2
        <3> QED
            BY <1>1, <3>1, <3>2
    <2>4. ASSUME NEW c \in Codes
          PROVE  known'[c] \in Nat /\ known'[c] <= known[c] + 1
        BY <1>0, <1>1, <2>1, <2>2
    <2>5. gone' \in Ages
        <3>1. gone' = [p \in Plans |-> [x \in Contents \cup {None} |-> gone'[p][x]]]
            BY <2>1
        <3> QED
            BY <2>3, <3>1 DEF Ages
    <2>6. known' \in Since
        <3>1. known' = [c \in Codes |-> known'[c]]
            BY <2>1
        <3> QED
            BY <2>4, <3>1 DEF Since
    <2>7. \A p \in Plans : gone'[p][ContentOf(meals'[p])] = 0
        <3> TAKE p \in Plans
        <3>1. meals[p] \in Row \cup {None}
            BY <1>1 DEF Table
        <3>2. ContentOf(meals[p]) \in Contents \cup {None}
            BY <3>1 DEF ContentOf, Row
        <3>3. gone'[p] = [x \in Contents \cup {None} |->
                        IF ContentOf(meals[p]) = x THEN 0 ELSE UpTo(gone[p][x], Horizon)]
            BY <2>1
        <3> QED
            BY <2>1, <3>2, <3>3
    <2>8. Drift(gone, labels, known, gone', labels', known', 1)
        BY <2>1, <2>3, <2>4 DEF Drift
    <2>9. ~Import
        BY <1>1, <2>1, NothingElse DEF Import
    <2> QED
        BY <1>1, <2>1, <2>5, <2>6, <2>7, <2>8, <2>9
<1> QED
    BY <1>2, <1>3

LEMMA InitInv == Init => Inv
<1> SUFFICES ASSUME Init PROVE Inv
    OBVIOUS
<1>1. Typed
    BY TypedInit
<1>2. /\ menuCache = EmptyCache /\ dictCache = EmptyCache
      /\ builds = {} /\ pending = {} /\ answer = None
      /\ seen = [k \in Keys |-> 0] /\ edits = 0
    BY DEF Init
<1>3. CachesInv
    BY <1>2, EmptyRight, NothingElse DEF CachesInv
<1>4. BuildsInv /\ ForwardInv /\ AnswerInv
    BY <1>2, EmptyRight DEF BuildsInv, ForwardInv, AnswerInv
<1> QED
    BY <1>1, <1>3, <1>4 DEF Inv

(***************************************************************************)
(* A menu as it is built                                                   *)
(***************************************************************************)
LEMMA DaysTold ==
    ASSUME Typed, BuildsInv, NEW b \in builds, b.dishes # None, ~Waiting(b)
    PROVE  Told(gone, labels, known, b.key, Days(b.key, b.dishes, meals, b.dict), b.age)
<1> DEFINE k == b.key
           days == Days(b.key, b.dishes, meals, b.dict)
<1>1. /\ b \in Build /\ b.dishes \in Table /\ b.dict \in Dictionary /\ b.age \in Nat
      /\ b.key \in Keys
    BY NothingElse DEF Typed, Build, Waiting
<1>2. /\ DOMAIN days = k.from .. k.to
      /\ \A d \in k.from .. k.to : days[d] =
            {Dish(meals, b.dict, p, b.dishes[p]) :
                p \in {q \in Plans : /\ b.dishes[q] # None
                                     /\ InRange(k, b.dishes[q].is)
                                     /\ b.dishes[q].is.date = d}}
    BY DEF Days
<1> HIDE DEF days
<1>3. ASSUME NEW p \in Plans, NEW r
      PROVE  LET s == Dish(meals, b.dict, p, r)
             IN  /\ s.plan = p /\ s.name = r.is.name /\ s.prices = PricesOf(meals, p, r.row)
                 /\ s.markers = {<<c, b.dict[c]>> : c \in r.is.codes}
                 /\ s.allergens = AllergensBy(b.dict, r.is.codes)
    BY DEF Dish, Classify, AllergensBy
<1>4. ASSUME NEW p \in Plans PROVE Tells(gone[p], k, days, p, b.age)
    <2> DEFINE r == b.dishes[p]
               y == ContentOf(r)
               same == r # None /\ meals[p] # None /\ meals[p].row = r.row
               z == IF same THEN ContentOf(meals[p]) ELSE None
    <2>1. r \in Row \cup {None} /\ meals[p] \in Row \cup {None}
        BY <1>1 DEF Table, Typed
    <2>2. y \in Contents \cup {None} /\ z \in Contents \cup {None}
        BY <2>1 DEF ContentOf, Row
    <2>3. gone[p][y] <= b.age
        BY DEF BuildsInv, DishesRecent
    <2>4. gone[p][z] <= b.age
        <3>1. CASE same
            BY <1>1, <3>1 DEF Typed
        <3>2. CASE ~same /\ r # None
            BY <3>2 DEF BuildsInv, DishesRecent
        <3>3. CASE r = None
            BY <2>3, <3>3 DEF ContentOf
        <3> QED
            BY <3>1, <3>2, <3>3
    <2>5. ASSUME r # None
          PROVE  y = r.is /\ y # None /\ PricesOf(meals, p, r.row) = PricesIn(z)
        <3>1. y = r.is /\ y # None
            BY <2>1, <2>5, NothingElse DEF ContentOf, Row
        <3>2. CASE same
            <4>1. z = meals[p].is /\ z # None
                BY <2>1, <3>2, NothingElse DEF ContentOf, Row
            <4> QED
                BY <3>1, <3>2, <4>1 DEF PricesOf, PricesIn
        <3>3. CASE ~same
            BY <2>5, <3>1, <3>3 DEF PricesOf, PricesIn
        <3> QED
            BY <3>2, <3>3
    <2>6. r = None => y = None
        BY DEF ContentOf
    <2> HIDE DEF y, z
    <2>7. ASSUME NEW d \in k.from .. k.to, NEW s \in days[d], s.plan = p
          PROVE  y # None /\ s.name = y.name /\ s.prices = PricesIn(z)
        <3>1. PICK q \in Plans : b.dishes[q] # None /\ s = Dish(meals, b.dict, q, b.dishes[q])
            BY <1>2
        <3>2. q = p
            BY <1>3, <2>7, <3>1
        <3> QED
            BY <1>3, <2>5, <3>1, <3>2
    <2>8. ASSUME y # None, y.canteen = k.canteen, y.date \in k.from .. k.to
          PROVE  \E s \in days[y.date] : s.plan = p /\ s.name = y.name /\ s.prices = PricesIn(z)
        <3>1. r # None /\ y = r.is
            BY <2>5, <2>6, <2>8
        <3>2. InRange(k, r.is)
            BY <1>1, <2>8, <3>1, MenuAssumption DEF InRange
        <3>3. Dish(meals, b.dict, p, r) \in days[y.date]
            BY <1>2, <2>8, <3>1, <3>2
        <3> QED
            BY <1>3, <2>5, <3>1, <3>3
    <2>9. TellsOf(gone[p], k, days, p, b.age, y, z)
        BY <2>3, <2>4, <2>7, <2>8 DEF TellsOf
    <2> QED
        BY <2>2, <2>9 DEF Tells
<1>5. Labelled(days, b.dict)
    <2> SUFFICES ASSUME NEW d \in k.from .. k.to, NEW s \in days[d]
                 PROVE  /\ s.plan \in Plans
                        /\ \E codes \in SUBSET Codes :
                               /\ s.markers = {<<c, b.dict[c]>> : c \in codes}
                               /\ s.allergens = AllergensBy(b.dict, codes)
        BY <1>2 DEF Labelled
    <2>1. PICK q \in Plans : b.dishes[q] # None /\ s = Dish(meals, b.dict, q, b.dishes[q])
        BY <1>2
    <2>2. b.dishes[q] \in Row
        BY <1>1, <2>1 DEF Table
    <2>3. b.dishes[q].is.codes \in SUBSET Codes
        BY <2>2, MenuAssumption DEF Row
    <2> QED
        BY <1>3, <2>1, <2>3
<1>6. Behind(b.dict, labels, known, DictTtl + b.age)
    BY DEF BuildsInv, DictionaryRecent, Waiting
<1> QED
    BY <1>1, <1>2, <1>4, <1>5, <1>6 DEF Told, LabelledBehind, days

(***************************************************************************)
(* Every step keeps the invariant                                          *)
(***************************************************************************)
(* A menu that is kept.                                                    *)
LEMMA KeptStep ==
    ASSUME Inv, NEW k \in Keys, Kept(k)
    PROVE  Inv'
<1>1. /\ IsHit(menuCache, k) /\ menuCache' = Touched(menuCache, k)
      /\ answer' = [key |-> k, days |-> Hit(menuCache, k).days]
      /\ seen' = [seen EXCEPT ![k] = Hit(menuCache, k).import]
      /\ UNCHANGED <<meals, labels, dictCache, dictFlight, builds, pending, gone, known,
                     edits, faults>>
    BY DEF Kept, Answers, tables
<1>2. Typed /\ CachesInv /\ BuildsInv /\ ForwardInv
    BY DEF Inv
<1>3. PICK e \in Entries(menuCache) : /\ e.key = k /\ e.left \in Nat /\ e.left > 0
                                      /\ Hit(menuCache, k) = e.value
    BY <1>1, <1>2, HitRight DEF CachesInv
<1>4. /\ IsCache(menuCache') /\ Entries(menuCache') = Entries(menuCache)
      /\ Len(menuCache') = Len(menuCache)
    BY <1>1, <1>2, TouchedRight DEF IsHit, CachesInv
<1>5. Typed'
    BY <1>1, <1>2 DEF Typed
<1>6. CachesInv'
    BY <1>1, <1>2, <1>4 DEF CachesInv
<1>7. BuildsInv'
    BY <1>1, <1>2 DEF BuildsInv, DishesRecent, DictionaryRecent
<1>8. ForwardInv'
    <2>1. /\ e.value.import \in 0 .. edits /\ seen[k] <= e.value.import
          /\ \A x \in Entries(menuCache) : x.key = k => x = e
        BY <1>2, <1>3 DEF ForwardInv, CachesInv, IsCache, OneEach, Entries
    <2>2. edits \in Nat
        BY <1>2 DEF Typed
    <2>3. /\ seen' \in [Keys -> Nat] /\ seen'[k] = e.value.import
          /\ \A j \in Keys : j # k => seen'[j] = seen[j]
        BY <1>1, <1>2, <1>3, <2>1, <2>2 DEF ForwardInv
    <2>4. \A j \in Keys : seen'[j] <= edits'
        BY <1>1, <1>2, <2>1, <2>3 DEF ForwardInv
    <2>5. \A x \in Entries(menuCache') : /\ x.value.import \in 0 .. edits'
                                         /\ seen'[x.key] <= x.value.import
        BY <1>1, <1>2, <1>4, <2>1, <2>2, <2>3 DEF ForwardInv, CachesInv
    <2>6. \A b \in builds' : /\ b.import <= edits'
                             /\ b.dishes # None => seen'[b.key] <= b.import
                             /\ \A x \in Entries(menuCache') : x.key # b.key
        <3> TAKE b \in builds'
        <3>1. b \in builds /\ b.key # k /\ b.key \in Keys
            BY <1>1, <1>2, <1>3 DEF ForwardInv, Typed, Build
        <3> QED
            BY <1>1, <1>2, <1>4, <2>3, <3>1 DEF ForwardInv
    <2> QED
        BY <2>3, <2>4, <2>5, <2>6 DEF ForwardInv
<1>9. AnswerInv'
    <2> DEFINE most == BuildTime + MenuTtl - e.left
    <2>1. Told(gone, labels, known, k, e.value.days, most) /\ e.left <= MenuTtl
        BY <1>2, <1>3 DEF CachesInv
    <2>2. /\ most \in Nat /\ Horizon - 1 \in Nat /\ most <= Horizon - 1
        BY <1>3, <2>1, NothingElse DEF Horizon
    <2> HIDE DEF most
    <2>3. gone \in Ages /\ known \in Since
        BY <1>2 DEF Typed
    <2>4. Told(gone, labels, known, k, e.value.days, Horizon - 1)
        BY <2>1, <2>2, <2>3, ToldLonger
    <2>5. answer'.key = k /\ answer'.days = e.value.days
        BY <1>1, <1>3
    <2>6. Told(gone', labels', known', answer'.key, answer'.days, Horizon - 1)
        BY <1>1, <2>4, <2>5
    <2> QED
        BY <2>5, <2>6 DEF AnswerInv
<1> QED
    BY <1>5, <1>6, <1>7, <1>8, <1>9 DEF Inv

(* What several steps share: an answer is given by two of them only, and   *)
(* caches and histories that stay as they are stay right.                  *)
LEMMA Untold ==
    ASSUME Inv, answer' = None PROVE AnswerInv'
BY DEF AnswerInv

LEMMA CachesStay ==
    ASSUME CachesInv, UNCHANGED <<caches, labels, gone, known>> PROVE CachesInv'
BY DEF CachesInv, caches

(* A build is begun.                                                       *)
LEMMA BeginStep ==
    ASSUME Inv, NEW k \in Keys, Begin(k)
    PROVE  Inv'
<1>1. /\ k \notin pending /\ menuCache' = Without(menuCache, k)
      /\ pending' = pending \cup {k} /\ answer' = None
      /\ UNCHANGED <<meals, labels, seen, gone, known, edits, faults>>
    BY DEF Begin, MayBegin, Missed, tables, history
<1>2. Typed /\ CachesInv /\ BuildsInv /\ ForwardInv
    BY DEF Inv
<1>3. PICK d \in Dictionary \cup {None} :
         /\ builds' = builds \cup {NewBuild(k, d)}
         /\ d = None => dictFlight' # None
         /\ d # None => Behind(d, labels, known, DictTtl)
         /\ IsCache(dictCache') /\ Len(dictCache') <= 1
         /\ Entries(dictCache') \subseteq Entries(dictCache)
         /\ dictFlight' \in {None} \cup 0 .. BuildTime
         /\ dictFlight # None => dictFlight' # None
    <2>1. CASE IsHit(dictCache, "all")
        <3>1. /\ builds' = builds \cup {NewBuild(k, Hit(dictCache, "all"))}
              /\ dictCache' = Touched(dictCache, "all") /\ dictFlight' = dictFlight
            BY <2>1 DEF Begin
        <3>2. PICK e \in Entries(dictCache) : /\ e.left \in Nat /\ e.left > 0
                                              /\ Hit(dictCache, "all") = e.value
            BY <1>2, <2>1, HitRight DEF CachesInv
        <3>3. /\ IsCache(dictCache') /\ Entries(dictCache') = Entries(dictCache)
              /\ Len(dictCache') = Len(dictCache)
            BY <1>2, <2>1, <3>1, TouchedRight DEF IsHit, CachesInv
        <3>4. /\ e.value \in Dictionary /\ e.left <= DictTtl
              /\ Behind(e.value, labels, known, DictTtl - e.left)
            BY <1>2, <3>2 DEF CachesInv
        <3>5. Behind(e.value, labels, known, DictTtl)
            <4> SUFFICES ASSUME NEW c \in Codes, e.value[c] # labels[c]
                         PROVE  known[c] <= DictTtl
                BY DEF Behind
            <4>1. known[c] \in Nat /\ known[c] <= DictTtl - e.left
                BY <1>2, <3>4 DEF Typed, Since, Behind
            <4> QED
                BY <3>2, <4>1, NothingElse
        <3>6. e.value # None
            BY <3>4, NothingElse
        <3> QED
            BY <1>2, <3>1, <3>2, <3>3, <3>4, <3>5, <3>6 DEF Typed, CachesInv
    <2>2. CASE ~IsHit(dictCache, "all")
        <3>1. /\ builds' = builds \cup {NewBuild(k, None)}
              /\ dictCache' = Without(dictCache, "all")
              /\ dictFlight' = IF dictFlight = None THEN 0 ELSE dictFlight
            BY <2>2 DEF Begin, Missed
        <3>2. /\ IsCache(dictCache') /\ Entries(dictCache') \subseteq Entries(dictCache)
              /\ Len(dictCache') = IF Holds(dictCache, "all") THEN Len(dictCache) - 1
                                   ELSE Len(dictCache)
              /\ Len(dictCache) \in Nat
            BY <1>2, <3>1, WithoutRight DEF CachesInv, IsCache
        <3>3. Len(dictCache') <= 1
            BY <1>2, <3>2 DEF CachesInv
        <3>4. dictFlight' \in {None} \cup 0 .. BuildTime /\ dictFlight' # None
            BY <1>2, <3>1, NothingElse DEF Typed
        <3> QED
            BY <3>1, <3>2, <3>3, <3>4
    <2> QED
        BY <2>1, <2>2
<1> DEFINE n == NewBuild(k, d)
<1>4. /\ n \in Build /\ n.key = k /\ n.dict = d /\ n.dishes = None /\ n.age = 0
      /\ n.import = 0
    BY NewBuildRight DEF NewBuild
<1> HIDE DEF n
<1>5. /\ IsCache(menuCache') /\ Len(menuCache') <= Capacity
      /\ Entries(menuCache') = {e \in Entries(menuCache) : e.key # k}
    <2>1. Len(menuCache) \in Nat
        BY <1>2 DEF CachesInv, IsCache
    <2> QED
        BY <1>1, <1>2, <2>1, WithoutRight, NothingElse DEF CachesInv
<1>6. Typed'
    BY <1>1, <1>2, <1>3, <1>4 DEF Typed, n
<1>7. CachesInv'
    BY <1>1, <1>2, <1>3, <1>5 DEF CachesInv
<1>8. BuildsInv'
    <2>1. builds' = builds \cup {n}
        BY <1>3 DEF n
    <2>2. pending' = {b.key : b \in builds'}
        BY <1>1, <1>2, <1>4, <2>1 DEF BuildsInv
    <2>3. \A b, c \in builds' : b.key = c.key => b = c
        BY <1>1, <1>2, <1>4, <2>1 DEF BuildsInv
    <2>4. \A b \in builds' : Waiting(b) => dictFlight' # None
        BY <1>2, <1>3, <1>4, <2>1 DEF BuildsInv, Waiting
    <2>5. n.dict # None => Behind(n.dict, labels', known', DictTtl + n.age)
        BY <1>1, <1>3, <1>4, NothingElse
    <2>6. \A b \in builds' : DishesRecent(b, meals', gone') /\ DictionaryRecent(b, labels', known')
        BY <1>1, <1>2, <1>4, <2>1, <2>5 DEF BuildsInv, DishesRecent, DictionaryRecent
    <2> QED
        BY <2>2, <2>3, <2>4, <2>6 DEF BuildsInv
<1>9. ForwardInv'
    <2>1. \A b \in builds : b.key # k
        BY <1>1, <1>2 DEF BuildsInv
    <2>2. edits \in Nat
        BY <1>2 DEF Typed
    <2> QED
        BY <1>1, <1>2, <1>3, <1>4, <1>5, <2>1, <2>2 DEF ForwardInv, n
<1> QED
    BY <1>1, <1>6, <1>7, <1>8, <1>9, Untold DEF Inv

(* The first query returns.                                                *)
LEMMA ReadDishesStep ==
    ASSUME Inv, NEW b \in builds, ReadDishes(b)
    PROVE  Inv'
<1> DEFINE n == WithDishes(b, meals, edits)
<1>1. /\ b.dishes = None /\ builds' = (builds \ {b}) \cup {n} /\ answer' = None
      /\ UNCHANGED <<meals, labels, menuCache, dictCache, dictFlight, pending, seen, gone,
                     known, edits, faults>>
    BY DEF ReadDishes, Revised, WithDishes, tables, caches, history
<1>2. Typed /\ CachesInv /\ BuildsInv /\ ForwardInv
    BY DEF Inv
<1>3. edits \in Nat /\ meals \in Table /\ b \in Build /\ b.key \in Keys /\ b.age \in Nat
    BY <1>2 DEF Typed, Build
<1>4. /\ n \in Build /\ n.key = b.key /\ n.age = b.age /\ n.dict = b.dict
      /\ n.dishes = meals /\ n.import = edits
    BY <1>3, DishesChanged
<1> HIDE DEF n
<1>5. Typed'
    BY <1>1, <1>2, <1>4 DEF Typed
<1>6. CachesInv'
    BY <1>1, <1>2, CachesStay DEF caches
<1>7. BuildsInv'
    <2>1. pending' = {x.key : x \in builds'}
        BY <1>1, <1>2, <1>4 DEF BuildsInv
    <2>2. \A x, y \in builds' : x.key = y.key => x = y
        BY <1>1, <1>2, <1>4 DEF BuildsInv
    <2>3. \A x \in builds' : Waiting(x) => dictFlight' # None
        BY <1>1, <1>2, <1>4 DEF BuildsInv, Waiting
    <2>4. DishesRecent(n, meals', gone')
        <3> SUFFICES ASSUME NEW p \in Plans
                     PROVE  /\ gone[p][ContentOf(meals[p])] <= b.age
                            /\ meals[p] # None /\ (meals[p] = None \/ meals[p].row # meals[p].row)
                                  => gone[p][None] <= b.age
            BY <1>1, <1>4 DEF DishesRecent
        <3> QED
            BY <1>2, <1>3 DEF Typed
    <2>5. DictionaryRecent(n, labels', known')
        BY <1>1, <1>2, <1>4 DEF BuildsInv, DictionaryRecent
    <2>6. \A x \in builds : DishesRecent(x, meals', gone') /\ DictionaryRecent(x, labels', known')
        BY <1>1, <1>2 DEF BuildsInv, DishesRecent, DictionaryRecent
    <2>7. \A x \in builds' : DishesRecent(x, meals', gone') /\ DictionaryRecent(x, labels', known')
        BY <1>1, <2>4, <2>5, <2>6
    <2> QED
        BY <2>1, <2>2, <2>3, <2>7 DEF BuildsInv
<1>8. ForwardInv'
    BY <1>1, <1>2, <1>3, <1>4 DEF ForwardInv
<1> QED
    BY <1>1, <1>5, <1>6, <1>7, <1>8, Untold DEF Inv

(* The dictionary query returns.                                           *)
LEMMA ReadDictionaryStep ==
    ASSUME Inv, ReadDictionary
    PROVE  Inv'
<1> DEFINE Given(b) == IF Waiting(b) THEN [b EXCEPT !.dict = labels] ELSE b
<1>1. /\ dictFlight # None /\ dictFlight' = None /\ answer' = None
      /\ dictCache' = StoredIn(dictCache, "all", labels, DictTtl, 1)
      /\ builds' = {Given(b) : b \in builds}
      /\ UNCHANGED <<meals, labels, menuCache, pending, seen, gone, known, edits, faults>>
    BY DEF ReadDictionary, tables, history
<1>2. Typed /\ CachesInv /\ BuildsInv /\ ForwardInv
    BY DEF Inv
<1>3. labels \in Dictionary /\ labels # None
    BY <1>2, NothingElse DEF Typed
<1>4. ASSUME NEW b \in builds
      PROVE  /\ Given(b) \in Build /\ Given(b).key = b.key /\ Given(b).age = b.age
             /\ Given(b).dishes = b.dishes /\ Given(b).import = b.import
             /\ Given(b).dict = (IF Waiting(b) THEN labels ELSE b.dict) /\ ~Waiting(Given(b))
    <2>1. b \in Build
        BY <1>2 DEF Typed
    <2>2. CASE Waiting(b)
        BY <1>3, <2>1, <2>2, BuildChanged DEF Waiting
    <2>3. CASE ~Waiting(b)
        BY <2>1, <2>3 DEF Waiting
    <2> QED
        BY <2>2, <2>3
<1> HIDE DEF Given
<1>5. \A c \in Codes : known[c] \in Nat
    BY <1>2 DEF Typed, Since
<1>6. Behind(labels, labels, known, DictTtl - DictTtl)
    BY DEF Behind
<1>7. Typed'
    BY <1>1, <1>2, <1>4 DEF Typed
<1>8. CachesInv'
    <2> DEFINE e == [key |-> "all", value |-> labels, left |-> DictTtl]
    <2>1. /\ IsCache(dictCache') /\ Len(dictCache') <= 1
          /\ Entries(dictCache') \subseteq Entries(dictCache) \cup {e}
        BY <1>1, <1>2, StoredRight, NothingElse DEF CachesInv
    <2>2. /\ e.key = "all" /\ e.value = labels /\ e.left = DictTtl
        OBVIOUS
    <2> HIDE DEF e
    <2>3. ASSUME NEW x \in Entries(dictCache')
          PROVE  /\ x.key = "all" /\ x.value \in Dictionary /\ x.left <= DictTtl
                 /\ x.left > 0 => Behind(x.value, labels', known', DictTtl - x.left)
        <3>1. CASE x = e
            BY <1>1, <1>3, <1>6, <2>2, <3>1, NothingElse
        <3>2. CASE x \in Entries(dictCache)
            BY <1>1, <1>2, <3>2 DEF CachesInv
        <3> QED
            BY <2>1, <3>1, <3>2
    <2> QED
        BY <1>1, <1>2, <2>1, <2>3 DEF CachesInv
<1>9. BuildsInv'
    <2>1. pending' = {x.key : x \in builds'}
        BY <1>1, <1>2, <1>4 DEF BuildsInv
    <2>2. \A x, y \in builds' : x.key = y.key => x = y
        BY <1>1, <1>2, <1>4 DEF BuildsInv
    <2>3. \A x \in builds' : Waiting(x) => dictFlight' # None
        BY <1>1, <1>4
    <2>4. ASSUME NEW b \in builds PROVE DishesRecent(Given(b), meals', gone') /\ DictionaryRecent(Given(b), labels', known')
        <3>1. DishesRecent(b, meals, gone) /\ DictionaryRecent(b, labels, known)
            BY <1>2 DEF BuildsInv
        <3>2. DishesRecent(Given(b), meals', gone')
            BY <1>1, <1>4, <3>1 DEF DishesRecent
        <3>3. CASE Waiting(b)
            <4>1. Behind(labels, labels, known, DictTtl + b.age)
                BY DEF Behind
            <4> QED
                BY <1>1, <1>4, <3>2, <3>3, <4>1 DEF DictionaryRecent
        <3>4. CASE ~Waiting(b)
            BY <1>1, <1>4, <3>1, <3>2, <3>4 DEF DictionaryRecent
        <3> QED
            BY <3>3, <3>4
    <2>5. \A x \in builds' : DishesRecent(x, meals', gone') /\ DictionaryRecent(x, labels', known')
        BY <1>1, <2>4
    <2> QED
        BY <2>1, <2>2, <2>3, <2>5 DEF BuildsInv
<1>10. ForwardInv'
    BY <1>1, <1>2, <1>4 DEF ForwardInv
<1> QED
    BY <1>1, <1>7, <1>8, <1>9, <1>10, Untold DEF Inv

(* The prices are read: the menu is kept and delivered.                    *)
LEMMA ReadPricesStep ==
    ASSUME Inv, NEW b \in builds, ReadPrices(b)
    PROVE  Inv'
<1> DEFINE days == Days(b.key, b.dishes, meals, b.dict)
           value == [days |-> days, import |-> b.import]
           e == [key |-> b.key, value |-> value, left |-> MenuTtl]
<1>1. /\ b.dishes # None /\ ~Waiting(b)
      /\ menuCache' = StoredIn(menuCache, b.key, value, MenuTtl, Capacity)
      /\ answer' = [key |-> b.key, days |-> value.days]
      /\ seen' = [seen EXCEPT ![b.key] = value.import]
      /\ builds' = builds \ {b} /\ pending' = pending \ {b.key}
      /\ UNCHANGED <<meals, labels, dictCache, dictFlight, gone, known, edits, faults>>
    BY DEF ReadPrices, Answers, tables
<1>2. Typed /\ CachesInv /\ BuildsInv /\ ForwardInv
    BY DEF Inv
<1>3. /\ b \in Build /\ b.key \in Keys /\ b.age \in 0 .. BuildTime /\ b.import \in 0 .. edits
      /\ edits \in Nat
    BY <1>2 DEF Typed, Build, ForwardInv
<1>4. Told(gone, labels, known, b.key, days, b.age)
    BY <1>1, <1>2, DaysTold
<1>5. /\ e.key = b.key /\ e.value.days = days /\ e.value.import = b.import
      /\ e.left = MenuTtl /\ value.days = days /\ value.import = b.import
    OBVIOUS
<1>6. /\ IsCache(menuCache') /\ Len(menuCache') <= Capacity
      /\ Entries(menuCache') \subseteq {x \in Entries(menuCache) : x.key # b.key} \cup {e}
    BY <1>1, <1>2, StoredRight, NothingElse DEF CachesInv
<1> HIDE DEF days, value, e
<1>7. gone \in Ages /\ known \in Since
    BY <1>2 DEF Typed
<1>8. Told(gone, labels, known, b.key, days, BuildTime)
    BY <1>3, <1>4, <1>7, ToldLonger, NothingElse
<1>9. Typed'
    BY <1>1, <1>2 DEF Typed
<1>10. CachesInv'
    <2>1. BuildTime + MenuTtl - MenuTtl = BuildTime
        BY NothingElse
    <2>2. ASSUME NEW x \in Entries(menuCache')
          PROVE  /\ x.key \in Keys /\ x.left <= MenuTtl
                 /\ x.left > 0 => Told(gone', labels', known', x.key, x.value.days,
                                       BuildTime + MenuTtl - x.left)
        <3>1. CASE x = e
            BY <1>1, <1>3, <1>5, <1>8, <2>1, <3>1, NothingElse
        <3>2. CASE x \in Entries(menuCache)
            BY <1>1, <1>2, <3>2 DEF CachesInv
        <3> QED
            BY <1>6, <3>1, <3>2
    <2> QED
        BY <1>1, <1>2, <1>6, <2>2 DEF CachesInv
<1>11. BuildsInv'
    <2>1. pending' = {x.key : x \in builds'}
        BY <1>1, <1>2 DEF BuildsInv
    <2> QED
        BY <1>1, <1>2, <2>1 DEF BuildsInv, DishesRecent, DictionaryRecent
<1>12. ForwardInv'
    <2>1. seen[b.key] <= b.import
        BY <1>1, <1>2 DEF ForwardInv
    <2>2. /\ seen' \in [Keys -> Nat] /\ seen'[b.key] = b.import
          /\ \A j \in Keys : j # b.key => seen'[j] = seen[j]
        BY <1>1, <1>2, <1>3, <1>5 DEF ForwardInv
    <2>3. \A j \in Keys : seen'[j] <= edits'
        BY <1>1, <1>2, <1>3, <2>2 DEF ForwardInv
    <2>4. ASSUME NEW x \in Entries(menuCache')
          PROVE  x.value.import \in 0 .. edits' /\ seen'[x.key] <= x.value.import
        <3>1. CASE x = e
            BY <1>1, <1>3, <1>5, <2>2, <3>1
        <3>2. CASE x \in Entries(menuCache) /\ x.key # b.key
            BY <1>1, <1>2, <2>2, <3>2 DEF ForwardInv, CachesInv
        <3> QED
            BY <1>6, <3>1, <3>2
    <2>5. ASSUME NEW x \in builds'
          PROVE  /\ x.import <= edits'
                 /\ x.dishes # None => seen'[x.key] <= x.import
                 /\ \A y \in Entries(menuCache') : y.key # x.key
        <3>1. x \in builds /\ x.key # b.key /\ x.key \in Keys
            BY <1>1, <1>2 DEF BuildsInv, Typed, Build
        <3>2. /\ x.import <= edits'
              /\ x.dishes # None => seen'[x.key] <= x.import
            BY <1>1, <1>2, <2>2, <3>1 DEF ForwardInv
        <3>3. \A y \in Entries(menuCache) \cup {e} : y.key # x.key
            BY <1>2, <1>5, <3>1 DEF ForwardInv
        <3> QED
            BY <1>6, <3>2, <3>3
    <2> QED
        BY <2>2, <2>3, <2>4, <2>5 DEF ForwardInv
<1>13. AnswerInv'
    <2>1. Horizon - 1 \in Nat /\ BuildTime <= Horizon - 1
        BY NothingElse DEF Horizon
    <2>2. Told(gone, labels, known, b.key, days, Horizon - 1)
        BY <1>7, <1>8, <2>1, ToldLonger, NothingElse
    <2>3. answer'.key = b.key /\ answer'.days = days
        BY <1>1, <1>5
    <2>4. Told(gone', labels', known', answer'.key, answer'.days, Horizon - 1)
        BY <1>1, <2>2, <2>3
    <2> QED
        BY <1>3, <2>3, <2>4 DEF AnswerInv
<1> QED
    BY <1>9, <1>10, <1>11, <1>12, <1>13 DEF Inv

(* A query fails.                                                          *)
LEMMA FailStep ==
    ASSUME Inv, DictionaryFails \/ \E b \in builds : BuildFails(b)
    PROVE  Inv'
<1>1. PICK failed \in SUBSET builds :
         /\ builds' = builds \ failed /\ pending' = pending \ {b.key : b \in failed}
         /\ dictFlight' = dictFlight \/ (dictFlight' = None /\ \A b \in builds' : ~Waiting(b))
    <2>1. CASE DictionaryFails
        <3> DEFINE failed == {b \in builds : Waiting(b)}
        <3>1. /\ failed \in SUBSET builds /\ builds' = builds \ failed
              /\ pending' = pending \ {b.key : b \in failed} /\ dictFlight' = None
            BY <2>1 DEF DictionaryFails, Cleared
        <3>2. \A b \in builds' : ~Waiting(b)
            BY <3>1
        <3> QED
            BY <3>1, <3>2
    <2>2. ASSUME NEW b \in builds, BuildFails(b)
          PROVE  /\ builds' = builds \ {b} /\ pending' = pending \ {x.key : x \in {b}}
                 /\ dictFlight' = dictFlight
        BY <2>2 DEF BuildFails, Cleared
    <2> QED
        BY <2>1, <2>2
<1>2. /\ faults < MaxFaults /\ faults' = faults + 1 /\ answer' = None
      /\ UNCHANGED <<meals, labels, menuCache, dictCache, seen, gone, known, edits>>
    BY DEF DictionaryFails, BuildFails, Fault, tables, caches, history
<1>3. Typed /\ CachesInv /\ BuildsInv /\ ForwardInv
    BY DEF Inv
<1>4. Typed'
    BY <1>1, <1>2, <1>3, NothingElse DEF Typed
<1>5. CachesInv'
    BY <1>2, <1>3, CachesStay DEF caches
<1>6. BuildsInv'
    <2>1. pending' = {x.key : x \in builds'}
        BY <1>1, <1>3 DEF BuildsInv
    <2> QED
        BY <1>1, <1>2, <1>3, <2>1 DEF BuildsInv, DishesRecent, DictionaryRecent
<1>7. ForwardInv'
    BY <1>1, <1>2, <1>3 DEF ForwardInv
<1> QED
    BY <1>2, <1>4, <1>5, <1>6, <1>7, Untold DEF Inv

(* The API is started again.                                               *)
LEMMA RestartStep ==
    ASSUME Inv, Restart
    PROVE  Inv'
<1>1. /\ faults < MaxFaults /\ faults' = faults + 1 /\ answer' = None
      /\ menuCache' = EmptyCache /\ dictCache' = EmptyCache /\ dictFlight' = None
      /\ builds' = {} /\ pending' = {}
      /\ UNCHANGED <<meals, labels, seen, gone, known, edits>>
    BY DEF Restart, Fault, tables, history
<1>2. Typed /\ ForwardInv
    BY DEF Inv
<1>3. Typed'
    BY <1>1, <1>2, NothingElse DEF Typed
<1>4. CachesInv'
    BY <1>1, EmptyRight, NothingElse DEF CachesInv
<1>5. BuildsInv' /\ ForwardInv'
    BY <1>1, <1>2, EmptyRight DEF BuildsInv, ForwardInv
<1> QED
    BY <1>1, <1>3, <1>4, <1>5, Untold DEF Inv

(* An import commits.                                                      *)
LEMMA ImportStep ==
    ASSUME Inv, Import
    PROVE  Inv'
<1>1. /\ edits < MaxEdits /\ edits' = edits + 1 /\ answer' = None
      /\ UNCHANGED <<menuCache, dictCache, dictFlight, builds, pending, seen, faults>>
    BY DEF Import, caches
<1>2. Typed /\ CachesInv /\ BuildsInv /\ ForwardInv
    BY DEF Inv
<1>3. /\ gone' \in Ages /\ known' \in Since /\ meals' \in Table /\ labels' \in Dictionary
      /\ \A p \in Plans : gone'[p][ContentOf(meals'[p])] = 0
      /\ Drift(gone, labels, known, gone', labels', known', 0)
    BY <1>2, Drifts
<1>4. /\ gone \in Ages /\ known \in Since /\ edits \in Nat /\ MaxEdits \in Nat
    BY <1>2, NothingElse DEF Typed
<1>5. \A p \in Plans : meals'[p] # None /\ meals[p] # None => meals'[p].row = meals[p].row
    BY DEF Import
<1>6. Typed'
    BY <1>1, <1>2, <1>3, <1>4 DEF Typed
<1>7. CachesInv'
    <2>1. ASSUME NEW e \in Entries(menuCache), e.left > 0
          PROVE  Told(gone', labels', known', e.key, e.value.days, BuildTime + MenuTtl - e.left)
        <3> DEFINE most == BuildTime + MenuTtl - e.left
        <3>1. Told(gone, labels, known, e.key, e.value.days, most)
            BY <1>2, <2>1 DEF CachesInv
        <3>2. most \in Nat /\ most + 0 = most
            BY <1>2, NothingElse DEF CachesInv, IsCache, Entry
        <3> HIDE DEF most
        <3>3. Told(gone', labels', known', e.key, e.value.days, most + 0)
            BY <1>3, <1>4, <3>1, <3>2, ToldLater
        <3> QED
            BY <3>2, <3>3 DEF most
    <2>2. ASSUME NEW e \in Entries(dictCache), e.left > 0
          PROVE  Behind(e.value, labels', known', DictTtl - e.left)
        <3> DEFINE most == DictTtl - e.left
        <3>1. Behind(e.value, labels, known, most)
            BY <1>2, <2>2 DEF CachesInv
        <3>2. most \in Nat /\ most + 0 = most
            BY <1>2, NothingElse DEF CachesInv, IsCache, Entry
        <3> HIDE DEF most
        <3>3. Behind(e.value, labels', known', most + 0)
            BY <1>3, <1>4, <3>1, <3>2, BehindLater
        <3> QED
            BY <3>2, <3>3 DEF most
    <2> QED
        BY <1>1, <1>2, <2>1, <2>2 DEF CachesInv
<1>8. BuildsInv'
    <2>1. ASSUME NEW b \in builds
          PROVE  DishesRecent(b, meals', gone') /\ DictionaryRecent(b, labels', known')
        <3>1. b \in Build /\ b.age \in Nat
            BY <1>2 DEF Typed, Build
        <3>2. ASSUME b.dishes # None, NEW p \in Plans
              PROVE  /\ gone'[p][ContentOf(b.dishes[p])] <= b.age
                     /\ b.dishes[p] # None /\ (meals'[p] = None \/ meals'[p].row # b.dishes[p].row)
                           => gone'[p][None] <= b.age
            <4>1. b.dishes[p] \in Row \cup {None}
                BY <3>1, <3>2 DEF Build, Table
            <4>2. ContentOf(b.dishes[p]) \in Contents \cup {None}
                BY <4>1 DEF ContentOf, Row
            <4>3. \A x \in Contents \cup {None} :
                     gone[p][x] \in Nat /\ gone'[p][x] \in Nat /\ gone'[p][x] <= gone[p][x] + 0
                BY <1>3, <1>4 DEF Ages, Drift
            <4>4. /\ gone[p][ContentOf(b.dishes[p])] <= b.age
                  /\ b.dishes[p] # None /\ (meals[p] = None \/ meals[p].row # b.dishes[p].row)
                        => gone[p][None] <= b.age
                BY <1>2, <3>2 DEF BuildsInv, DishesRecent
            <4>5. gone'[p][ContentOf(b.dishes[p])] <= b.age
                BY <3>1, <4>2, <4>3, <4>4
            <4>6. CASE meals'[p] = None
                <5>1. gone'[p][None] = 0
                    BY <1>3, <4>6 DEF ContentOf
                <5> QED
                    BY <3>1, <4>5, <5>1
            <4>7. CASE meals'[p] # None
                <5>1. ASSUME b.dishes[p] # None, meals'[p].row # b.dishes[p].row
                      PROVE  gone'[p][None] <= b.age
                    <6>1. gone[p][None] <= b.age
                        BY <1>5, <4>4, <4>7, <5>1
                    <6> QED
                        BY <3>1, <4>3, <6>1
                <5> QED
                    BY <4>5, <4>7, <5>1
            <4> QED
                BY <4>6, <4>7
        <3>3. ASSUME b.dict # None PROVE Behind(b.dict, labels', known', DictTtl + b.age)
            <4> DEFINE most == DictTtl + b.age
            <4>1. Behind(b.dict, labels, known, most)
                BY <1>2, <3>3 DEF BuildsInv, DictionaryRecent
            <4>2. most \in Nat /\ most + 0 = most
                BY <3>1, NothingElse
            <4> HIDE DEF most
            <4>3. Behind(b.dict, labels', known', most + 0)
                BY <1>3, <1>4, <4>1, <4>2, BehindLater
            <4> QED
                BY <4>2, <4>3 DEF most
        <3> QED
            BY <3>2, <3>3 DEF DishesRecent, DictionaryRecent
    <2> QED
        BY <1>1, <1>2, <2>1 DEF BuildsInv
<1>9. ForwardInv'
    <2>1. \A n \in Nat : n <= edits => n <= edits'
        BY <1>1, <1>4
    <2>2. seen \in [Keys -> Nat] /\ \A k \in Keys : seen[k] <= edits'
        BY <1>2, <2>1 DEF ForwardInv
    <2>3. \A e \in Entries(menuCache) : e.value.import \in 0 .. edits' /\ seen[e.key] <= e.value.import
        BY <1>1, <1>2, <1>4 DEF ForwardInv
    <2>4. \A b \in builds : b.import \in Nat
        BY <1>2 DEF Typed, Build
    <2> QED
        BY <1>1, <1>2, <2>1, <2>2, <2>3, <2>4 DEF ForwardInv
<1> QED
    BY <1>1, <1>6, <1>7, <1>8, <1>9, Untold DEF Inv

(* A unit of time passes.                                                  *)
LEMMA TickStep ==
    ASSUME Inv, Tick
    PROVE  Inv'
<1> DEFINE Older(b) == [b EXCEPT !.age = @ + 1]
<1>1. /\ \A b \in builds : b.age < BuildTime
      /\ dictFlight # None => dictFlight < BuildTime
      /\ menuCache' = Aged(menuCache) /\ dictCache' = Aged(dictCache)
      /\ dictFlight' = IF dictFlight = None THEN None ELSE dictFlight + 1
      /\ builds' = {Older(b) : b \in builds} /\ answer' = None
      /\ UNCHANGED <<meals, labels, pending, seen, edits, faults>>
    BY DEF Tick, tables
<1>2. Typed /\ CachesInv /\ BuildsInv /\ ForwardInv
    BY DEF Inv
<1>3. /\ gone' \in Ages /\ known' \in Since /\ meals' \in Table /\ labels' \in Dictionary
      /\ \A p \in Plans : gone'[p][ContentOf(meals'[p])] = 0
      /\ Drift(gone, labels, known, gone', labels', known', 1)
    BY <1>2, Drifts
<1>4. gone \in Ages /\ known \in Since
    BY <1>2 DEF Typed
<1>5. ASSUME NEW b \in builds
      PROVE  /\ b \in Build /\ b.age \in Nat
             /\ Older(b) \in Build /\ Older(b).key = b.key /\ Older(b).age = b.age + 1
             /\ Older(b).dict = b.dict /\ Older(b).dishes = b.dishes
             /\ Older(b).import = b.import
    <2>1. b \in Build /\ b.age \in Nat
        BY <1>2 DEF Typed, Build
    <2> QED
        BY <1>1, <2>1, BuildChanged
<1> HIDE DEF Older
<1>6. /\ IsCache(menuCache') /\ Len(menuCache') = Len(menuCache)
      /\ \A x \in Entries(menuCache') : \E e \in Entries(menuCache) :
            /\ x.key = e.key /\ x.value = e.value
            /\ x.left = IF e.left > 0 THEN e.left - 1 ELSE 0
    BY <1>1, <1>2, AgedRight DEF CachesInv
<1>7. /\ IsCache(dictCache') /\ Len(dictCache') = Len(dictCache)
      /\ \A x \in Entries(dictCache') : \E e \in Entries(dictCache) :
            /\ x.key = e.key /\ x.value = e.value
            /\ x.left = IF e.left > 0 THEN e.left - 1 ELSE 0
    BY <1>1, <1>2, AgedRight DEF CachesInv
<1>8. Typed'
    <2>1. builds' \subseteq Build
        BY <1>1, <1>5
    <2>2. dictFlight' \in {None} \cup 0 .. BuildTime
        BY <1>1, <1>2, NothingElse DEF Typed
    <2> QED
        BY <1>1, <1>2, <1>3, <2>1, <2>2 DEF Typed
<1>9. CachesInv'
    <2>1. ASSUME NEW x \in Entries(menuCache')
          PROVE  /\ x.key \in Keys /\ x.left <= MenuTtl
                 /\ x.left > 0 => Told(gone', labels', known', x.key, x.value.days,
                                       BuildTime + MenuTtl - x.left)
        <3>1. PICK e \in Entries(menuCache) :
                 /\ x.key = e.key /\ x.value = e.value
                 /\ x.left = IF e.left > 0 THEN e.left - 1 ELSE 0
            BY <1>6
        <3>2. e.key \in Keys /\ e.left <= MenuTtl /\ e.left \in Nat
            BY <1>2 DEF CachesInv, IsCache, Entry
        <3>3. ASSUME x.left > 0
              PROVE  Told(gone', labels', known', x.key, x.value.days,
                          BuildTime + MenuTtl - x.left)
            <4> DEFINE most == BuildTime + MenuTtl - e.left
            <4>1. e.left > 0 /\ x.left = e.left - 1
                BY <3>1, <3>2, <3>3
            <4>2. Told(gone, labels, known, e.key, e.value.days, most)
                BY <1>2, <4>1 DEF CachesInv
            <4>3. most \in Nat /\ most + 1 = BuildTime + MenuTtl - x.left
                BY <3>2, <4>1, NothingElse
            <4> HIDE DEF most
            <4>4. Told(gone', labels', known', e.key, e.value.days, most + 1)
                BY <1>3, <1>4, <4>2, <4>3, ToldLater
            <4> QED
                BY <3>1, <4>3, <4>4
        <3> QED
            BY <3>1, <3>2, <3>3, NothingElse
    <2>2. ASSUME NEW x \in Entries(dictCache')
          PROVE  /\ x.key = "all" /\ x.value \in Dictionary /\ x.left <= DictTtl
                 /\ x.left > 0 => Behind(x.value, labels', known', DictTtl - x.left)
        <3>1. PICK e \in Entries(dictCache) :
                 /\ x.key = e.key /\ x.value = e.value
                 /\ x.left = IF e.left > 0 THEN e.left - 1 ELSE 0
            BY <1>7
        <3>2. /\ e.key = "all" /\ e.value \in Dictionary
              /\ e.left <= DictTtl /\ e.left \in Nat
            BY <1>2 DEF CachesInv, IsCache, Entry
        <3>3. ASSUME x.left > 0
              PROVE  Behind(x.value, labels', known', DictTtl - x.left)
            <4> DEFINE most == DictTtl - e.left
            <4>1. e.left > 0 /\ x.left = e.left - 1
                BY <3>1, <3>2, <3>3
            <4>2. Behind(e.value, labels, known, most)
                BY <1>2, <4>1 DEF CachesInv
            <4>3. most \in Nat /\ most + 1 = DictTtl - x.left
                BY <3>2, <4>1, NothingElse
            <4> HIDE DEF most
            <4>4. Behind(e.value, labels', known', most + 1)
                BY <1>3, <1>4, <4>2, <4>3, BehindLater
            <4> QED
                BY <3>1, <4>3, <4>4
        <3> QED
            BY <3>1, <3>2, <3>3, NothingElse
    <2> QED
        BY <1>2, <1>6, <1>7, <2>1, <2>2 DEF CachesInv
<1>10. BuildsInv'
    <2>1. pending' = {b.key : b \in builds'}
        BY <1>1, <1>2, <1>5 DEF BuildsInv
    <2>2. \A b, c \in builds' : b.key = c.key => b = c
        BY <1>1, <1>2, <1>5 DEF BuildsInv
    <2>3. \A b \in builds' : Waiting(b) => dictFlight' # None
        <3>1. dictFlight # None => dictFlight' # None
            BY <1>1, <1>2, NothingElse DEF Typed
        <3> QED
            BY <1>1, <1>2, <1>5, <3>1 DEF BuildsInv, Waiting
    <2>4. ASSUME NEW b \in builds
          PROVE  /\ DishesRecent(Older(b), meals', gone')
                 /\ DictionaryRecent(Older(b), labels', known')
        <3>1. ASSUME b.dishes # None, NEW p \in Plans
              PROVE  /\ gone'[p][ContentOf(b.dishes[p])] <= b.age + 1
                     /\ b.dishes[p] # None /\ (meals'[p] = None \/ meals'[p].row # b.dishes[p].row)
                           => gone'[p][None] <= b.age + 1
            <4>1. b.dishes[p] \in Row \cup {None}
                BY <1>5, <3>1 DEF Build, Table
            <4>2. ContentOf(b.dishes[p]) \in Contents \cup {None}
                BY <4>1 DEF ContentOf, Row
            <4>3. \A x \in Contents \cup {None} :
                     gone[p][x] \in Nat /\ gone'[p][x] \in Nat /\ gone'[p][x] <= gone[p][x] + 1
                BY <1>3, <1>4 DEF Ages, Drift
            <4>4. /\ gone[p][ContentOf(b.dishes[p])] <= b.age
                  /\ b.dishes[p] # None /\ (meals[p] = None \/ meals[p].row # b.dishes[p].row)
                        => gone[p][None] <= b.age
                BY <1>2, <3>1 DEF BuildsInv, DishesRecent
            <4> QED
                BY <1>1, <1>5, <4>2, <4>3, <4>4
        <3>2. ASSUME b.dict # None PROVE Behind(b.dict, labels', known', DictTtl + (b.age + 1))
            <4> DEFINE most == DictTtl + b.age
            <4>1. Behind(b.dict, labels, known, most)
                BY <1>2, <3>2 DEF BuildsInv, DictionaryRecent
            <4>2. most \in Nat /\ most + 1 = DictTtl + (b.age + 1)
                BY <1>5, NothingElse
            <4> HIDE DEF most
            <4>3. Behind(b.dict, labels', known', most + 1)
                BY <1>3, <1>4, <4>1, <4>2, BehindLater
            <4> QED
                BY <4>2, <4>3
        <3> QED
            BY <1>5, <3>1, <3>2 DEF DishesRecent, DictionaryRecent
    <2> QED
        BY <1>1, <2>1, <2>2, <2>3, <2>4 DEF BuildsInv
<1>11. ForwardInv'
    <2>1. \A x \in Entries(menuCache') : /\ x.value.import \in 0 .. edits
                                         /\ seen[x.key] <= x.value.import
        BY <1>2, <1>6 DEF ForwardInv
    <2>2. ASSUME NEW b \in builds
          PROVE  /\ Older(b).import <= edits
                 /\ Older(b).dishes # None => seen[Older(b).key] <= Older(b).import
                 /\ \A x \in Entries(menuCache') : x.key # Older(b).key
        <3>1. \A x \in Entries(menuCache') : x.key # b.key
            BY <1>2, <1>6 DEF ForwardInv
        <3> QED
            BY <1>2, <1>5, <3>1 DEF ForwardInv
    <2> QED
        BY <1>1, <1>2, <2>1, <2>2 DEF ForwardInv
<1> QED
    BY <1>1, <1>8, <1>9, <1>10, <1>11, Untold DEF Inv

LEMMA StutterStep == Inv /\ UNCHANGED vars => Inv'
<1> SUFFICES ASSUME Inv, UNCHANGED vars PROVE Inv'
    OBVIOUS
<1>1. UNCHANGED <<meals, labels, menuCache, dictCache, dictFlight, builds, pending, answer,
                  seen, gone, known, edits, faults>>
    BY DEF vars
<1>2. Typed' /\ CachesInv' /\ BuildsInv'
    BY <1>1 DEF Inv, Typed, CachesInv, BuildsInv
<1>3. ForwardInv' /\ AnswerInv'
    BY <1>1 DEF Inv, ForwardInv, AnswerInv
<1> QED
    BY <1>2, <1>3 DEF Inv

LEMMA StepInv == Inv /\ [Next]_vars => Inv'
<1> SUFFICES ASSUME Inv, [Next]_vars PROVE Inv'
    OBVIOUS
<1>1. CASE Import
    BY <1>1, ImportStep
<1>2. ASSUME NEW k \in Keys, Request(k) PROVE Inv'
    BY <1>2, KeptStep, BeginStep DEF Request
<1>3. CASE QuerySteps
    BY <1>3, ReadDictionaryStep, ReadDishesStep, ReadPricesStep DEF QuerySteps
<1>4. CASE FaultSteps
    BY <1>4, FailStep, RestartStep DEF FaultSteps
<1>5. CASE Tick
    BY <1>5, TickStep
<1>6. CASE UNCHANGED vars
    BY <1>6, StutterStep
<1> QED
    BY <1>1, <1>2, <1>3, <1>4, <1>5, <1>6 DEF Next

LEMMA InvHolds == Spec => []Inv
BY InitInv, StepInv, PTL DEF Spec

(***************************************************************************)
(* What it gives                                                           *)
(***************************************************************************)
(* Tables, caches and builds are what they should be: at most one entry    *)
(* per key and no more than the capacity, a request in flight for every    *)
(* build and the other way round, and nobody waits for a dictionary that   *)
(* nobody reads (TtlCache, CanteenService).                                *)
THEOREM TypeOKHolds == Spec => []TypeOK
<1>1. Inv => TypeOK
    <2> SUFFICES ASSUME Inv PROVE TypeOK
        OBVIOUS
    <2>1. Typed /\ CachesInv /\ BuildsInv
        BY DEF Inv
    <2>2. /\ CacheOK(menuCache, Capacity) /\ CachedKeys(menuCache) \subseteq Keys
          /\ CacheOK(dictCache, 1) /\ CachedKeys(dictCache) \subseteq {"all"}
        BY <2>1 DEF CachesInv, CacheOK, CachedKeys, IsCache, OneEach, Entries
    <2>3. pending = {b.key : b \in builds} /\ pending \subseteq Keys
        BY <2>1 DEF BuildsInv, Typed, Build
    <2>4. \A b \in builds : /\ b.age \in 0 .. BuildTime
                            /\ b.dishes \in Table \cup {None}
                            /\ Waiting(b) => dictFlight # None
        BY <2>1 DEF BuildsInv, Typed, Build
    <2> QED
        BY <2>1, <2>2, <2>3, <2>4 DEF TypeOK, Typed
<1> QED
    BY <1>1, InvHolds, PTL

(* Of everything an answer says of a dish: it is what was stored under the *)
(* plan id at two moments not longer ago than a menu is built and kept.    *)
LEMMA AnswerRecent ==
    ASSUME Inv, answer # None, NEW p \in Plans
    PROVE  \E y, z \in Recent(p) :
              TellsOf(gone[p], answer.key, answer.days, p, Horizon - 1, y, z)
<1>1. PICK y \in Contents \cup {None}, z \in Contents \cup {None} :
         TellsOf(gone[p], answer.key, answer.days, p, Horizon - 1, y, z)
    BY DEF Inv, AnswerInv, Told, Tells
<1>2. gone[p][y] \in Nat /\ gone[p][z] \in Nat /\ Horizon \in Nat
    BY NothingElse DEF Inv, Typed, Ages, Horizon
<1>3. gone[p][y] < Horizon /\ gone[p][z] < Horizon
    BY <1>1, <1>2 DEF TellsOf
<1> QED
    BY <1>1, <1>3 DEF Recent

LEMMA ShownInAnswer ==
    ASSUME Inv, NEW s \in Shown
    PROVE  /\ answer # None /\ s.plan \in Plans
           /\ \E d \in answer.key.from .. answer.key.to : s \in answer.days[d]
<1>1. answer # None /\ \E d \in DOMAIN answer.days : s \in answer.days[d]
    BY DEF Shown
<1>2. /\ DOMAIN answer.days = answer.key.from .. answer.key.to
      /\ \A d \in DOMAIN answer.days : \A x \in answer.days[d] : x.plan \in Plans
    BY <1>1 DEF Inv, AnswerInv, Told, LabelledBehind, Labelled
<1> QED
    BY <1>1, <1>2

(* A dish that is shown was stored not longer ago than a menu is built and *)
(* kept, and so were its prices, whatever imports wrote between the three  *)
(* queries of a build (menuDaysCache, buildDays).                          *)
THEOREM MenuRecentHolds == Spec => []MenuRecent
<1>1. ASSUME Inv, NEW s \in Shown
      PROVE  /\ \E x \in Recent(s.plan) \ {None} : x.name = s.name
             /\ \E x \in Recent(s.plan) : s.prices = IF x = None THEN {} ELSE x.prices
    <2>1. /\ answer # None /\ s.plan \in Plans
          /\ \E d \in answer.key.from .. answer.key.to : s \in answer.days[d]
        BY <1>1, ShownInAnswer
    <2>2. PICK y \in Recent(s.plan), z \in Recent(s.plan) :
             TellsOf(gone[s.plan], answer.key, answer.days, s.plan, Horizon - 1, y, z)
        BY <1>1, <2>1, AnswerRecent
    <2>3. y # None /\ s.name = y.name /\ s.prices = PricesIn(z)
        BY <2>1, <2>2 DEF TellsOf
    <2> QED
        BY <2>3 DEF PricesIn
<1>2. Inv => MenuRecent
    BY <1>1 DEF MenuRecent
<1> QED
    BY <1>2, InvHolds, PTL

(* A dish that has been stored all that time is in every answer for its    *)
(* canteen and day, with its prices (menuDaysCache, buildDays).            *)
THEOREM SteadyShownHolds == Spec => []SteadyShown
<1>1. ASSUME Inv, answer # None, NEW p \in Plans, NEW x, x = ContentOf(meals[p]),
             Recent(p) = {x}, x # None,
             x.canteen = answer.key.canteen, x.date \in answer.key.from .. answer.key.to
      PROVE  \E s \in answer.days[x.date] : s.plan = p /\ s.name = x.name /\ s.prices = x.prices
    <2>1. PICK y \in Recent(p), z \in Recent(p) :
             TellsOf(gone[p], answer.key, answer.days, p, Horizon - 1, y, z)
        BY <1>1, AnswerRecent
    <2>2. y = x /\ z = x
        BY <1>1, <2>1
    <2> QED
        BY <1>1, <2>1, <2>2 DEF TellsOf, PricesIn
<1>2. Inv => SteadyShown
    BY <1>1 DEF SteadyShown
<1> QED
    BY <1>2, InvHolds, PTL

(* What a code or its label has stood for longer than both caches keep is  *)
(* among the allergens of every dish with that code, a subtype together    *)
(* with its parent (classifyMeal, definitionsCache).                       *)
THEOREM AllergensKnownHolds == Spec => []AllergensKnown
<1>1. ASSUME Inv, NEW s \in Shown, NEW m \in s.markers, known[m[1]] = Settling,
             NEW a \in Declared(m[1])
      PROVE  a \in s.allergens /\ Parent[a] \in s.allergens \cup {None}
    <2>1. PICK d \in answer.key.from .. answer.key.to : answer # None /\ s \in answer.days[d]
        BY <1>1, ShownInAnswer
    <2>2. PICK dict \in Dictionary : /\ Behind(dict, labels, known, DictTtl + (Horizon - 1))
                                     /\ Labelled(answer.days, dict)
        BY <1>1, <2>1 DEF Inv, AnswerInv, Told, LabelledBehind
    <2>3. DOMAIN answer.days = answer.key.from .. answer.key.to
        BY <1>1, <2>1 DEF Inv, AnswerInv, Told
    <2>4. PICK codes \in SUBSET Codes : /\ s.markers = {<<c, dict[c]>> : c \in codes}
                                        /\ s.allergens = AllergensBy(dict, codes)
        BY <2>1, <2>2, <2>3 DEF Labelled
    <2>5. PICK c \in codes : m = <<c, dict[c]>>
        BY <1>1, <2>4
    <2>6. m[1] = c /\ c \in Codes
        BY <2>5
    <2>7. dict[c] = labels[c]
        <3>1. known[c] = Settling
            BY <1>1, <2>6
        <3>2. ~(Settling <= DictTtl + (Horizon - 1))
            BY NothingElse DEF Settling, Horizon
        <3> QED
            BY <2>2, <2>6, <3>1, <3>2 DEF Behind
    <2>8. AllergenOf(c, dict) = a /\ a \in Allergens
        BY <1>1, <2>6, <2>7, TablesAssumption DEF Declared, AllergenOf, ByLabel
    <2>9. a # None
        BY <2>8, TablesAssumption
    <2> QED
        BY <2>4, <2>5, <2>8, <2>9 DEF AllergensBy
<1>2. Inv => AllergensKnown
    BY <1>1 DEF AllergensKnown
<1> QED
    BY <1>2, InvHolds, PTL

(* Nobody is shown an older menu after a newer one: concurrent requests    *)
(* share a build, so an overtaken one never replaces its successor         *)
(* (pending).                                                              *)
THEOREM ServedForwardHolds == Spec => ServedForward
<1>1. ASSUME Inv, [Next]_vars
      PROVE  [\A k \in Keys : seen'[k] >= seen[k]]_vars
    <2>1. ForwardInv /\ CachesInv /\ Typed
        BY <1>1 DEF Inv
    <2>2. \A k \in Keys : seen[k] \in Nat
        BY <2>1 DEF ForwardInv
    <2>3. CASE UNCHANGED seen
        BY <2>2, <2>3
    <2>4. ASSUME NEW j \in Keys, Kept(j), NEW k \in Keys PROVE seen'[k] >= seen[k]
        <3>1. PICK e \in Entries(menuCache) : e.key = j /\ Hit(menuCache, j) = e.value
            BY <2>1, <2>4, HitRight DEF Kept, CachesInv
        <3>2. seen' = [seen EXCEPT ![j] = e.value.import]
            BY <2>4, <3>1 DEF Kept, Answers
        <3>3. e.value.import \in Nat /\ seen[j] <= e.value.import
            BY <2>1, <3>1 DEF ForwardInv, Typed
        <3> QED
            BY <2>1, <2>2, <3>2, <3>3 DEF ForwardInv
    <2>5. ASSUME NEW b \in builds, ReadPrices(b), NEW k \in Keys PROVE seen'[k] >= seen[k]
        <3>1. seen' = [seen EXCEPT ![b.key] = b.import]
            BY <2>5 DEF ReadPrices, Answers
        <3>2. b.import \in Nat /\ seen[b.key] <= b.import /\ b.key \in Keys
            BY <2>1, <2>5 DEF ForwardInv, ReadPrices, Typed, Build
        <3> QED
            BY <2>1, <2>2, <3>1, <3>2 DEF ForwardInv
    <2>6. \/ UNCHANGED vars \/ UNCHANGED seen \/ (\E j \in Keys : Kept(j))
          \/ (\E b \in builds : ReadPrices(b))
        BY <1>1 DEF Next, Import, Request, Begin, QuerySteps, ReadDictionary, ReadDishes,
                   FaultSteps, DictionaryFails, Restart, BuildFails, Tick, history
    <2> QED
        BY <2>3, <2>4, <2>5, <2>6
<1> QED
    BY <1>1, InvHolds, PTL DEF Spec, ServedForward
=============================================================================
