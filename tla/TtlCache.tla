------------------------------ MODULE TtlCache ------------------------------
(***************************************************************************)
(* The read-through cache of the backend (TtlCache<V>).                    *)
(*                                                                         *)
(* Its entries are a sequence in the order of their last use, as the Map   *)
(* of the code keeps them.  Time is counted down: an entry with nothing    *)
(* left has expired, although it may still be held.  What is in flight     *)
(* (pending) belongs to the modules that use the cache: the requests for   *)
(* one key share one flight, and a failed flight stores nothing.           *)
(***************************************************************************)
EXTENDS Naturals, Sequences

EmptyCache == <<>>

CachedKeys(cache) == {cache[i].key : i \in 1 .. Len(cache)}
Holds(cache, k) == \E i \in 1 .. Len(cache) : cache[i].key = k
PlaceOf(cache, k) == CHOOSE i \in 1 .. Len(cache) : cache[i].key = k
EntryFor(cache, k) == cache[PlaceOf(cache, k)]
Without(cache, k) ==
    IF ~Holds(cache, k) THEN cache
    ELSE SubSeq(cache, 1, PlaceOf(cache, k) - 1)
            \o SubSeq(cache, PlaceOf(cache, k) + 1, Len(cache))

(* getOrSet: an entry that has time left is a hit and becomes the most     *)
(* recently used one; an expired one is dropped before the factory runs.   *)
IsHitAnyAge(cache, k) == Holds(cache, k)                \* mutant: no expiry
IsHit(cache, k) == Holds(cache, k) /\ EntryFor(cache, k).left > 0
Hit(cache, k) == EntryFor(cache, k).value
Touched(cache, k) == Append(Without(cache, k), EntryFor(cache, k))
Missed(cache, k) == Without(cache, k)

(* The entries that have time left, in their order.                        *)
Live(cache) ==
    LET upTo[n \in 0 .. Len(cache)] ==
            IF n = 0 THEN <<>>
            ELSE IF cache[n].left > 0 THEN Append(upTo[n - 1], cache[n]) ELSE upTo[n - 1]
    IN  upTo[Len(cache)]

(* store: expired entries go first, then the least recently used ones.     *)
StoredIn(cache, k, v, ttl, capacity) ==
    LET all == Append(Live(Without(cache, k)), [key |-> k, value |-> v, left |-> ttl])
    IN  SubSeq(all, IF Len(all) > capacity THEN Len(all) - capacity + 1 ELSE 1, Len(all))

(* A unit of time passes.                                                  *)
Aged(cache) == [i \in 1 .. Len(cache) |->
                  [cache[i] EXCEPT !.left = IF @ > 0 THEN @ - 1 ELSE 0]]

(* At most one entry per key, and no more than the capacity.               *)
CacheOK(cache, capacity) ==
    /\ Len(cache) <= capacity
    /\ \A i, j \in 1 .. Len(cache) : cache[i].key = cache[j].key => i = j
=============================================================================
