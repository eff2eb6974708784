------------------------------ MODULE CmsReads ------------------------------
(***************************************************************************)
(* How the API reads editorial content: the machine that the services for  *)
(* posts, contacts and rooms share.                                        *)
(*                                                                         *)
(* A request is answered from a read-through cache, or it begins a build   *)
(* that sends one or two requests to Strapi, one after the other or both   *)
(* at once, and merges what they return.  Editors change the content in    *)
(* between; each request sees the edition that is current when Strapi      *)
(* answers it.  A request that fails is sent again a few times if trying   *)
(* again may help; when it does not, the build fails and nothing is kept.  *)
(* What is asked and how it is merged is given by the constant operators,  *)
(* which Posts and Contacts define.                                        *)
(***************************************************************************)
EXTENDS Naturals, Sequences, TtlCache

CONSTANTS
    None,
    Scenarios,        \* [keys, editions]: what is asked for, among which editions
    Parallel(_),      \* key -> are both requests sent at once?
    Unasked(_),       \* key -> is it answered without any request?
    More(_, _),       \* key, first part -> is there a second request?
    First(_, _),      \* key, edition -> what the first request returns
    Second(_, _, _),  \* key, edition, first part -> what the second one returns
    Merge(_, _, _),   \* key, first and second part -> the answer, or None
    Empty(_),         \* key -> the answer without any request
    Ttl(_),           \* key -> how long its answer is kept
    Capacity,         \* DEFAULT_MAX_ENTRIES
    Retries,          \* STRAPI_RETRY_ATTEMPTS
    FetchTime,        \* bound: how long a build takes
    MaxEdits,         \* bound: changes by editors
    MaxFaults         \* bound: failed requests and restarts

ASSUME ReadAssumption ==
    /\ Capacity \in Nat \ {0} /\ Retries \in Nat
    /\ FetchTime \in Nat /\ MaxEdits \in Nat /\ MaxFaults \in Nat
    /\ \A s \in Scenarios :
          /\ \A k \in s.keys : Ttl(k) \in Nat \ {0}
          /\ \E k \in s.keys : \A j \in s.keys : Ttl(j) <= Ttl(k)

(* An answer without any request is one, what the first request returns is *)
(* something, and a second one that is sent beside it does not depend on   *)
(* what that brings.                                                       *)
ASSUME PartsAssumption ==
    \A s \in Scenarios : \A k \in s.keys :
        /\ Unasked(k) => Empty(k) # None
        /\ \A e, f \in s.editions :
              LET first == First(k, e)
              IN  /\ first # None
                  /\ Parallel(k) => /\ More(k, None) = More(k, first)
                                    /\ Second(k, f, None) = Second(k, f, first)

VARIABLES
    scope,            \* the scenario
    cms,              \* the edition that is published in Strapi
    caches,           \* route -> cache
    builds,           \* the answers in the making
    answer,           \* history: what a client has just been told
    ago,              \* history: the time since an edition was last published
    edits,            \* history: changes so far
    faults            \* history: faults so far

vars == <<scope, cms, caches, builds, answer, ago, edits, faults>>

Routes == {k.route : k \in UNION {s.keys : s \in Scenarios}}
Keys == scope.keys
Longest == CHOOSE t \in {Ttl(k) : k \in Keys} : \A k \in Keys : Ttl(k) <= t
Horizon(k) == Ttl(k) + FetchTime

NewBuild(k) == [key |-> k, age |-> 0, first |-> None, second |-> None,
                tries |-> [n \in 1 .. 2 |-> Retries]]
Revised(b, new) == (builds \ {b}) \cup {new}

Init ==
    /\ scope \in Scenarios
    /\ cms \in scope.editions
    /\ caches = [r \in Routes |-> EmptyCache]
    /\ builds = {}
    /\ answer = None
    /\ ago = [e \in scope.editions |-> IF e = cms THEN 0 ELSE Longest + FetchTime]
    /\ edits = 0 /\ faults = 0

(* An editor publishes, changes or withdraws something.                    *)
Edit ==
    /\ edits < MaxEdits
    /\ edits' = edits + 1
    /\ cms' \in scope.editions \ {cms}
    /\ ago' = [ago EXCEPT ![cms'] = 0]
    /\ answer' = None
    /\ UNCHANGED <<scope, caches, builds, faults>>

(***************************************************************************)
(* Requests of clients                                                     *)
(***************************************************************************)
Refused(k, kind) == answer' = [key |-> k, kind |-> kind, value |-> None]
Served(k, value) ==
    IF value = None THEN Refused(k, "missing")
    ELSE answer' = [key |-> k, kind |-> "served", value |-> value]
Keep(k, value) ==
    caches' = [caches EXCEPT ![k.route] = StoredIn(@, k, value, Ttl(k), Capacity)]

Kept(k) ==
    /\ IsHit(caches[k.route], k)
    /\ caches' = [caches EXCEPT ![k.route] = Touched(@, k)]
    /\ Served(k, Hit(caches[k.route], k))
    /\ UNCHANGED <<scope, cms, builds, ago, edits, faults>>

(* One build at a time per key; clients that ask meanwhile wait for it.    *)
InFlight(k) == \E b \in builds : b.key = k
Begin(k) ==
    /\ ~IsHit(caches[k.route], k) /\ ~InFlight(k)
    /\ ~Unasked(k)
    /\ caches' = [caches EXCEPT ![k.route] = Missed(@, k)]
    /\ builds' = builds \cup {NewBuild(k)}
    /\ answer' = None
    /\ UNCHANGED <<scope, cms, ago, edits, faults>>
Deselected(k) ==
    /\ ~IsHit(caches[k.route], k)
    /\ Unasked(k)
    /\ Keep(k, Empty(k))
    /\ Served(k, Empty(k))
    /\ UNCHANGED <<scope, cms, builds, ago, edits, faults>>
Request(k) == Kept(k) \/ Begin(k) \/ Deselected(k)

(***************************************************************************)
(* Requests to Strapi                                                      *)
(***************************************************************************)
Awaits(b, n) ==
    IF n = 1 THEN b.first = None
    ELSE /\ b.second = None
         /\ Parallel(b.key) \/ b.first # None
         /\ More(b.key, b.first)
Complete(b) == ~Awaits(b, 1) /\ ~Awaits(b, 2)

(* When the last part is there the answer is merged, kept and delivered;   *)
(* that there is nothing under this key is not kept.                       *)
Remembered(k, value) ==                     \* mutant: misses are kept
    Keep(k, value)
Settled(k, value) ==
    IF value = None THEN UNCHANGED caches ELSE Keep(k, value)
Finish(b) ==
    LET value == Merge(b.key, b.first, b.second)
    IN  /\ Settled(b.key, value)
        /\ Served(b.key, value)
Progress(b, new) ==
    /\ IF Complete(new)
       THEN builds' = builds \ {b} /\ Finish(new)
       ELSE builds' = Revised(b, new) /\ answer' = None /\ UNCHANGED caches
    /\ UNCHANGED <<scope, cms, ago, edits, faults>>
Answered(b, n) ==
    /\ Awaits(b, n)
    /\ Progress(b, IF n = 1 THEN [b EXCEPT !.first = First(b.key, cms)]
                   ELSE [b EXCEPT !.second = Second(b.key, cms, b.first)])

Fault == faults < MaxFaults /\ faults' = faults + 1

(* A request times out, fails, is refused or returns something unreadable. *)
(* Only the first two are tried again, and only so often.                  *)
ErrorKinds == {"timeout", "unavailable", "unauthorized", "malformed"}
Retryable(kind) == kind \in {"timeout", "unavailable"}
ToApiError(kind) == IF kind = "timeout" THEN "UPSTREAM_TIMEOUT" ELSE "UPSTREAM_UNAVAILABLE"
RequestFails(b, n, kind) ==
    /\ Awaits(b, n)
    /\ Fault
    /\ IF Retryable(kind) /\ b.tries[n] > 0
       THEN builds' = Revised(b, [b EXCEPT !.tries[n] = @ - 1]) /\ answer' = None
       ELSE builds' = builds \ {b} /\ Refused(b.key, ToApiError(kind))
    /\ UNCHANGED <<scope, cms, caches, ago, edits>>

(* The API is started again: its caches are gone.                          *)
Restart ==
    /\ Fault
    /\ caches' = [r \in Routes |-> EmptyCache]
    /\ builds' = {}
    /\ answer' = None
    /\ UNCHANGED <<scope, cms, ago, edits>>

(* Time passes; no build takes longer than FetchTime.                      *)
Tick ==
    /\ \A b \in builds : b.age < FetchTime
    /\ caches' = [r \in Routes |-> Aged(caches[r])]
    /\ builds' = {[b EXCEPT !.age = @ + 1] : b \in builds}
    /\ ago' = [e \in DOMAIN ago |->
                  IF e = cms \/ ago[e] = Longest + FetchTime THEN ago[e] ELSE ago[e] + 1]
    /\ answer' = None
    /\ UNCHANGED <<scope, cms, edits, faults>>

RequestSteps == \E b \in builds, n \in 1 .. 2 : Answered(b, n)
FaultSteps == Restart \/ \E b \in builds, n \in 1 .. 2, kind \in ErrorKinds :
                              RequestFails(b, n, kind)

Next == Edit \/ (\E k \in Keys : Request(k)) \/ RequestSteps \/ FaultSteps \/ Tick

Spec == Init /\ [][Next]_vars

(***************************************************************************)
(* What the properties of Posts and Contacts are about                     *)
(***************************************************************************)
TypeOK ==
    /\ scope \in Scenarios /\ cms \in scope.editions
    /\ \A r \in Routes : CacheOK(caches[r], Capacity) /\ CachedKeys(caches[r]) \subseteq Keys
    /\ \A b \in builds : /\ b.key \in Keys /\ b.age \in 0 .. FetchTime
                         /\ ~Complete(b) /\ b.tries \in [1 .. 2 -> 0 .. Retries]
                         /\ ~IsHit(caches[b.key.route], b.key)
    /\ \A b, c \in builds : b.key = c.key => b = c
    /\ ago \in [scope.editions -> 0 .. Longest + FetchTime] /\ ago[cms] = 0
    /\ edits \in 0 .. MaxEdits /\ faults \in 0 .. MaxFaults

(* The editions that an answer for k may still speak of, and those that a  *)
(* client who is told that there is nothing can have asked.                *)
Recent(k) == {e \in scope.editions : ago[e] < Horizon(k)}
JustNow == {e \in scope.editions : ago[e] <= FetchTime}
IsServed == answer # None /\ answer.kind = "served"
=============================================================================
