---------------------------- MODULE IcsExpansion ----------------------------
(***************************************************************************)
(* parseIcs: how the components of one downloaded feed become the          *)
(* occurrences that PublicCalendar reconciles (its operator Expand).       *)
(*                                                                         *)
(* Components are grouped by UID into masters and overrides of single      *)
(* dates.  A recurring master is walked from its first date on, one step   *)
(* of ical.js's iterator at a time, until a date starts behind the window. *)
(* Four limits, and a time zone that the feed does not define, abort the   *)
(* whole feed.  A component keeps of its text only whether its dates are   *)
(* cancelled.                                                              *)
(*                                                                         *)
(* Times are integers in the unit of WallClock.  The times of a component  *)
(* are days, instants (UTC or a zone of the feed, which ical.js converts)  *)
(* or wall clocks without a zone, which the parser converts itself.        *)
(***************************************************************************)
EXTENDS WallClock, Sequences, FiniteSets

CONSTANTS
    Uids,            \* event identities
    Feeds,           \* the feeds considered: sequences of components
    None,            \* null
    WindowStart, WindowEnd,
    MaxEvents,       \* limit: components of a feed
    MaxOccurrences,  \* limit: occurrences of a feed
    MaxPerEvent,     \* limit: occurrences of one event that reach the window
    MaxScanned       \* limit: iterator steps of a feed

(* A VEVENT.  slot is its RECURRENCE-ID, None for a master.  dates are the *)
(* starts its rule, RDATE and EXDATE give; with every > 0 the rule goes on *)
(* for ever after the last of them.  known: the feed defines every zone it *)
(* names.                                                                  *)
Component == [uid : Uids \cup {None}, slot : Int \cup {None}, dates : SUBSET Int,
              every : Nat, length : Nat, cancelled : BOOLEAN,
              clock : {"date", "instant", "floating"}, known : BOOLEAN]

ASSUME FeedsAssumption ==
    /\ None \notin Int \cup Uids
    /\ Feeds \subseteq Seq(Component)
    /\ \A f \in Feeds : \A i \in DOMAIN f :
          /\ IsFiniteSet(f[i].dates) /\ f[i].dates # {}
          /\ \A j \in DOMAIN f : f[i].uid = f[j].uid => f[i].clock = f[j].clock

ASSUME LimitsAssumption ==
    /\ WindowStart \in Int /\ WindowEnd \in Int /\ WindowStart < WindowEnd
    /\ MaxEvents \in Nat
    /\ MaxOccurrences \in Nat /\ MaxPerEvent \in Nat /\ MaxScanned \in Nat

Occurrence == [uid : Uids, slot : Int \cup {None}, start : Int, end : Int,
               allDay : BOOLEAN, cancelled : BOOLEAN]

VARIABLES
    feed,       \* the components, in the order of the feed
    masters,    \* the masters not yet expanded
    orphans,    \* the overrides without a master not yet emitted
    at,         \* the date the iterator delivered last, None before the first
    scanned,    \* iterator steps so far
    relevant,   \* occurrences of the current master that reached the window
    result,     \* the occurrences emitted
    status

vars == <<feed, masters, orphans, at, scanned, relevant, result, status>>

(***************************************************************************)
(* Grouping                                                                *)
(***************************************************************************)
Least(S) == CHOOSE x \in S : \A y \in S : x <= y
Greatest(S) == CHOOSE x \in S : \A y \in S : y <= x

MastersOf(f, u) == {i \in DOMAIN f : f[i].uid = u /\ f[i].slot = None}
OverridesOf(f, u, s) == {i \in DOMAIN f : f[i].uid = u /\ f[i].slot = s}

(* Of several masters of a UID, and of several overrides of a date, the    *)
(* last one counts.                                                        *)
MasterOf(f, u) == f[Greatest(MastersOf(f, u))]
HasOverride(f, u, s) == OverridesOf(f, u, s) # {}
OverrideOf(f, u, s) == f[Greatest(OverridesOf(f, u, s))]

MasterUids(f) == {u \in Uids : MastersOf(f, u) # {}}
Orphans(f) == {i \in DOMAIN f : /\ f[i].uid # None /\ f[i].slot # None
                                 /\ MastersOf(f, f[i].uid) = {}}

(* assertTimeZonesResolvable, of every component that has a UID.           *)
Resolvable(f) == \A i \in DOMAIN f : f[i].uid # None => f[i].known

Recurring(m) == m.every > 0 \/ Cardinality(m.dates) > 1

(* ical.js: the date after x, the first one when x is None.                *)
Later(m, x) == IF x = None THEN m.dates ELSE {d \in m.dates : d > x}
NextDate(m, x) == IF Later(m, x) # {} THEN Least(Later(m, x))
                  ELSE IF m.every > 0 THEN x + m.every
                  ELSE None

(***************************************************************************)
(* One occurrence                                                          *)
(***************************************************************************)
(* zonedWallClockToUtc takes the offset of the digits read as UTC.         *)
ZonedWallClockToUtc(w) == w - Offset(w)
ToAbsolute(t, clock) == IF clock = "floating" THEN ZonedWallClockToUtc(t) ELSE t

OccurrenceAt(c, slot, date) ==
    [uid |-> c.uid, slot |-> IF slot = None THEN None ELSE ToAbsolute(slot, c.clock),
     start |-> ToAbsolute(date, c.clock), end |-> ToAbsolute(date + c.length, c.clock),
     allDay |-> c.clock = "date", cancelled |-> c.cancelled]
Single(c) == OccurrenceAt(c, c.slot, Least(c.dates))

(* getOccurrenceDetails: the override of the date when there is one.       *)
MasterDetails(f, u, date) ==       \* mutant: exceptions are not related to their master
    OccurrenceAt(MasterOf(f, u), date, date)
Details(f, u, date) ==
    IF HasOverride(f, u, date) THEN Single(OverrideOf(f, u, date))
    ELSE MasterDetails(f, u, date)

(* occurrenceKey                                                           *)
KeyByStart(o) == <<o.uid, o.start>>             \* mutant
Key(o) == <<o.uid, o.slot>>

Reaches(o) == o.end > WindowStart /\ o.start < WindowEnd

Emit(o) ==
    IF Reaches(o)
    THEN /\ result' = Append(result, o)
         /\ status' = IF Len(result') > MaxOccurrences THEN "total" ELSE status
    ELSE UNCHANGED <<result, status>>

(***************************************************************************)
(* The walk                                                                *)
(***************************************************************************)
Init ==
    /\ feed \in Feeds
    /\ masters = {} /\ orphans = {}
    /\ at = None
    /\ scanned = 0
    /\ relevant = 0
    /\ result = <<>>
    /\ status = "grouping"

(* The feed is grouped, or refused as a whole.                             *)
Group ==
    /\ status = "grouping"
    /\ IF Len(feed) > MaxEvents THEN status' = "events" /\ UNCHANGED <<masters, orphans>>
       ELSE IF ~Resolvable(feed) THEN status' = "zone" /\ UNCHANGED <<masters, orphans>>
       ELSE status' = "expanding" /\ masters' = MasterUids(feed) /\ orphans' = Orphans(feed)
    /\ UNCHANGED <<feed, at, scanned, relevant, result>>

(* Masters are expanded in the order their UIDs first appear.              *)
Current == CHOOSE u \in masters : \A v \in masters :
              Least(MastersOf(feed, u)) <= Least(MastersOf(feed, v))

Master == MasterOf(feed, Current)

SingleEvent ==
    /\ status = "expanding" /\ masters # {}
    /\ ~Recurring(Master)
    /\ Emit(Single(Master))
    /\ masters' = masters \ {Current}
    /\ UNCHANGED <<feed, orphans, at, scanned, relevant>>

EndOfSeries ==
    /\ masters' = masters \ {Current}
    /\ at' = None /\ relevant' = 0

(* Does a date end before the window?                                      *)
StartedBefore(o) == o.start <= WindowStart      \* mutant: a running event is skipped
Before(o) == o.end <= WindowStart

(* The occurrences of the current event that count, this one included.     *)
ChargeAll(o) == relevant + 1                    \* mutant: skipped dates are charged
Charged(o) == IF Before(o) THEN relevant ELSE relevant + 1

NextOccurrence ==
    /\ status = "expanding" /\ masters # {}
    /\ Recurring(Master)
    /\ LET date == NextDate(Master, at)
           o == Details(feed, Current, date)
       IN  IF date = None
           THEN EndOfSeries /\ UNCHANGED <<scanned, result, status>>
           ELSE /\ scanned' = scanned + 1
                /\ IF scanned + 1 > MaxScanned
                   THEN status' = "scan" /\ UNCHANGED <<masters, at, relevant, result>>
                   ELSE IF o.start >= WindowEnd
                   THEN EndOfSeries /\ UNCHANGED <<result, status>>
                   ELSE /\ at' = date
                        /\ relevant' = Charged(o)
                        /\ UNCHANGED masters
                        /\ IF Charged(o) > MaxPerEvent
                           THEN status' = "perEvent" /\ UNCHANGED result
                           ELSE IF Before(o) THEN UNCHANGED <<result, status>>
                           ELSE Emit(o)
    /\ UNCHANGED <<feed, orphans>>

(* The code takes them UID by UID; any order is allowed here.              *)
OrphanOverride ==
    /\ status = "expanding" /\ masters = {}
    /\ \E i \in orphans : Emit(Single(feed[i])) /\ orphans' = orphans \ {i}
    /\ UNCHANGED <<feed, masters, at, scanned, relevant>>

Finish ==
    /\ status = "expanding" /\ masters = {} /\ orphans = {}
    /\ status' = "done"
    /\ UNCHANGED <<feed, masters, orphans, at, scanned, relevant, result>>

Next == Group \/ SingleEvent \/ NextOccurrence \/ OrphanOverride \/ Finish

Spec == Init /\ [][Next]_vars

(***************************************************************************)
(* Properties                                                              *)
(***************************************************************************)
(* Type invariant: what the walk has read and written so far.              *)
TypeOK ==
    /\ feed \in Feeds
    /\ masters \subseteq Uids /\ orphans \subseteq DOMAIN feed
    /\ at \in Int \cup {None}
    /\ scanned \in Nat /\ relevant \in Nat
    /\ result \in Seq(Occurrence)
    /\ status \in {"grouping", "expanding", "done",
                   "events", "zone", "total", "perEvent", "scan"}

(* The reference: every date of every master, with its override in its     *)
(* place, and every override without a master, at the instants at which    *)
(* clocks show the times of the feed.  A date behind both the window and   *)
(* every override cannot reach the window.                                 *)
Instant(c, t) == IF c.clock = "floating" THEN ToUtc(t) ELSE t
Meant(c, slot, date) ==
    [uid |-> c.uid, slot |-> IF slot = None THEN None ELSE Instant(c, slot),
     start |-> Instant(c, date), end |-> Instant(c, date + c.length),
     allDay |-> c.clock = "date", cancelled |-> c.cancelled]
Alone(c) == Meant(c, c.slot, Least(c.dates))
Horizon(f) == Greatest({WindowEnd + 2 * Hour} \cup ({f[i].slot : i \in DOMAIN f} \ {None}))
AllDates(m, h) ==
    m.dates \cup {Greatest(m.dates) + k * m.every : k \in
                     IF m.every = 0 THEN {} ELSE 1 .. (h - Least(m.dates)) + 1}
Overridden(f, u) == {f[i].slot : i \in {j \in DOMAIN f : f[j].uid = u}} \ {None}
Series(f, u) ==
    LET m == MasterOf(f, u)
        dates == AllDates(m, Horizon(f))
    IN  IF Recurring(m)
        THEN {Meant(m, d, d) : d \in dates \ Overridden(f, u)}
                \cup {Alone(OverrideOf(f, u, d)) : d \in dates \cap Overridden(f, u)}
        ELSE {Alone(m)}
Reference(f) ==
    {o \in (UNION {Series(f, u) : u \in MasterUids(f)})
            \cup {Alone(f[i]) : i \in Orphans(f)} : Reaches(o)}

(* No time without a zone lies in the two hours before the clocks are      *)
(* changed, where zonedWallClockToUtc takes the offset of after the change.*)
TimesOf(f, c) ==
    (UNION {{d, d + c.length} : d \in AllDates(c, Horizon(f))}) \cup ({c.slot} \ {None})
Quiet(f) ==
    \A i \in DOMAIN f : f[i].clock = "floating" =>
        \A t \in TimesOf(f, f[i]), change \in {Spring, Autumn} :
            t \notin change .. change + 2 * Hour - 1

Emitted == {result[i] : i \in DOMAIN result}

(* Whatever the feed, and also when a limit ends the walk, only dates the  *)
(* feed lists are emitted, with the override's time and status where one   *)
(* exists and at the instant the times of the feed mean: a cancelled or    *)
(* moved date never shows as an ordinary one.                              *)
EmitsOnlyReference == Quiet(feed) => Emitted \subseteq Reference(feed)

(* The assumption of the walk ("iteration is monotonic"): no override puts *)
(* a date behind a later one of its series.                                *)
Monotonic(f) ==
    \A u \in MasterUids(f) : \A o, p \in Series(f, u) :
        o.slot # None /\ p.slot # None /\ o.slot <= p.slot => o.start <= p.start

(* Under that assumption the expansion is exactly the reference: no date   *)
(* that reaches the window is lost, among them those that began before it. *)
CompleteWhenMonotonic ==
    status = "done" /\ Quiet(feed) /\ Monotonic(feed) => Emitted = Reference(feed)

(* Two occurrences of one expansion never share their occurrenceKey, which *)
(* is unique per calendar in the database, unless the feed itself lists an *)
(* override twice.                                                         *)
KeysDistinct ==
    /\ Quiet(feed)
    /\ \A i, j \in Orphans(feed) :
        feed[i].uid = feed[j].uid /\ feed[i].slot = feed[j].slot => i = j
    => \A i, j \in DOMAIN result : Key(result[i]) = Key(result[j]) => i = j

(* "Occurrences that end before windowStart are skipped, not charged": the *)
(* per-event limit is hit only by an event that really has more dates in   *)
(* reach of the window than the limit allows.                              *)
ChargedOnlyInReach ==
    status = "perEvent" /\ Quiet(feed) =>
        \E u \in MasterUids(feed) :
            Cardinality({o \in Series(feed, u) : Reaches(o)}) > MaxPerEvent

(***************************************************************************)
(* A claim of the repository that the code does not keep, checked by a run *)
(* that is expected to violate it.                                         *)
(***************************************************************************)
(* "details.item is the override for this slot when one exists (moved or   *)
(* cancelled)": an expansion without an error holds every date that        *)
(* reaches the window.  A date moved behind the window ends the walk of    *)
(* its series early, and a later date moved into it is never reached       *)
(* ("iteration is monotonic").                                             *)
ExpansionComplete == status = "done" /\ Quiet(feed) => Emitted = Reference(feed)
=============================================================================
