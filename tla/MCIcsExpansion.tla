--------------------------- MODULE MCIcsExpansion ---------------------------
(* Small feeds for TLC: a finite series that starts before the window, one *)
(* without an end, days, a single event that runs into the window, a       *)
(* series without a zone over the change to summer time, overrides that    *)
(* move, cancel or shorten dates of them, a component without a UID, one   *)
(* with an unknown zone, and feeds of too many components.                 *)
EXTENDS IcsExpansion
CONSTANTS a, b, c

Vevent(u, clock, s, ds, e, l, x) ==
    [uid |-> u, slot |-> s, dates |-> ds, every |-> e, length |-> l, cancelled |-> x,
     clock |-> clock, known |-> TRUE]

Masters == { Vevent(a, "instant", None, {0, 2, 5}, 0, 2, FALSE),
             Vevent(a, "instant", None, {2, 4, 5, 6}, 0, 1, FALSE),
             Vevent(a, "instant", None, {1}, 3, 1, FALSE),
             Vevent(b, "date", None, {0, 2, 9}, 0, 1, FALSE),
             Vevent(b, "date", None, {2}, 0, 4, FALSE),
             Vevent(c, "floating", None, {1, 5, 6, 8}, 0, 1, FALSE),
             Vevent(c, "floating", None, {1}, 4, 1, FALSE) }
MCOverrides == { Vevent(a, "instant", 2, {5}, 0, 1, FALSE),   \* moved to another date's time
                 Vevent(a, "instant", 2, {9}, 0, 1, FALSE),   \* moved behind the window
                 Vevent(a, "instant", 4, {4}, 0, 1, TRUE),    \* cancelled
                 Vevent(a, "instant", 10, {7}, 0, 1, FALSE),  \* moved into the window
                 Vevent(c, "floating", 5, {7}, 0, 2, FALSE),  \* moved to another date's time
                 Vevent(c, "floating", 1, {4}, 0, 1, FALSE) } \* moved to a skipped hour
Refused == { Vevent(None, "instant", None, {4}, 0, 1, FALSE),
             [Vevent(a, "instant", 5, {5}, 0, 1, TRUE) EXCEPT !.known = FALSE] }
MCComponents == Masters \cup MCOverrides \cup Refused
MCFeeds == UNION {[1 .. n -> MCComponents] : n \in 0 .. 3}
              \cup {[i \in 1 .. 4 |-> x] : x \in Masters}
=============================================================================
