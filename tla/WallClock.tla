----------------------------- MODULE WallClock -----------------------------
(***************************************************************************)
(* Wall clocks of Europe/Berlin and instants (toUtc).                      *)
(*                                                                         *)
(* Instants and wall clocks are integers in one unit; a wall clock is the  *)
(* number that its digits name when they are read as UTC.  The rules of    *)
(* the zone are those of one year: winter time, one hour ahead of UTC,     *)
(* with the summer time of Spring up to Autumn, two hours ahead.  That the *)
(* backend keeps the answers for wall clocks it has seen changes nothing,  *)
(* as an answer depends on nothing else.                                   *)
(***************************************************************************)
EXTENDS Integers

CONSTANTS
    Hour,             \* an hour, in the unit of the model
    Spring,           \* the instant at which summer time begins
    Autumn            \* the instant at which it ends

ASSUME ClockAssumption ==
    /\ Hour \in Nat \ {0} /\ Spring \in Int /\ Autumn \in Int
    /\ Spring + 3 * Hour <= Autumn

Day == 24 * Hour

(* berlinOffsetMs                                                          *)
Offset(t) == IF Spring <= t /\ t < Autumn THEN 2 * Hour ELSE Hour

(* What clocks in Berlin show at an instant.                               *)
Local(t) == t + Offset(t)

(* The offset depends on the instant that is being computed: first that of *)
(* the digits read as UTC, then that of the instant found with it.         *)
ToUtcOnce(w) == w - Offset(w)               \* mutant: not corrected
ToUtc(w) == w - Offset(w - Offset(w))

(* The hour that clocks skip in spring.                                    *)
Skipped(w) == Spring + Hour <= w /\ w < Spring + 2 * Hour

(* What a clock shows at the instant of a wall clock: that wall clock, and *)
(* for one that does not exist the one an hour later.                      *)
Shows(t, w) == Local(t) = IF Skipped(w) THEN w + Hour ELSE w
=============================================================================
