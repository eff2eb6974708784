-------------------------- MODULE MCPublicCalendar --------------------------
(* Small instances of PublicCalendar for TLC. *)
EXTENDS PublicCalendar, TLC
CONSTANTS c1, c2, ch1, ch2, f1, b1, b2, k1, k2

Def(c, f, ch, d) == [slug |-> c, feed |-> f, channel |-> ch, desc |-> d]

(* One occurrence today, another tomorrow. *)
MCContent == (b1 :> {[key |-> k1, start |-> 0, end |-> 1]}) @@
             (b2 :> {[key |-> k2, start |-> 1, end |-> 2]})

(* Both calendars have a channel; c2 is retired because it claims a channel *)
(* that has a calendar; c1 takes over the channel of c2.                    *)
MCCatalogues == { <<Def(c1, f1, ch1, TRUE), Def(c2, f1, ch2, FALSE)>>,
                  <<Def(c1, f1, ch1, FALSE), Def(c2, f1, ch1, TRUE)>>,
                  <<Def(c1, f1, ch2, TRUE)>> }

(* One calendar, whose description flag is switched. *)
MCSwitch == { <<Def(c1, f1, ch1, TRUE)>>, <<Def(c1, f1, ch1, FALSE)>> }
=============================================================================
