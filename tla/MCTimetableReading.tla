------------------------- MODULE MCTimetableReading -------------------------
(* A small instance of TimetableReading: the Sunday on which summer time    *)
(* begins and the day after; it ends a week later.  The unit is half an     *)
(* hour.                                                                    *)
EXTENDS TimetableReading

CONSTANTS L, M, T, U, Lab

MCSpring == 6 * 24 * 2 + 2          \* Sunday, 1:00 UTC
MCAutumn == 13 * 24 * 2 + 2         \* the Sunday after
At(date, start, info) == [date |-> date, start |-> date * 48 + start, info |-> info]
Listing(x, y) == [l \in {L, M} |-> IF l = L THEN x ELSE y]
MCListings == {Listing(At(6, 5, None), At(13, 5, Lab)),     \* 2:30 is skipped; comes twice
               Listing(At(7, 16, Lab), None)}
MCTestSlot == [l \in {T, U} |-> IF l = T THEN [day |-> 0, start |-> 16]
                                ELSE [day |-> 8, start |-> 16]]
MCDeployments == {{}, {"webuntis"}, {"webuntis", "test"}}
MCRanges == {<<6, 13>>, <<8, 6>>}
=============================================================================
