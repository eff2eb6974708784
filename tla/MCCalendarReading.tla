-------------------------- MODULE MCCalendarReading --------------------------
EXTENDS CalendarReading

Lecture == [key |-> 1, start |-> 0, end |-> 1]
Evening == [key |-> 2, start |-> 1, end |-> 2]      \* ends at midnight
AllDay == [key |-> 3, start |-> 2, end |-> 4]
MCContents == {{}, {Evening}, {Lecture, Evening, AllDay}}
MCSelections == {<<>>, <<1, 2, 1>>, <<2, Malformed>>}
MCRanges == {<<Null, Null>>, <<1, 1>>, <<1, 0>>}
=============================================================================
