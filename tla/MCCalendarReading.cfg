SPECIFICATION ReadingSpec
CHECK_DEADLOCK FALSE
CONSTANTS
    Calendars = {1, 2}
    Contents <- MCContents
    Selections <- MCSelections
    Ranges <- MCRanges
    Malformed = Malformed
    Unknown = Unknown
    Null = Null
    MaxServed = 2
    MaxCalendars = 2
    MaxRange = 1
    MaxKeys = 2
    StaleAfter = 1
    MaxNow = 2
    MaxWrites = 5
    MaxRequests = 2
INVARIANTS
    FreshMeansRecent
    CutIsDeclared
    EventIdsRight
    CounterNeverBehind
