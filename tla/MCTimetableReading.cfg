CONSTANTS
    L = L
    M = M
    T = T
    U = U
    Lab = Lab
    Class = Class
    TestGroup = TestGroup
    None = None
    Lessons = {L, M}
    TestLessons = {T, U}
    TestSlot <- MCTestSlot
    Listings <- MCListings
    Infos = {Lab}
    Hour = 2
    Spring <- MCSpring
    Autumn <- MCAutumn
    Lookback = 1
    Lookahead = 7
    StaleAfter = 1
    MaxRange = 7
    Deployments <- MCDeployments
    Ranges <- MCRanges
    FirstDay = 6
    MaxDay = 7
    MaxWrites = 3
    MaxEdits = 1
    MaxFaults = 1
SPECIFICATION Spec
INVARIANTS StampNotAhead ShownWhenItIs
CHECK_DEADLOCK FALSE
