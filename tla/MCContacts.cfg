CONSTANTS
    Office = Office
    Ann = Ann
    Bob = Bob
    AreaDe = AreaDe
    AreaEn = AreaEn
    AreaDe2 = AreaDe2
    RoleDe = RoleDe
    RoleEn = RoleEn
    RoomDe = RoomDe
    RoomEn = RoomEn
    None = None
    Blank = Blank
    German = {AreaDe, AreaDe2, RoleDe, RoomDe}
    English = {AreaEn, RoleEn, RoomEn}
    AreaSlugs = {Office}
    PersonIds = {Ann, Bob}
    RoomKeys <- MCCatalogue
    Catalogue <- MCCatalogue
    PageSize = 2
    Scenarios <- MCScenarios
    Parallel <- ContactsParallel
    Unasked <- ContactsUnasked
    More <- ContactsMore
    First <- ContactsFirst
    Second <- ContactsSecond
    Merge <- ContactsMerge
    Empty <- ContactsEmpty
    Ttl <- ContactsTtl
    Capacity = 2
    Retries = 1
    FetchTime = 1
    MaxEdits = 2
    MaxFaults = 1
SPECIFICATION Spec
INVARIANTS ContactsWithdrawnSoon ContactsSteadyServed
