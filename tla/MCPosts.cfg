CONSTANTS
    P = P
    Q = Q
    Event = Event
    News = News
    Ch1 = Ch1
    Ch2 = Ch2
    PDe = PDe
    PEn = PEn
    PDe2 = PDe2
    PEn2 = PEn2
    QDe = QDe
    QEn = QEn
    EventDe = EventDe
    EventEn = EventEn
    NewsDe = NewsDe
    NewsEn = NewsEn
    ChDe = ChDe
    ChEn = ChEn
    None = None
    Blank = Blank
    PostSlugs = {P, Q}
    TagSlugs = {Event, News}
    ChannelSlugs = {Ch1, Ch2}
    English = {PEn, PEn2, QEn, EventEn, NewsEn, ChEn}
    German = {PDe, PDe2, QDe, EventDe, NewsDe, ChDe}
    EventTag = Event
    Scenarios <- MCScenarios
    Parallel <- PostsParallel
    Unasked <- PostsUnasked
    More <- PostsMore
    First <- PostsFirst
    Second <- PostsSecond
    Merge <- PostsMerge
    Empty <- PostsEmpty
    Ttl <- PostsTtl
    Capacity = 1
    Retries = 1
    FetchTime = 1
    MaxEdits = 2
    MaxFaults = 1
SPECIFICATION Spec
INVARIANTS PostsWithdrawnSoon PostsSteadyServed FallbackHonest MissFresh
