CONSTANTS
    A = A
    B = B
    X = X
    Y = Y
    T = T
    Soup = Soup
    Pasta = Pasta
    Cheap = Cheap
    Dear = Dear
    Milk = Milk
    LMilk = LMilk
    LEgg = LEgg
    Blank = Blank
    Broken = Broken
    None = None
    Canteens = {A, B}
    Registry <- MCRegistry
    Plans = {X, Y, T}
    TestPlans = {T}
    Dates = {0, 1, 2}
    Dishes = {Soup, Pasta}
    PriceLists = {Cheap, Dear}
    Codes = {Milk}
    Labels = {LMilk, LEgg}
    Sources <- MCSources
    TestMeals <- MCTestMeals
    TestLabels <- MCTestLabels
    Retries = 1
    MaxEdits = 2
    MaxFaults = 1
SPECIFICATION FairSpec
INVARIANTS StampHonest
PROPERTIES SourcesSeparate LastGoodKept EndsUpServed EndsUpWithdrawn
CHECK_DEADLOCK FALSE
