CONSTANTS
    A = A
    P = P
    Q = Q
    Soup = Soup
    Pasta = Pasta
    Cheap = Cheap
    Dear = Dear
    C1 = C1
    C9 = C9
    LMilk = LMilk
    LOats = LOats
    Milk = Milk
    Oats = Oats
    Gluten = Gluten
    Vegan = Vegan
    SprintTrait = SprintTrait
    None = None
    Codes = {C1, C9}
    Labels = {LMilk, LOats}
    Allergens = {Milk, Oats, Gluten}
    Traits = {Vegan, SprintTrait}
    Sprint = SprintTrait
    CodeToAllergen <- MCCodeToAllergen
    CodeToTrait <- MCCodeToTrait
    LabelToAllergen <- MCLabelToAllergen
    LabelToTrait <- MCLabelToTrait
    Parent <- MCParent
    Plans = {P, Q}
    Contents <- MCContents
    Imports <- MCImports
    Keys <- MCKeys
    MenuTtl = 1
    DictTtl = 2
    Capacity = 1
    BuildTime = 1
    MaxEdits = 2
    MaxFaults = 1
SPECIFICATION FairSpec
INVARIANTS MenuRecent SteadyShown AllergensKnown
PROPERTIES ServedForward EndsUpFresh
CHECK_DEADLOCK FALSE
