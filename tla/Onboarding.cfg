SPECIFICATION Spec
CONSTANTS
    a = a
    b = b
    prop = prop
    draft = draft
    Drafts = {draft}
    Ranking <- RankingDef
    Properties = {prop}
    AddressOf <- AddressOfDef
    Addresses = {a, b}
    Files <- FilesDef
    Extractions <- ExtractionsDef
    MaxInFlight = 2
INVARIANTS
    ConfirmIsBacked
    SelectedIsHeld
    ExtractionsAccumulate
    SpinnerHasCall
