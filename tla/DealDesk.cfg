SPECIFICATION DeskSpec
CONSTANTS
    Names = {"Tokyo", "Osaka", "Shinjuku", "Shinjuku-ku", "Taito-ku", "Yotsuya", "Ueno", "160-0004"}
    PartOf <- PartOfDef
    YearlyPayment <- YearlyPaymentDef
    HoldYears = 2
    Cells = 12
    Rounds = 8
    Readings <- ReadingsDef
    InvestorProfiles <- ProfilesDef
    Listings <- ListingsDef
    Snapshots <- SnapshotsDef
    TopN = 2
    Deals <- DealsDef
    Configs <- ConfigsDef
    Iterations = 3
    KeywordsOf <- KeywordsOfDef
    Window = 2
    Texts <- TextsDef
    Conversations = {0, 1}
    ModelReplies <- ModelRepliesDef
CHECK_DEADLOCK FALSE
INVARIANTS
    ReviewIsOfThoseWhoAnswered
    RankingIgnoresQueryOrder
    FilteredInIsNotElsewhere
    SolvencyMetricsAgree
    IrrEnclosesRoot
    StressPartsAgree
    TextsAreReadWholeOrNotAtAll
