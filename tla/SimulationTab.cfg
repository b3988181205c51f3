SPECIFICATION TabFairSpec
CONSTANTS
    p1 = p1
    p2 = p2
    Portfolios = {p1, p2}
    MaxRequests = 4
    MayFail = TRUE
    MayCrash = TRUE
INVARIANTS
    ReportIsOfLaunch
PROPERTIES
    SpinnerStops
