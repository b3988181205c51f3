SPECIFICATION Spec
CONSTANTS
    u1 = u1
    u2 = u2
    r1 = r1
    r2 = r2
    Users = {u1, u2}
    FirstUser = u1
    Rows = {r1, r2}
    Drafts = {r1}
    Files <- FilesDef
    MaxPortfolios = 2
    MaxHoldings = 2
    MaxInFlight = 2
INVARIANTS
    SelectedIsListed
    ReportIsOfSelection
    ImportedRowsAreStored
