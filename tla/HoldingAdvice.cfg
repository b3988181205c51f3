SPECIFICATION Spec
CONSTANTS
    Observations <- MCObservations
    Owners <- MCOwners
    Financials <- MCFinancials
    MaxRows = 3
INVARIANTS PathsAgree SaferNeverNeedsIntervention TighterOwnerNeverRaisesRent
