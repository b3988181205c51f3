SPECIFICATION Spec
CONSTANTS
    Holdings <- MCHoldings
    Profiles <- MCProfiles
    MaxHoldings = 2
INVARIANTS FiguresAgree ProtectionHonored NoSilentLoss
CHECK_DEADLOCK FALSE
