SPECIFICATION Spec
CONSTANTS
    r1 = r1
    r2 = r2
    Runs = {r1, r2}
    Faults = {"broker", "compute", "db_start", "db", "crash"}
    Stuck = {}
CHECK_DEADLOCK FALSE
INVARIANTS
    TypeOK
    ResultsMatchStatus
    AuditAgreesWithRecord
    PublishedIsRecoverable
PROPERTIES
    AuditedOutcomeIsFinal
    ImplementsLifecycle
