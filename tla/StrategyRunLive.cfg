SPECIFICATION FairSpec
CONSTANTS
    r1 = r1
    r2 = r2
    Runs = {r1, r2}
    Faults = {"compute", "db_start", "db", "lost_ack", "crash"}
    Stuck = {r1}
CHECK_DEADLOCK FALSE
INVARIANTS
    AuditSequence
    TerminalEventsBounded
PROPERTIES
    RunSettles
