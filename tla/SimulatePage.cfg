SPECIFICATION PageFairSpec
CONSTANTS
    run1 = run1
    w1 = w1
    w2 = w2
    Run = run1
    Workers = {w1}
    Slots = {1}
    WsModes = {TRUE, FALSE}
    MayDie = TRUE
CHECK_DEADLOCK FALSE
INVARIANTS OutcomeShownHappened
 
