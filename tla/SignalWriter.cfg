SPECIFICATION Spec
CONSTANTS
    Jobs = {"j1", "j2", "j3"}
    Requests <- RequestsDef
    Schedule <- ScheduleDef
    Absent = Absent
    TileX <- TileXDef
    TileY <- TileYDef
    MaxTiles = 3
    Lookback = 8
CHECK_DEADLOCK FALSE
INVARIANTS
    OneRowPerDay
    JobIsAtomic
    LostOnlyToOverlap
    QuarterIsNewest
