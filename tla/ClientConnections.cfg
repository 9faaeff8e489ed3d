SPECIFICATION FairSpec
CONSTANTS
    c1 = c1
    c2 = c2
    c3 = c3
    none = none
    Conns <- ThreeConns
    max_intercepted = 1
    max_blocked = 1
    max_passthrough = 1
    RECLAIM_GRACE = 1
    CLOSE_GRACE = 2
    RECLAIM_WAIT = 2
    BLOCKED_SLOT_WAIT = 2
    MIN_IDLE_TO_RECLAIM = 1
    idle_timeout = 2
    MaxLate = 1
INVARIANTS
    SlotsAccounted
PROPERTIES
    PutOffOnlyIfFull
    AskedEnds
