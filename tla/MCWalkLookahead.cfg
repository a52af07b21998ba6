SPECIFICATION FairLookaheadSpec
CONSTANTS
    m_order <- MCOrder
    Oracle <- MCOracle
    m_depth = 2
    PoolSize = 3
    Faults = {"oracle", "submit"}
INVARIANTS
    LookaheadIsSound
PROPERTIES
    ImplementsMrsWalk
CHECK_DEADLOCK FALSE
