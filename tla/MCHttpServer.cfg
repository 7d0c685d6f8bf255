CONSTANTS
    Conns = {c1, c2, c3}
    PoolSize = 2
SPECIFICATION FairSpec
INVARIANTS TypeOK ListeningUntilCaught
PROPERTIES HandlersGetParameters NoSilentDrop RequestsEnd StopEnds
CHECK_DEADLOCK FALSE
