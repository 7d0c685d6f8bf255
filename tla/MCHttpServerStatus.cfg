CONSTANTS
    Conns = {c1, c2}
    PoolSize = 1
SPECIFICATION Spec
PROPERTIES StatusAsSet
CHECK_DEADLOCK FALSE
