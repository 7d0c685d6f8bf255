SPECIFICATION FairSpec
CONSTANTS
    Threads = {t1, t2}
    PoolSize = 2
    MaxPooled = 2
    Checker = checker
    Main = main
    NoThread = nobody
INVARIANTS TypeOK NoSharing NoLostWakeup CloseMissesOneAtMost
PROPERTIES ImplementsPool ConnectionsKept CallsReturn
