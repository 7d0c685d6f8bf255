SPECIFICATION FairSpec
CONSTANTS
    Threads = {t1, t2, t3}
    PoolSize = 2
    Main = main
    NoThread = nobody
INVARIANTS TypeOK NothingLeaks SecondCloseWakesAll NoLostWakeup
PROPERTIES ShrinksOnlyWhenDown ImplementsPool EveryGetEnds
