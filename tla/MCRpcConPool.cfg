SPECIFICATION FairSpec
CONSTANTS
    Threads = {t1, t2, t3}
    PoolSize = 2
    Main = main
    NoThread = nobody
    Clients = {"verify", "status"}
INVARIANTS TypeOK NothingLost NoLostWakeup CloseWakesAll
PROPERTIES CallsCarryMessages ImplementsPool EveryCallEnds
