SPECIFICATION Spec
CONSTANTS
    Threads = {t1, t2}
    PoolSize = 1
    Main = main
    NoThread = nobody
    Clients = {"verify", "status"}
INVARIANTS NeverUndefined
