SPECIFICATION Spec
CONSTANTS
    Threads = {t1, t2}
    PoolSize = 1
    MaxPooled = 1
    Checker = checker
    Main = main
    NoThread = nobody
PROPERTIES RegistrationsReachMySQL
