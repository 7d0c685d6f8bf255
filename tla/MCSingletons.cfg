SPECIFICATION FairSpec
CONSTANTS
    Threads = {t1, t2}
    Main = main
    MaxBad = 1
INVARIANTS TypeOK FoundationsOutlive WaitsAreShort
PROPERTIES InitsEnd ExitEnds
