SPECIFICATION FairSpec
CONSTANTS
    Threads = {t1, t2}
    w1 = w1
    Words = {w1}
    Contexts = 2
    MaxLen = 1
    Blanks <- MCBlanks
    None = None
INVARIANTS TypeOK AnswersTruthful
PROPERTIES CallsEnd
