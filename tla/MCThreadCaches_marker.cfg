SPECIFICATION FairSpec
CONSTANTS
    Threads = {t1, t2, t3}
    Objects = {o1}
    Ids = {0, 1}
INVARIANT MarkerUntouched
CHECK_DEADLOCK FALSE
