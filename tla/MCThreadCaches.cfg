SPECIFICATION FairSpec
CONSTANTS
    Threads = {t1, t2, t3}
    Objects = {o1}
    Ids = {0, 1}
INVARIANTS TypeOK SoleHolder NoIdLost TagIsOwn
PROPERTY IdComesBack
CHECK_DEADLOCK FALSE
