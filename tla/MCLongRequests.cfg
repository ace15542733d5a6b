CONSTANTS
    t1 = t1
    t2 = t2
    t3 = t3
    a1 = a1
    a2 = a2
    a3 = a3
    a4 = a4
    None = None
    Threads = {t1, t2, t3}
    FirstAlone = TRUE
    Addresses = {a1, a2, a3, a4}
    DirectSlots = 2
SPECIFICATION LSpec
INVARIANTS LTypeOK ServedIsReady TableIsExact NoMappingLost
PROPERTY CallEnds
