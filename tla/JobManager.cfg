SPECIFICATION FairSpec
CONSTANTS
    t1 = t1
    t2 = t2
    c1 = c1
    c2 = c2
    Nobody = Nobody
    TaskIds = {t1,t2}
    Conns = {c1,c2}
    TaskOf <- MCTaskOf
INVARIANTS
    IInv
    NoDataRace
    QueueInv
    NoDeadlock
PROPERTIES
    ImplementsUse
    CallsReturn
