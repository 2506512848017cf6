SPECIFICATION Spec
CONSTANTS
    t1 = t1
    c1 = c1
    c2 = c2
    c3 = c3
    NoFile = NoFile
    TaskIds = {t1}
    Conns = {c1,c2,c3}
    TaskOf <- OneTask
    LegacyConns = {c1,c2,c3}
    ChanCap = 1
SYMMETRY Symmetry
INVARIANTS
    TypeOK
    ConnectionCountExact
    OnlyLateHandlersAfterWait
    PanicOnlyFromLateHandler
    MetadataConserved
    RefusedOnlyAfterScript
    LossBounded
    WaitersHaveWakers
    IInv
