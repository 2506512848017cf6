SPECIFICATION Spec
CONSTANTS
    t1 = t1
    c1 = c1
    c2 = c2
    c3 = c3
    NoFile = NoFile
    TaskIds = {t1}
    Conns = {c1,c2}
    TaskOf <- SmallTask
    LegacyConns = {}
    ChanCap = 1
INVARIANT
    SuccessListsSentFiles
