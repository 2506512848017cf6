SPECIFICATION FairSpec
CONSTANTS
    a = a
    b = b
    Blank = Blank
    Garbage = Garbage
    Jobs = {a,b}
    Bounds <- MCBounds
    Calendar <- MCCalendar
    MainFiles <- MCMainFiles
    Includes <- MCIncludes
    Day = 3
    Limit = 8
    Horizon = 7
    MaxLag = 2
    MaxTime = 9
INVARIANTS
    IInv
    NoActivationSkipped
    NeverEarly
    LaunchedInOrder
    ListensBeforeRuns
    JobsAsWritten
PROPERTIES
    ActivationLaunched
    ImplementsTimetable
CHECK_DEADLOCK FALSE
