SPECIFICATION FairSpec
CONSTANTS
    r1 = r1
    r2 = r2
    None = None
    Runs = {r1,r2}
    Jobs = {"a"}
    JobOf <- MCJobOf
    PathOf <- MCPathOf
    WithGz <- MCWithGz
    Paths <- MCPaths
    GzipJobs = {}
    Names = {"d1","e1"}
    NamesOf <- Fresh
    MaxAge <- MCMaxAge
    FaultyRuns = {r2}
    MaxTime = 1
    MaxStops = 1
INVARIANTS
    IInv
    NoOrphans
    ListedFilesKept
    DecidedByNewestRun
PROPERTIES
    ExpiredRemoved
    ImplementsArchive
