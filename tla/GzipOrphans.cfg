SPECIFICATION Spec
CONSTANTS
    r1 = r1
    r2 = r2
    None = None
    Runs = {r1,r2}
    Jobs = {"a"}
    JobOf <- MCJobOf
    PathOf <- MCPathOf
    WithGz <- MCWithGz
    Paths <- MCPaths
    GzipJobs = {"a"}
    Names = {"d1","e1"}
    NamesOf <- Fresh
    MaxAge <- MCMaxAge
    FaultyRuns = {}
    MaxTime = 2
    MaxStops = 0
INVARIANT
    NoOrphans
