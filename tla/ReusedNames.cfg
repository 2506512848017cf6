SPECIFICATION Spec
CONSTANTS
    r1 = r1
    r2 = r2
    None = None
    Runs = {r1,r2}
    Jobs = {"a"}
    JobOf <- MCJobOf
    PathOf <- MCPathOf
    WithGz <- MCWithGz
    Paths <- MCPaths
    GzipJobs = {}
    Names = {"main"}
    NamesOf <- Reused
    MaxAge <- MCMaxAge
    FaultyRuns = {}
    MaxTime = 2
    MaxStops = 0
INVARIANT
    ListedFilesKept
