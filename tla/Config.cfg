SPECIFICATION Spec
CONSTANTS
    Paths   <- MCPaths
    Files   <- MCFiles
    Argvs   <- MCArgvs
    Environ <- MCEnviron
    Plugins <- MCPlugins
    Impls   <- MCImpls
    MaxRuns = 3
INVARIANTS
    TypeOK
    CmdlineWins
    RepeatablesAsAsked
    ReloadsAsSaved
    RefusedKeepsFiles
CHECK_DEADLOCK FALSE
