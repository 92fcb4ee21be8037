SPECIFICATION Spec
CONSTANTS
    Paths   <- MCPaths
    Files   <- MCFiles
    Argvs   <- MCArgvs
    Environ <- MCEnviron
    Plugins <- MCPlugins
    Impls   <- MCImpls
    MaxRuns = 3
INVARIANTS
    SavedConfigReloads
CHECK_DEADLOCK FALSE
