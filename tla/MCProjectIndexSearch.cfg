CONSTANTS
    p1 = p1
    p2 = p2
    codex = codex
    claude = claude
    app = app
    lib = lib
    Procs <- MCProcs
    Tools <- MCTools
    Paths <- MCPaths
    MaxClock = 2
    MaxCommits = 2
    MayInterrupt = FALSE
SPECIFICATION Spec
SYMMETRY Symmetry
INVARIANTS
    SearchMatchesIndex
