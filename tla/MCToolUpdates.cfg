CONSTANTS
    codex = codex
    demo = demo
    s1 = s1
    Jobs = {j1, j2}
    NoJob = NoJob
    Official = {codex}
    Extensions = {demo}
    Servers = {s1}
    Settings = {terminal}
    MaxVersion = 3
    MaxCommands = 3
    Packaged = {codex}
    Unsupported <- MCUnsupported
    MaxRelease = 3
    Limit = 1
SYMMETRY Symmetry
SPECIFICATION UpdatesSpec
INVARIANTS
    ActiveVersionIsInstalled
    UpgradeIsVerified
    AnswersTellTheMachine
    CallsEndClean
PROPERTIES
    NoUpdateIsLost
    FailedChangeIsUndone
CHECK_DEADLOCK FALSE
