SPECIFICATION Spec
CONSTANTS
    Jobs = {j1, j2}
    SessionFiles = {1, 2}
    Paths = {1, 2}
    ProjectOf <- MCProjectOf
    DocsOf <- MCDocsOf
    MaxFiles = 1
    MaxClock = 3
    MaxRescans = 2
    Nobody = Nobody
SYMMETRY MCSymmetry
CHECK_DEADLOCK FALSE
INVARIANTS
    ContentIndexIsSound
    SuccessCoversEverySession
    
