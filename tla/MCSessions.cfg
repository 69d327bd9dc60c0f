SPECIFICATION Spec
CONSTANTS
    None = None
    Own = Own
    Projects = {p, q}
    Names = {1, 2, 3}
    Unsafe = {2}
    Setups <- MCSetups
    Budget = 2
    Recent = 1
    Trivial = 2
    LikelyTrivial = 2
    Small = 2
    Medium = 3
SYMMETRY MCSymmetry
CHECK_DEADLOCK FALSE
INVARIANT
    ResumesOnlyReported
PROPERTIES
    
    
    AnalysisIsFresh
