CONSTANTS
    Apps = {a1, a2}
    Files = {f1, f2}
    Objs = {o1, o2, o3}
    Batches = {b1, b2}
    MaxWrites = 1
    MaxFaults = 2
    None = None
SYMMETRY Symmetry
SPECIFICATION Spec
INVARIANTS
    OnePlace
    AllOrNothing
PROPERTIES
    LostOnlyInTheWindow
    TakenAsShown
