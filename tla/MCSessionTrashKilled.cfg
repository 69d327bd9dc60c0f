CONSTANTS
    Apps = {a1}
    Files = {f1, f2}
    Objs = {o1, o2}
    Batches = {b1}
    MaxWrites = 0
    MaxFaults = 1
    None = None
SPECIFICATION Spec
INVARIANTS
    CleanedCanBeRestored
