CONSTANTS
    w1 = w1
    atlas = atlas
    shell = shell
    notes = notes
    Windows = {w1}
    Projects = {atlas, shell, notes}
    Catalogs <- MCCatalogs
    Names = {"Active", "Later"}
    Earlier <- MCEarlier
    MaxGroups = 2
    MaxChanges = 2
SPECIFICATION Spec
INVARIANTS
    PositionsFollowBuckets
PROPERTIES
    MoveLandsAtItsAnchor
    AcceptedOnWhatWasShown
