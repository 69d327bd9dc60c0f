CONSTANTS
    a = a
    b = b
    h = h
    Earlier <- MCEarlier
    MaxServers = 2
    Paths = {a, b, h}
    Hidden = {h}
    Tools = {t}
    MaxWorkers = 1
    MaxClock = 3
    Ignorable = {1}
SPECIFICATION Spec

    
PROPERTIES
    
    
    ImplementsServerCatalog
    BatchEnds
CHECK_DEADLOCK FALSE
