CONSTANTS
    Ptys = {s1}
    Callers = {c1, c2}
    ChannelSize = 1
    MaxOutput = 2
    MayFail = TRUE
    Nobody = Nobody
SPECIFICATION PtySpec
CHECK_DEADLOCK FALSE
INVARIANTS
    PtyTypeOK
    OneOwner
    OutputAccounted
    
    
PROPERTIES
    CommandsReturn
    SessionsEnd
