CONSTANTS
    here = here
    there = there
    elsewhere = elsewhere
    server = server
    Locals = {here}
    Remotes = {there, elsewhere}
    Servers = {server}
    ServerOf <- MCServerOf
    MaxSessions = 2
SPECIFICATION Spec
INVARIANTS
    
    TabsFollowSessions

    
