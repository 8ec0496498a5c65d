SPECIFICATION FairSpec
CONSTANTS
    Pollers = {"poll"}
    Handlers = {"write"}
    Commands = {"command"}
    KeyRequests = 1
    MaxExpiries = 2
    MaxFaults = 2
INVARIANTS
    LoginsBounded
PROPERTIES
    RefusalsCease
    StreamFollowsHeader
