SPECIFICATION Spec
CONSTANTS
    p1 = p1
    p2 = p2
    g1 = g1
    g2 = g2
    Sessions = {p1, p2}
    NumServers = 3
    Groups <- Pattern
    Policy <- Backup
    MaxConnections <- OneOnSecond
    HasAuth = {}
    Answers <- UpOrDown
    Newsgroups = {g1, g2}
    ServerOf <- Listed
    NoGroup = NoGroup
    Commands = {"group", "listgroup", "article", "xover", "mode", "ihave"}
    Faults = {"lost", "client", "term", "roll"}
    SignalPoints <- NotRolling
    UIntMax = 7
    OpenBound = 1
    RaceBound = 2
INVARIANTS
    ServerConnections
    ConnectedServer
    GroupOnServer
    PositionInRange
SYMMETRY Children
