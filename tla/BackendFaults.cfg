SPECIFICATION FairSpec
CONSTANTS
    p1 = p1
    g1 = g1
    g2 = g2
    Sessions = {p1}
    NumServers = 3
    Groups <- Pattern
    Policy <- Balance
    MaxConnections <- NoLimit
    HasAuth = {3}
    Answers <- SecondUp
    Newsgroups = {g1, g2}
    ServerOf <- Listed
    NoGroup = NoGroup
    Commands = {"group", "listgroup", "article", "xover", "stat", "mode", "post", "ihave"}
    Faults = {"lost", "client", "term", "int", "reload", "race"}
    SignalPoints <- Anywhere
    UIntMax = 3
    OpenBound = 1
    RaceBound = 2
INVARIANTS
    TypeOK
PROPERTIES
    SelectionEnds
