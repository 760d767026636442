SPECIFICATION FairSpec
CONSTANTS
    p1 = p1
    g1 = g1
    g2 = g2
    Sessions = {p1}
    NumServers = 3
    Groups <- Pattern
    Policy <- Balance
    MaxConnections <- NoLimit
    HasAuth = {}
    Answers <- AllDown
    Newsgroups = {g1, g2}
    ServerOf <- Listed
    NoGroup = NoGroup
    Commands = {"group"}
    Faults = {}
    SignalPoints = {}
    UIntMax = 7
    OpenBound = 1
    RaceBound = 2
PROPERTIES
    SelectionEnds
