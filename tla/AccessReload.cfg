SPECIFICATION Spec
CONSTANTS
    s1 = s1
    s2 = s2
    u = u
    Sessions = {s1, s2}
    Users = {u}
    Matches <- Everybody
    Files <- Configs
    Includes <- Included
    AuthModules = {"ignore"}
    AcctModules = {"none"}
    RemoteConfigs = {TRUE, FALSE}
    RemoteWildmats <- Lists
    AddrBits = 4
    NetBits = 3
    Clients = {0, 2}
SYMMETRY Children
CHECK_DEADLOCK FALSE
INVARIANTS
    TypeOK
    NamesUnique
    RefsDefined
    ConnectionsKept
    FileInForce
PROPERTIES
    EntriesStable
