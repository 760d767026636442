SPECIFICATION FairSpec
CONSTANTS
    MAX_PROC = 2
    MAX_USERS = 2
    UIntMax = 7
    Procs = {p1, p2}
    A = A
    B = B
    C = C
    i1 = i1
    i2 = i2
    h1 = h1
    h2 = h2
    bob = bob
    eve = eve
    Ips = {i1, i2}
    Keys = {h1, h2, bob}
    Profiles = {A, B}
    NoOwner = NoOwner
    NoIp = NoIp
    NoKey = NoKey
    NoProfile = NoProfile
    UnknownProfile = UnknownProfile
    MaxConnections = 9
    MaxProfConnections <- Many
    MaxUsers <- Many
    MaxUserConcurrent <- TwoInA
    MaxHostConcurrent <- Two
    Disabled = {}
    AccountSharing = {}
    PrefixMap <- NoMap
    FailProfile <- NoFail
    AclProfile <- AllInA
    Unlimit = {}
    Stats = {}
    HostKey <- OwnNames
    AuthUsers = {bob}
    AuthProfile <- AuthInB
    ModuleProfile <- NoAnswer
    Faults = {}
    DriftBound = 1
    SignalPoints = {}
PROPERTIES
    LockReleased
CHECK_DEADLOCK FALSE
