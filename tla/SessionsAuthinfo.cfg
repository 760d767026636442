SPECIFICATION Spec
CONSTANTS
    MAX_PROC = 3
    MAX_USERS = 5
    UIntMax = 7
    Procs = {p1, p2, p3}
    A = A
    B = B
    C = C
    i1 = i1
    i2 = i2
    h1 = h1
    h2 = h2
    bob = bob
    eve = eve
    Ips = {i1, i2}
    Keys = {h1, h2, bob}
    Profiles = {A, B, C}
    NoOwner = NoOwner
    NoIp = NoIp
    NoKey = NoKey
    NoProfile = NoProfile
    UnknownProfile = UnknownProfile
    MaxConnections = 9
    MaxProfConnections <- OneInB
    MaxUsers <- OneInB
    MaxUserConcurrent <- One
    MaxHostConcurrent <- Two
    Disabled = {C}
    AccountSharing = {B}
    PrefixMap <- NoMap
    FailProfile <- NoFail
    AclProfile <- AllInA
    Unlimit = {i2}
    Stats = {i2}
    HostKey <- OwnNames
    AuthUsers = {bob}
    AuthProfile <- AuthInB
    ModuleProfile <- MoreAnswers
    Faults = {}
    DriftBound = 1
    SignalPoints = {}
INVARIANTS
    UserConnections
    LockDiscipline
    UserLimit
    ProfileUsers
    MasterConnections
PROPERTIES
    EntryStable
    ImplementsRoster
SYMMETRY Children
