SPECIFICATION Spec
CONSTANTS
    MAX_PROC = 3
    MAX_USERS = 5
    UIntMax = 7
    Procs = {p1, p2, p3}
    A = A
    B = B
    C = C
    i1 = i1
    i2 = i2
    h1 = h1
    h2 = h2
    bob = bob
    eve = eve
    Ips = {i1, i2}
    Keys = {h1, h2, bob}
    Profiles = {A, B}
    NoOwner = NoOwner
    NoIp = NoIp
    NoKey = NoKey
    NoProfile = NoProfile
    UnknownProfile = UnknownProfile
    MaxConnections = 9
    MaxProfConnections <- NoneInB
    MaxUsers <- NoneInB
    MaxUserConcurrent <- TwoInA
    MaxHostConcurrent <- Two
    Disabled = {}
    AccountSharing = {}
    PrefixMap <- MapOfB
    FailProfile <- FailOfB
    AclProfile <- AllInA
    Unlimit = {}
    Stats = {}
    HostKey <- OneName
    AuthUsers = {bob}
    AuthProfile <- AuthInB
    ModuleProfile <- NoAnswer
    Faults = {"fork", "affinity"}
    DriftBound = 1
    SignalPoints = {"admit_user", "admit_profile", "loop", "auth_lock"}
INVARIANTS
    TypeOK
    SlotOwnership
    UserConnections
    UserTable
    ProfileConnections
    HostLimit
SYMMETRY Children
