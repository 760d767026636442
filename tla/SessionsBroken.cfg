SPECIFICATION FairSpec
CONSTANTS
    MAX_PROC = 2
    MAX_USERS = 1
    UIntMax = 7
    Procs = {p1, p2}
    A = A
    B = B
    C = C
    i1 = i1
    i2 = i2
    h1 = h1
    h2 = h2
    bob = bob
    eve = eve
    Ips = {i1, i2}
    Keys = {h1, h2, bob}
    Profiles = {A, B}
    NoOwner = NoOwner
    NoIp = NoIp
    NoKey = NoKey
    NoProfile = NoProfile
    UnknownProfile = UnknownProfile
    MaxConnections = 1
    MaxProfConnections <- Many
    MaxUsers <- Many
    MaxUserConcurrent <- TwoInA
    MaxHostConcurrent <- One
    Disabled = {}
    AccountSharing = {B}
    PrefixMap <- MapOfB
    FailProfile <- FailOfB
    AclProfile <- AllInA
    Unlimit = {}
    Stats = {i1}
    HostKey <- OneName
    AuthUsers = {bob}
    AuthProfile <- AuthInB
    ModuleProfile <- Answers
    Faults = {"fork", "affinity", "race"}
    DriftBound = 1
    SignalPoints = {"start", "init", "reg_lock", "reg_cs", "admit_user", "admit_profile", "loop", "auth_lock", "auth_cs", "as_check", "as_lock", "switch_cs", "undo_lock", "undo_cs", "stat_lock", "stat_cs", "close_cs"}
INVARIANTS
    MutualExclusion
PROPERTIES
    SessionEnds
    ListenerReturns
CHECK_DEADLOCK FALSE
