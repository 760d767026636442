------------------------------ MODULE Sessions ------------------------------
(***************************************************************************)
(* The life of a client session in nntpswitchd.                            *)
(*                                                                         *)
(* The listener (daemon.c) accepts a connection, checks the limits it can  *)
(* check, reserves a CLIENT slot and forks a child.  The child (nntpd.c)   *)
(* counts itself, finds its USER entry and PROFILE, is admitted or refused,*)
(* serves commands - of which AUTHINFO (reader.c) moves it to another user *)
(* and profile - and leaves through close_child (client.c).  All of them   *)
(* share one MASTER struct in MAP_SHARED memory.  One SysV semaphore guards*)
(* the critical sections; the listener's limit checks, the child's         *)
(* admission checks and the first increment of master->connections run     *)
(* without it.                                                             *)
(*                                                                         *)
(* An operator commented "Mutant" is a bug this code could have had.  The  *)
(* specification uses none of them: each takes the place of the definition *)
(* that follows it, to see that the property named breaks.                 *)
(***************************************************************************)
EXTENDS Integers, FiniteSets

CONSTANTS
    MAX_PROC,           \* number of CLIENT slots, nntpd.h
    MAX_USERS,          \* number of USER entries, nntpd.h
    UIntMax,            \* largest value of the uint counters
    Procs,              \* the processes that may be children
    Ips,                \* client addresses
    Keys,               \* host names and user names: the keys of the USER table
    Profiles,           \* the profiles of access.conf
    NoOwner, NoIp, NoKey, NoProfile,    \* "none", 0, "" and NULL
    UnknownProfile      \* a profile name access.conf does not define

CONSTANTS
    MaxConnections,     \* nntpswitch.conf: global limit
    MaxProfConnections, \* access.conf, per profile: MaxConnections
    MaxUsers,           \* access.conf, per profile
    MaxUserConcurrent,  \* access.conf, per profile
    MaxHostConcurrent,  \* access.conf, per profile; 0 is no limit
    Disabled,           \* the profiles with a Disabled text
    AccountSharing,     \* the profiles with ASMaxConns or ASMaxHosts set
    PrefixMap,          \* per profile: the addresses of its map (Ips if none)
    FailProfile,        \* per profile: FailProfile or NoProfile
    AclProfile,         \* getacl: the profile of an address
    Unlimit,            \* the addresses whose ACL says unlimit
    Stats,              \* the addresses whose ACL says stats
    HostKey,            \* the host name of an address
    AuthUsers,          \* the user names the auth modules accept
    AuthProfile,        \* getauth: the profile of the matching auth line
    ModuleProfile       \* the profile names a module may answer, or NoProfile

CONSTANTS
    Faults,             \* what may go wrong: see FaultAssumption
    DriftBound,         \* bound of the model on what lost updates add up to
    SignalPoints        \* the program points a child may catch a signal at

Slots == 0 .. MAX_PROC - 1
Users == 0 .. MAX_USERS - 1
NULL  == -1

UInt == 0 .. UIntMax
Inc(n) == IF n = UIntMax THEN 0 ELSE n + 1
Dec(n) == IF n = 0 THEN UIntMax ELSE n - 1

\* Program points of a child.  A point "x_lock" waits for the semaphore,
\* "x_cs" holds it.
Holding == {"reg_cs", "auth_cs", "switch_cs", "undo_cs", "stat_cs", "close_cs"}
Waiting == {"reg_lock", "auth_lock", "as_lock", "undo_lock", "stat_lock",
            "close"}
Serving == {"loop", "auth_lock", "auth_cs", "as_check", "as_lock",
            "switch_cs", "undo_lock", "undo_cs", "stat_lock", "stat_cs"}
Registered == Serving \cup {"admit_user", "admit_profile", "close", "close_cs"}
Points == Registered \cup Holding \cup Waiting
            \cup {"none", "start", "init", "exit"}

\* Where a signal handler's close_child finds the session whole: registered,
\* outside every critical section and not half way through AUTHINFO.
SafePoints == {"admit_user", "admit_profile", "loop", "auth_lock", "stat_lock"}

ASSUME SizeAssumption ==
    /\ MAX_PROC \in Nat /\ MAX_USERS \in Nat
    /\ IsFiniteSet(Procs)
    /\ UIntMax \in Nat \ {0}
    /\ UIntMax >= MAX_PROC + Cardinality(Procs)

ASSUME ValueAssumption ==
    /\ NoOwner \notin Procs
    /\ NoIp \notin Ips
    /\ NoKey \notin Keys
    /\ NoProfile \notin Profiles
    /\ UnknownProfile \notin Profiles
    /\ UnknownProfile # NoProfile

\* master->profiles has MAX_PROFILES entries (nntpd.h).
ASSUME ProfileAssumption == IsFiniteSet(Profiles)

ASSUME ConfigAssumption ==
    /\ MaxConnections \in Nat /\ DriftBound \in Nat
    /\ MaxProfConnections \in [Profiles -> Nat]
    /\ MaxUsers \in [Profiles -> Nat]
    /\ MaxUserConcurrent \in [Profiles -> Nat]
    /\ MaxHostConcurrent \in [Profiles -> Nat]
    /\ PrefixMap \in [Profiles -> SUBSET Ips]
    /\ FailProfile \in [Profiles -> Profiles \cup {NoProfile}]
    /\ AclProfile \in [Ips -> Profiles]
    /\ HostKey \in [Ips -> Keys]
    /\ AuthUsers \subseteq Keys
    /\ AuthProfile \in [AuthUsers -> Profiles]
    /\ ModuleProfile \in
         [AuthUsers -> SUBSET (Profiles \cup {NoProfile, UnknownProfile})]

\* "fork" and "affinity" are calls that may fail.  "race": the unguarded
\* master->connections++ of two processes may overlap, and one be lost.  A
\* handler that strikes at the start of close_child starts it again.
ASSUME FaultAssumption ==
    /\ Faults \subseteq {"fork", "affinity", "race"}
    /\ SignalPoints \subseteq Points \ {"none", "close"}

VARIABLES
    sem,                \* owner of the semaphore
    client,             \* master->clients
    user,               \* master->users
    connections,        \* PROFILE.connections
    numusers,           \* PROFILE.numusers
    master_connections, \* master->connections
    master_numusers,    \* master->numusers
    listener,           \* the master process: program point, address, slot
    pc,                 \* program point of each child
    slot,               \* the child's global "client", as a slot number
    tmp,                \* the value of master->connections a child has read
    newuser, newprf     \* the locals of cmdauthinfo

table == <<user, numusers, master_numusers>>
locals == <<slot, tmp, newuser, newprf>>
vars == <<sem, client, table, connections, master_connections, listener, pc,
          locals>>

-----------------------------------------------------------------------------
(* The shared tables.                                                      *)

FreeClient == [inuse |-> FALSE, ip4addr |-> NoIp, profile |-> NoProfile,
               user |-> NULL, authenticated |-> FALSE]
EmptyUser == [key |-> NoKey, connections |-> 0]

Least(S) == {x \in S : \A y \in S : x <= y}

Known(k) == {u \in Users : user[u].key = k}

\* prof_iplookup: a profile with a prefix map hands the addresses outside of
\* the map to its FailProfile.
IpLookup(f, ip) ==
    IF ip \in PrefixMap[f] \/ FailProfile[f] = NoProfile
    THEN f ELSE FailProfile[f]

\* find_user(k, f) returns the entry u: a known key gains a connection, a new
\* one takes the first empty entry and counts as a user of f, a full table
\* gives NULL.
find_user(k, f, u) ==
    \/ /\ u \in Least(Known(k))
       /\ user' = [user EXCEPT ![u].connections = Inc(@)]
       /\ UNCHANGED <<numusers, master_numusers>>
    \/ /\ Known(k) = {}
       /\ u \in Least(Known(NoKey))
       /\ user' = [user EXCEPT ![u] = [key |-> k, connections |-> 1]]
       /\ numusers' = [numusers EXCEPT ![f] = Inc(@)]
       /\ master_numusers' = master_numusers + 1
    \/ /\ Known(k) = {}
       /\ Known(NoKey) = {}
       /\ u = NULL
       /\ UNCHANGED table

\* Mutant (UserTable): the key of a user who has left stays.
drop_userKeyed(u, f) ==
    /\ user' = [user EXCEPT ![u].connections = Dec(@)]
    /\ \/ /\ Dec(user[u].connections) = 0
          /\ numusers' = [numusers EXCEPT ![f] = Dec(@)]
          /\ master_numusers' = master_numusers - 1
       \/ /\ Dec(user[u].connections) # 0
          /\ UNCHANGED <<numusers, master_numusers>>

\* Mutant (ProfileUsers): every connection that leaves counts as a user.
drop_userEvery(u, f) ==
    /\ user' = [user EXCEPT ![u] = IF Dec(@.connections) = 0 THEN EmptyUser
                              ELSE [@ EXCEPT !.connections = Dec(@)]]
    /\ numusers' = [numusers EXCEPT ![f] = Dec(@)]
    /\ master_numusers' = master_numusers - 1

\* Mutant (EntryStable): the first connection to leave clears the entry.
drop_userFirst(u, f) ==
    /\ user' = [user EXCEPT ![u] = EmptyUser]
    /\ numusers' = [numusers EXCEPT ![f] = Dec(@)]
    /\ master_numusers' = master_numusers - 1

\* drop_user(u, f): the last connection clears the entry and takes one user
\* off the profile the caller names.
drop_user(u, f) ==
    \/ /\ Dec(user[u].connections) = 0
       /\ user' = [user EXCEPT ![u] = EmptyUser]
       /\ numusers' = [numusers EXCEPT ![f] = Dec(@)]
       /\ master_numusers' = master_numusers - 1
    \/ /\ Dec(user[u].connections) # 0
       /\ user' = [user EXCEPT ![u].connections = Dec(@)]
       /\ UNCHANGED <<numusers, master_numusers>>

\* find_user_profile(k): the profile of the first client that refers to the
\* entry of k.
UserProfile(k) ==
    LET s == {t \in Slots : client[t].user \in Known(k)}
    IN  {client[t].profile : t \in Least(s)}

-----------------------------------------------------------------------------
(* The listener: daemon_accept, access_check, find_slot, fork.             *)

Idle == [at |-> "select", ip |-> NoIp, slot |-> NULL]

\* The checks access_check makes without the semaphore.
ConnectionAllowed(ip) ==
    /\ master_connections <= MaxConnections
    /\ AclProfile[ip] \notin Disabled
    /\ connections[AclProfile[ip]] <= MaxProfConnections[AclProfile[ip]]

\* Lost updates add up without limit; the model stops accepting at the bound.
Bounded == /\ master_connections >= -DriftBound
           /\ \A p \in Procs : tmp[p] <= MaxConnections + DriftBound

access_check(ip) ==
    /\ listener.at = "select"
    /\ ConnectionAllowed(ip) /\ Bounded
    /\ listener' = [listener EXCEPT !.at = "reserve", !.ip = ip]
    /\ UNCHANGED <<sem, client, table, connections, master_connections, pc,
                   locals>>

\* A refused connection is closed and leaves no trace.
access_refused(ip) ==
    /\ listener.at = "select"
    /\ ~(ConnectionAllowed(ip) /\ Bounded)
    /\ UNCHANGED vars

HostSessions(ip) == {s \in Slots : client[s].ip4addr = ip}

HostMax(ip) == MaxHostConcurrent[AclProfile[ip]]

\* Mutant (HostLimit): the connection asked for is not counted.
HostFullLate(ip) ==
    /\ ip \notin Unlimit
    /\ HostMax(ip) > 0
    /\ Cardinality(HostSessions(ip)) > HostMax(ip)

HostFull(ip) ==
    /\ ip \notin Unlimit
    /\ HostMax(ip) > 0
    /\ Cardinality(HostSessions(ip)) + 1 > HostMax(ip)

\* Mutant (TypeOK): the search runs to MAX_PROC.
FreeSlotsBeyond == {s \in 0 .. MAX_PROC : s = MAX_PROC \/ ~client[s].inuse}

\* Mutant (SlotOwnership): a slot without a user is taken for a free one.
FreeSlotsByUser == {s \in Slots : client[s].user = NULL}

FreeSlots == {s \in Slots : ~client[s].inuse}

\* find_slot between semlock_lock and semlock_unlock.  Nothing else in the
\* section is visible outside of it, so the three are one step.
find_slot ==
    /\ listener.at = "reserve"
    /\ sem = NoOwner
    /\ \/ /\ ~HostFull(listener.ip)
          /\ \E s \in Least(FreeSlots) :
                /\ client' = [client EXCEPT ![s] =
                     [FreeClient EXCEPT !.inuse = TRUE,
                                        !.ip4addr = listener.ip]]
                /\ listener' = [listener EXCEPT !.at = "fork", !.slot = s]
       \/ /\ HostFull(listener.ip) \/ FreeSlots = {}
          /\ listener' = Idle
          /\ UNCHANGED client
    /\ UNCHANGED <<sem, table, connections, master_connections, pc, locals>>

\* Mutant (ListenerReturns): the master handles the connection once more.
ForkAgain(p) ==
    /\ listener.at = "fork"
    /\ pc[p] = "none"
    /\ pc' = [pc EXCEPT ![p] = "start"]
    /\ slot' = [slot EXCEPT ![p] = listener.slot]
    /\ listener' = [listener EXCEPT !.at = "reserve"]
    /\ UNCHANGED <<sem, client, table, connections, master_connections, tmp,
                   newuser, newprf>>

\* The child starts in run_child with its global client set to the slot.
Fork(p) ==
    /\ listener.at = "fork"
    /\ pc[p] = "none"
    /\ pc' = [pc EXCEPT ![p] = "start"]
    /\ slot' = [slot EXCEPT ![p] = listener.slot]
    /\ listener' = Idle
    /\ UNCHANGED <<sem, client, table, connections, master_connections, tmp,
                   newuser, newprf>>

\* fork returns -1: the message is logged and the slot stays reserved.
ForkFails ==
    /\ "fork" \in Faults
    /\ listener.at = "fork"
    /\ listener' = Idle
    /\ UNCHANGED <<sem, client, table, connections, master_connections, pc,
                   locals>>

-----------------------------------------------------------------------------
(* A child: run_child.                                                     *)

me(p) == client[slot[p]]

Goto(p, point) == pc' = [pc EXCEPT ![p] = point]

\* The process ends; SEM_UNDO gives back a semaphore it still holds.
Exit(p) ==
    /\ Goto(p, "none")
    /\ slot' = [slot EXCEPT ![p] = NULL]
    /\ tmp' = [tmp EXCEPT ![p] = 0]
    /\ newuser' = [newuser EXCEPT ![p] = NULL]
    /\ newprf' = [newprf EXCEPT ![p] = NoProfile]
    /\ sem' = IF sem = p THEN NoOwner ELSE sem

\* master->connections++ outside of the semaphore: the load ...
ReadCount(p) ==
    /\ pc[p] = "start"
    /\ tmp' = [tmp EXCEPT ![p] =
                  IF "race" \in Faults THEN master_connections ELSE 0]
    /\ Goto(p, "init")
    /\ UNCHANGED <<sem, client, table, connections, master_connections,
                   listener, slot, newuser, newprf>>

\* ... and the store.
StoreCount(p) ==
    master_connections' =
        1 + IF "race" \in Faults THEN tmp[p] ELSE master_connections

\* The client gets the profile of the ACL or of its prefix map.
InitClient(p) ==
    /\ pc[p] = "init"
    /\ StoreCount(p)
    /\ client' = [client EXCEPT ![slot[p]].profile =
                     IpLookup(AclProfile[me(p).ip4addr], me(p).ip4addr)]
    /\ Goto(p, "reg_lock")
    /\ tmp' = [tmp EXCEPT ![p] = 0]
    /\ UNCHANGED <<sem, table, connections, listener, slot, newuser, newprf>>

\* sched_setaffinity fails: die() leaves the slot and the count behind.
AffinityFails(p) ==
    /\ "affinity" \in Faults
    /\ pc[p] = "init"
    /\ StoreCount(p)
    /\ client' = [client EXCEPT ![slot[p]].profile =
                     AclProfile[me(p).ip4addr]]
    /\ Exit(p)
    /\ UNCHANGED <<table, connections, listener>>

\* semlock_lock, at each of its call sites in a child.
LockNext == [reg_lock |-> "reg_cs", auth_lock |-> "auth_cs",
             as_lock |-> "switch_cs", undo_lock |-> "undo_cs",
             stat_lock |-> "stat_cs", close |-> "close_cs"]

\* Mutant (MutualExclusion): the lock does not wait for its owner.
semlock_lockBusy(p) ==
    /\ pc[p] \in Waiting
    /\ pc[p] = "close" => me(p).profile # NoProfile
    /\ sem' = p
    /\ Goto(p, LockNext[pc[p]])
    /\ UNCHANGED <<client, table, connections, master_connections, listener,
                   locals>>

semlock_lock(p) ==
    /\ pc[p] \in Waiting
    /\ pc[p] = "close" => me(p).profile # NoProfile
    /\ sem = NoOwner
    /\ sem' = p
    /\ Goto(p, LockNext[pc[p]])
    /\ UNCHANGED <<client, table, connections, master_connections, listener,
                   locals>>

\* The registration section of run_child.
Register(p) ==
    /\ pc[p] = "reg_cs"
    /\ connections' = [connections EXCEPT ![me(p).profile] = Inc(@)]
    /\ \E u \in Users \cup {NULL} :
          /\ find_user(HostKey[me(p).ip4addr], me(p).profile, u)
          /\ client' = [client EXCEPT ![slot[p]].user = u]
    /\ sem' = NoOwner
    /\ Goto(p, "admit_user")
    /\ UNCHANGED <<master_connections, listener, locals>>

\* The peer is gone, the SSL handshake fails, there is no USER entry, the
\* profile is Disabled or allows no SSL, a buffer cannot be had.
Refuse(p) ==
    /\ pc[p] = "admit_user"
    /\ Goto(p, "close")
    /\ UNCHANGED <<sem, client, table, connections, master_connections,
                   listener, locals>>

\* Mutant (UserLimit): the session itself is not counted.
AdmitUserLoose(p) ==
    /\ pc[p] = "admit_user"
    /\ me(p).user # NULL
    /\ me(p).profile \notin Disabled
    /\ \/ me(p).ip4addr \in Unlimit
       \/ user[me(p).user].connections - 1 <= MaxUserConcurrent[me(p).profile]
    /\ Goto(p, "admit_profile")
    /\ UNCHANGED <<sem, client, table, connections, master_connections,
                   listener, locals>>

\* MaxUserConcurrent, read without the semaphore.
AdmitUser(p) ==
    /\ pc[p] = "admit_user"
    /\ me(p).user # NULL
    /\ me(p).profile \notin Disabled
    /\ \/ me(p).ip4addr \in Unlimit
       \/ user[me(p).user].connections <= MaxUserConcurrent[me(p).profile]
    /\ Goto(p, "admit_profile")
    /\ UNCHANGED <<sem, client, table, connections, master_connections,
                   listener, locals>>

\* MaxUsers, read without the semaphore.
AdmitProfile(p) ==
    /\ pc[p] = "admit_profile"
    /\ Goto(p, IF numusers[me(p).profile] >= MaxUsers[me(p).profile]
               THEN "close" ELSE "loop")
    /\ UNCHANGED <<sem, client, table, connections, master_connections,
                   listener, locals>>

\* Mutant (MasterConnections): the loop ends without close_child.
QuitUnclosed(p) ==
    /\ pc[p] = "loop"
    /\ Goto(p, "exit")
    /\ UNCHANGED <<sem, client, table, connections, master_connections,
                   listener, locals>>

\* Mutant (SessionEnds): no timeout for those who may see the statistics.
QuitTimed(p) ==
    /\ pc[p] = "loop"
    /\ me(p).ip4addr \notin Stats
    /\ Goto(p, "close")
    /\ UNCHANGED <<sem, client, table, connections, master_connections,
                   listener, locals>>

\* The command loop ends: QUIT, end of file, timeout, error, spent quota.
Quit(p) ==
    /\ pc[p] = "loop"
    /\ Goto(p, "close")
    /\ UNCHANGED <<sem, client, table, connections, master_connections,
                   listener, locals>>

-----------------------------------------------------------------------------
(* AUTHINFO: cmdauthinfo.                                                  *)

\* The auth module accepts the client; a refusal changes nothing.
Authenticate(p) ==
    /\ pc[p] = "loop"
    /\ ~me(p).authenticated
    /\ Goto(p, "auth_lock")
    /\ UNCHANGED <<sem, client, table, connections, master_connections,
                   listener, locals>>

\* The profile for user name k when the module answers a: at most one.
NewProfile(k, a, ip) ==
    {IpLookup(f, ip) : f \in
        IF a = NoProfile THEN {AuthProfile[k]}
        ELSE IF UserProfile(k) # {} THEN UserProfile(k)
        ELSE {a} \ {UnknownProfile}}

Switches(p, f) == f # me(p).profile
ManyConnections(f) == connections[f] > MaxProfConnections[f]
ManyUsers(f)       == numusers[f] > MaxUsers[f]

Acceptable(p, f) ==
    /\ f \notin Disabled
    /\ Switches(p, f) => ~ManyConnections(f) /\ ~ManyUsers(f)

\* Mutant (LockDiscipline): an early return keeps the semaphore.
AuthReturnLocked(p) ==
    /\ Goto(p, "loop")
    /\ UNCHANGED <<sem, client, table, connections, master_connections,
                   listener, locals>>

\* The early returns of cmdauthinfo: authenticated-- takes back what the section
\* began with, and the semaphore is given back.
AuthReturn(p) ==
    /\ sem' = NoOwner
    /\ Goto(p, "loop")
    /\ UNCHANGED <<client, table, connections, master_connections, listener,
                   locals>>

\* The profile f a module's answer leads to.
AuthWants(p, f) ==
    \E k \in AuthUsers : \E a \in ModuleProfile[k] :
        f \in NewProfile(k, a, me(p).ip4addr)

\* MSG_AUTH_ERR: nobody knows the profile the module names.
AuthUnknown(p) ==
    /\ pc[p] = "auth_cs"
    /\ \E k \in AuthUsers : \E a \in ModuleProfile[k] :
          NewProfile(k, a, me(p).ip4addr) = {}
    /\ AuthReturn(p)

AuthDisabled(p) ==
    /\ pc[p] = "auth_cs"
    /\ \E f \in Disabled : AuthWants(p, f)
    /\ AuthReturn(p)

\* MSG_AUTH_TOOMANYCON
AuthTooManyConnections(p) ==
    /\ pc[p] = "auth_cs"
    /\ \E f \in Profiles \ Disabled :
          AuthWants(p, f) /\ Switches(p, f) /\ ManyConnections(f)
    /\ AuthReturn(p)

\* MSG_AUTH_TOOMANYUSR
AuthTooManyUsers(p) ==
    /\ pc[p] = "auth_cs"
    /\ \E f \in Profiles \ Disabled :
          /\ AuthWants(p, f) /\ Switches(p, f)
          /\ ~ManyConnections(f) /\ ManyUsers(f)
    /\ AuthReturn(p)

AuthReject(p) ==
    \/ AuthUnknown(p) \/ AuthDisabled(p)
    \/ AuthTooManyConnections(p) \/ AuthTooManyUsers(p)

\* find_user and what follows from it: the user has too many connections,
\* the profile asks the account sharing service first, or the client moves.
AuthFind(p) ==
    /\ pc[p] = "auth_cs"
    /\ \E k \in AuthUsers : \E a \in ModuleProfile[k] :
       \E f \in NewProfile(k, a, me(p).ip4addr) :
       \E u \in Users \cup {NULL} :
          /\ Acceptable(p, f)
          /\ find_user(k, f, u)
          /\ newuser' = [newuser EXCEPT ![p] = u]
          /\ newprf' = [newprf EXCEPT ![p] = f]
          /\ LET over == /\ u \notin {me(p).user, NULL}
                         /\ user'[u].connections > MaxUserConcurrent[f]
             IN \/ over /\ Goto(p, "undo_cs") /\ UNCHANGED sem
                \/ /\ ~over
                   /\ f \in AccountSharing
                   /\ Goto(p, "as_check")
                   /\ sem' = NoOwner
                \/ /\ ~over
                   /\ f \notin AccountSharing
                   /\ Goto(p, "switch_cs")
                   /\ UNCHANGED sem
    /\ client' = [client EXCEPT ![slot[p]].authenticated = TRUE]
    /\ UNCHANGED <<connections, master_connections, listener, slot, tmp>>

\* check_http_accountsharing, with the semaphore released.
AccountSharingCheck(p) ==
    /\ pc[p] = "as_check"
    /\ \/ Goto(p, "as_lock")
       \/ Goto(p, "undo_lock")
    /\ UNCHANGED <<sem, client, table, connections, master_connections,
                   listener, locals>>

\* Mutant (UserConnections): a refusal after find_user keeps the connection.
AuthUndoKept(p) ==
    /\ pc[p] = "undo_cs"
    /\ client' = [client EXCEPT ![slot[p]].authenticated = FALSE]
    /\ sem' = NoOwner
    /\ Goto(p, "loop")
    /\ newuser' = [newuser EXCEPT ![p] = NULL]
    /\ newprf' = [newprf EXCEPT ![p] = NoProfile]
    /\ UNCHANGED <<table, connections, master_connections, listener, slot, tmp>>

\* A refusal after find_user.  Without a USER entry newuser->id is a null
\* dereference inside the section: segv_handler enters close_child.
AuthUndo(p) ==
    /\ pc[p] = "undo_cs"
    /\ client' = [client EXCEPT ![slot[p]].authenticated = FALSE]
    /\ \/ /\ newuser[p] # NULL
          /\ drop_user(newuser[p], newprf[p])
          /\ sem' = NoOwner
          /\ Goto(p, "loop")
       \/ /\ newuser[p] = NULL
          /\ Goto(p, "close")
          /\ UNCHANGED <<sem, table>>
    /\ newuser' = [newuser EXCEPT ![p] = NULL]
    /\ newprf' = [newprf EXCEPT ![p] = NoProfile]
    /\ UNCHANGED <<connections, master_connections, listener, slot, tmp>>

\* Mutant (ProfileConnections): the last connection is never taken off.
DropConnectionSkip(f) ==
    [connections EXCEPT ![f] = IF @ <= 1 THEN @ ELSE @ - 1]

DropConnection(f) ==
    [connections EXCEPT ![f] = IF @ = 0 THEN 0 ELSE @ - 1]

\* Mutant (ImplementsRoster): the profile is assigned before it is compared.
AuthSwitchSwapped(p) ==
    /\ pc[p] = "switch_cs"
    /\ drop_user(me(p).user, me(p).profile)
    /\ client' = [client EXCEPT ![slot[p]].profile = newprf[p],
                                ![slot[p]].user = newuser[p]]
    /\ \/ newuser[p] # NULL /\ sem' = NoOwner /\ Goto(p, "loop")
       \/ newuser[p] = NULL /\ Goto(p, "close") /\ UNCHANGED sem
    /\ newuser' = [newuser EXCEPT ![p] = NULL]
    /\ newprf' = [newprf EXCEPT ![p] = NoProfile]
    /\ UNCHANGED <<connections, master_connections, listener, slot, tmp>>

\* The client moves to its new profile and user.  Without a USER entry the
\* assignment to client->user->bytesleft is a null dereference inside the
\* section.
AuthSwitch(p) ==
    /\ pc[p] = "switch_cs"
    /\ connections' =
          IF newprf[p] = me(p).profile THEN connections
          ELSE [DropConnection(me(p).profile) EXCEPT ![newprf[p]] = Inc(@)]
    /\ drop_user(me(p).user, me(p).profile)
    /\ client' = [client EXCEPT ![slot[p]].profile = newprf[p],
                                ![slot[p]].user = newuser[p]]
    /\ \/ newuser[p] # NULL /\ sem' = NoOwner /\ Goto(p, "loop")
       \/ newuser[p] = NULL /\ Goto(p, "close") /\ UNCHANGED sem
    /\ newuser' = [newuser EXCEPT ![p] = NULL]
    /\ newprf' = [newprf EXCEPT ![p] = NoProfile]
    /\ UNCHANGED <<master_connections, listener, slot, tmp>>

-----------------------------------------------------------------------------
(* STATISTICS: cmdstatistics.                                              *)

Statistics(p) ==
    /\ pc[p] = "loop"
    /\ me(p).ip4addr \in Stats
    /\ Goto(p, "stat_lock")
    /\ UNCHANGED <<sem, client, table, connections, master_connections,
                   listener, locals>>

\* The tables are written to the client with the semaphore held, for as long
\* as the client takes to read them.
StatisticsEnds(p) ==
    /\ pc[p] = "stat_cs"
    /\ sem' = NoOwner
    /\ Goto(p, "loop")
    /\ UNCHANGED <<client, table, connections, master_connections, listener,
                   locals>>

-----------------------------------------------------------------------------
(* The end of a child: close_child and the signal handlers.                *)

close_child(p) ==
    /\ pc[p] = "close_cs"
    /\ me(p).profile # NoProfile
    /\ connections' = DropConnection(me(p).profile)
    /\ \/ me(p).user # NULL /\ drop_user(me(p).user, me(p).profile)
       \/ me(p).user = NULL /\ UNCHANGED table
    /\ client' = [client EXCEPT ![slot[p]] = FreeClient]
    /\ master_connections' = master_connections - 1
    /\ sem' = NoOwner
    /\ Goto(p, "exit")
    /\ UNCHANGED <<listener, locals>>

\* A handler enters close_child from the start, whatever it interrupted, and
\* does not return.
Signal(p) ==
    /\ pc[p] \in SignalPoints
    /\ Goto(p, "close")
    /\ UNCHANGED <<sem, client, table, connections, master_connections,
                   listener, locals>>

\* close_child reads client->profile, which is NULL until run_child sets it and
\* once the slot is freed: the second fault kills the process.
Crash(p) ==
    /\ pc[p] \in {"close", "close_cs"}
    /\ me(p).profile = NoProfile
    /\ Exit(p)
    /\ UNCHANGED <<client, table, connections, master_connections, listener>>

ExitChild(p) ==
    /\ pc[p] = "exit"
    /\ Exit(p)
    /\ UNCHANGED <<client, table, connections, master_connections, listener>>

-----------------------------------------------------------------------------
Init ==
    /\ sem = NoOwner
    /\ client = [s \in Slots |-> FreeClient]
    /\ user = [u \in Users |-> EmptyUser]
    /\ connections = [f \in Profiles |-> 0]
    /\ numusers = [f \in Profiles |-> 0]
    /\ master_connections = 0
    /\ master_numusers = 0
    /\ listener = Idle
    /\ pc = [p \in Procs |-> "none"]
    /\ slot = [p \in Procs |-> NULL]
    /\ tmp = [p \in Procs |-> 0]
    /\ newuser = [p \in Procs |-> NULL]
    /\ newprf = [p \in Procs |-> NoProfile]

Listen == \/ \E ip \in Ips : access_check(ip) \/ access_refused(ip)
          \/ find_slot
          \/ \E p \in Procs : Fork(p)
          \/ ForkFails

\* The steps a child takes without waiting for the semaphore or the client.
Advance(p) ==
    \/ ReadCount(p) \/ InitClient(p) \/ AffinityFails(p) \/ Register(p)
    \/ Refuse(p) \/ AdmitUser(p) \/ AdmitProfile(p)
    \/ AuthReject(p) \/ AuthFind(p) \/ AccountSharingCheck(p)
    \/ AuthUndo(p) \/ AuthSwitch(p)
    \/ close_child(p) \/ Crash(p) \/ ExitChild(p)

Child(p) == Advance(p) \/ semlock_lock(p) \/ Quit(p) \/ Authenticate(p)
                \/ Statistics(p) \/ StatisticsEnds(p)
                \/ Signal(p)

Next == Listen \/ \E p \in Procs : Child(p)

Spec == Init /\ [][Next]_vars

\* A child runs; the kernel hands a free semaphore to every waiter in turn
\* (semop queues them); the session and read timeouts end the command loop
\* however often the client authenticates in between.  Nothing bounds the time
\* a client takes to read what STATISTICS writes.
Fairness ==
    /\ WF_vars(find_slot \/ ForkFails \/ \E p \in Procs : Fork(p))
    /\ \A p \in Procs : /\ WF_vars(Advance(p))
                        /\ SF_vars(semlock_lock(p))
                        /\ SF_vars(Quit(p))

FairSpec == Spec /\ Fairness
-----------------------------------------------------------------------------
(* Properties.                                                             *)

Used == {u \in Users : user[u].key # NoKey}
Live == {p \in Procs : pc[p] # "none"}

\* The variables keep their C types; "sem" and the locals name real owners,
\* entries and profiles (MASTER, CLIENT, USER and PROFILE in nntpd.h).
TypeOK ==
    /\ sem \in Procs \cup {NoOwner}
    /\ client \in [Slots -> [inuse : BOOLEAN, ip4addr : Ips \cup {NoIp},
                             profile : Profiles \cup {NoProfile},
                             user : Users \cup {NULL},
                             authenticated : BOOLEAN]]
    /\ user \in [Users -> [key : Keys \cup {NoKey}, connections : UInt]]
    /\ connections \in [Profiles -> UInt]
    /\ numusers \in [Profiles -> UInt]
    /\ master_connections \in Int
    /\ master_numusers \in Int
    /\ listener \in [at : {"select", "reserve", "fork"},
                     ip : Ips \cup {NoIp}, slot : Slots \cup {NULL}]
    /\ pc \in [Procs -> Points]
    /\ slot \in [Procs -> Slots \cup {NULL}]
    /\ tmp \in [Procs -> Int]
    /\ newuser \in [Procs -> Users \cup {NULL}]
    /\ newprf \in [Procs -> Profiles \cup {NoProfile}]

\* The semaphore excludes: whoever is inside a critical section owns it, however
\* the processes are interrupted.
MutualExclusion == \A p \in Procs : pc[p] \in Holding => sem = p

\* The semaphore is held exactly while its owner is inside a critical section:
\* no early return of cmdauthinfo or run_child keeps it, none gives back one
\* it no longer has.
LockDiscipline ==
    \A p \in Procs : sem = p <=> pc[p] \in Holding

\* A slot belongs to one child at most: find_slot hands out no slot of a live
\* session, or of a fork still to come, and close_child frees no other's.
SlotOwnership ==
    /\ \A p \in Live \ {q \in Procs : pc[q] = "exit"} :
          slot[p] \in Slots /\ client[slot[p]].inuse
    /\ \A p, q \in Live \ {r \in Procs : pc[r] = "exit"} :
          slot[p] = slot[q] => p = q
    /\ listener.at = "fork" =>
          /\ client[listener.slot].inuse
          /\ \A p \in Live : slot[p] = listener.slot => pc[p] = "exit"

\* USER.connections is the "number of client structs refering to us"
\* (nntpd.h), and one more for every AUTHINFO that has passed find_user and
\* neither moved its client nor been undone.
UserRefs(u)    == {s \in Slots : client[s].user = u}
UserPending(u) == {p \in Procs : newuser[p] = u}
UserConnections ==
    \A u \in Users :
        user[u].connections =
            Cardinality(UserRefs(u)) + Cardinality(UserPending(u))

\* The USER table holds one entry for each key somebody is connected under,
\* and nothing else; master->numusers counts the entries.
UserTable ==
    /\ \A u \in Users : user[u].key = NoKey <=> user[u].connections = 0
    /\ \A u, v \in Used : user[u].key = user[v].key => u = v
    /\ master_numusers = Cardinality(Used)

\* PROFILE.connections is the number of registered sessions of the profile,
\* through every change of profile.
InProfile(f) == {p \in Procs : /\ pc[p] \in Registered
                               /\ client[slot[p]].profile = f}
ProfileConnections ==
    \A f \in Profiles : connections[f] = Cardinality(InProfile(f))

\* master->connections is the number of "total connections" (nntpd.h).
Counted == {p \in Procs : pc[p] \in Registered \cup {"reg_lock", "reg_cs"}}
MasterConnections == master_connections = Cardinality(Counted)

\* PROFILE.numusers is the "current user counter" (nntpd.h): the users with a
\* session, or a pending AUTHINFO, in the profile.
UsersOf(f) ==
    {u \in Users : \/ \E s \in UserRefs(u) : client[s].profile = f
                   \/ \E p \in UserPending(u) : newprf[p] = f}
ProfileUsers ==
    \A f \in Profiles : numusers[f] = Cardinality(UsersOf(f))

\* No address has more sessions than the MaxHostConcurrent of its ACL allows,
\* leaked slots included.
HostLimit ==
    \A ip \in Ips \ Unlimit :
        HostMax(ip) > 0 => Cardinality(HostSessions(ip)) <= HostMax(ip)

\* The sessions a user has been admitted or authenticated with never outnumber
\* the MaxUserConcurrent of the last of them to come, although both checks
\* count sessions that are still to be refused and one reads the count without
\* the semaphore.  Sessions an unlimit ACL let in are not limited.
Admitted(u) ==
    {p \in Procs : /\ pc[p] \in Serving
                   /\ me(p).user = u
                   /\ \/ me(p).ip4addr \notin Unlimit
                      \/ me(p).authenticated /\ newuser[p] = NULL}
UserLimit ==
    \A u \in Users :
        Admitted(u) # {} =>
            \E p \in Admitted(u) :
                Cardinality(Admitted(u)) <= MaxUserConcurrent[me(p).profile]

\* A USER entry disappears, or changes hands, only when its last connection
\* leaves: no step takes the entry away from a session that refers to it.
EntryStable ==
    [][\A u \in Users :
         Cardinality(UserRefs(u)) + Cardinality(UserPending(u)) > 1
             => user'[u].key = user[u].key]_vars

\* Somebody holds the semaphore and need not give it back: a client that does
\* not read its STATISTICS, or a handler that entered close_child from inside
\* a critical section.
Blocked == \E p \in Procs : sem = p /\ pc[p] \in {"stat_cs", "close"}

\* Every forked child frees its slot and ends, unless the semaphore is blocked
\* for ever in one of these two ways; there is no third.
SessionEnds ==
    (\A p \in Procs : pc[p] = "start" ~> pc[p] = "none") \/ <>[]Blocked

\* Every connection the listener has accepted is given a child or refused, with
\* the same exception.
ListenerReturns ==
    (listener.at = "reserve" ~> listener.at = "select") \/ <>[]Blocked

\* Whoever takes the semaphore gives up control again (semaphore.c).
LockReleased == sem # NoOwner ~> sem = NoOwner

\* PROFILE.numusers is a "current user counter" (nntpd.h): with nobody connected
\* there are no users.
UsersDrained == Live = {} => \A f \in Profiles : numusers[f] = 0
=============================================================================
