---------------------------- MODULE Limits_proofs ----------------------------
(***************************************************************************)
(* Proofs about the USER table, the global counters, the semaphore and the *)
(* limit on the sessions of a user, on top of SessionInv and UserInv:      *)
(*                                                                         *)
(*    TableInv   one entry for each key, counted by master->numusers       *)
(*    HeldInv    and every slot with a user is a child's                   *)
(*    PlacedInv  and AUTHINFO always has an entry to go to                 *)
(*    LimitInv   and the sessions of a user keep the order in which they   *)
(*               passed the check of MaxUserConcurrent                     *)
(*                                                                         *)
(* SafeSignals is assumed throughout.  A theorem says what else it needs:  *)
(* NoLostCount, that no increment of master->connections is lost; Roomy,   *)
(* that the table has room for everybody; Settled, that every name is used *)
(* with one profile; HostsApart, that no host is named like a user.        *)
(***************************************************************************)
EXTENDS Sessions_proofs

-----------------------------------------------------------------------------
(* The USER table.                                                         *)

\* What find_user does: the entry it returns, if any, was empty or k's.
LEMMA FoundEntry ==
    ASSUME TypeOK, NEW k \in Keys, NEW f \in Profiles,
           NEW u \in Users \cup {NULL}, find_user(k, f, u)
    PROVE  /\ u \in Users =>
                /\ user'[u].key = k /\ user[u].key \in {k, NoKey}
                /\ \A v \in Users : v # u => user'[v] = user[v]
                /\ user[u].key = k =>
                     UNCHANGED <<numusers, master_numusers>>
                /\ user[u].key = NoKey =>
                     /\ Known(k) = {}
                     /\ numusers' = [numusers EXCEPT ![f] = Inc(@)]
                     /\ master_numusers' = master_numusers + 1
           /\ u = NULL =>
                Known(k) = {} /\ Known(NoKey) = {} /\ UNCHANGED table
<1> USE DEF TypeOK, table
<1>1. CASE /\ u \in Least(Known(k))
           /\ user' = [user EXCEPT ![u].connections = Inc(@)]
           /\ UNCHANGED <<numusers, master_numusers>>
  <2>1. u \in Users /\ u # NULL /\ user[u].key = k /\ k # NoKey
    BY <1>1, ValueAssumption DEF Least, Known, Users, NULL
  <2> QED BY <1>1, <2>1
<1>2. CASE /\ Known(k) = {}
           /\ u \in Least(Known(NoKey))
           /\ user' = [user EXCEPT ![u] = [key |-> k, connections |-> 1]]
           /\ numusers' = [numusers EXCEPT ![f] = Inc(@)]
           /\ master_numusers' = master_numusers + 1
  <2>1. u \in Users /\ u # NULL /\ user[u].key = NoKey /\ k # NoKey
    BY <1>2, ValueAssumption DEF Least, Known, Users, NULL
  <2> QED BY <1>2, <2>1
<1>3. CASE Known(k) = {} /\ Known(NoKey) = {} /\ u = NULL /\ UNCHANGED table
  BY <1>3 DEF Users, NULL
<1> QED BY <1>1, <1>2, <1>3 DEF find_user

\* What drop_user does: the last connection clears the entry.
LEMMA DroppedEntry ==
    ASSUME TypeOK, NEW u \in Users, NEW f \in Profiles, drop_user(u, f),
           user[u].connections > 0
    PROVE  /\ \A v \in Users : v # u => user'[v] = user[v]
           /\ user[u].connections = 1 =>
                /\ user'[u].key = NoKey
                /\ numusers' = [numusers EXCEPT ![f] = Dec(@)]
                /\ master_numusers' = master_numusers - 1
           /\ user[u].connections # 1 =>
                /\ user'[u].key = user[u].key
                /\ UNCHANGED <<numusers, master_numusers>>
<1>1. user[u].connections \in UInt /\ user[u].connections \in Nat
  BY SizeAssumption DEF TypeOK, UInt
<1>2. Dec(user[u].connections) = user[u].connections - 1
  BY <1>1, UIntFacts
<1> QED BY <1>1, <1>2 DEF drop_user, TypeOK, EmptyUser

\* The three things a step of a child does to the tables.
Finds(k, f, u) ==
    /\ k \in Keys /\ f \in Profiles /\ u \in Users \cup {NULL}
    /\ find_user(k, f, u)
    /\ u \in Users => user[u].connections < UIntMax

Drops(u, f) ==
    /\ u \in Users /\ f \in Profiles
    /\ drop_user(u, f)
    /\ user[u].connections > 0

LEMMA TableSteps ==
    ASSUME UserInv, NEW p \in Procs, Child(p)
    PROVE  \/ UNCHANGED table
           \/ \E k, f, u : Finds(k, f, u)
           \/ \E u, f : Drops(u, f)
<1> USE DEF Points, Registered, Serving, Holding, Waiting, Profiled, Pending
<1>1. SessionInv
  BY DEF UserInv
<1>2. CASE Register(p)
  <2>1. /\ pc[p] \in Active /\ me(p).user = NULL
        /\ me(p).profile \in Profiles /\ HostKey[me(p).ip4addr] \in Keys
    BY <1>1, <1>2, ChildFacts, ConfigAssumption DEF Register, Active
  <2>2. PICK u \in Users \cup {NULL} :
          find_user(HostKey[me(p).ip4addr], me(p).profile, u)
    BY <1>2 DEF Register
  <2>3. u \in Users => user[u].connections < UIntMax
    BY <2>1, UserBounds DEF Users, NULL
  <2> QED BY <2>1, <2>2, <2>3 DEF Finds
<1>3. CASE AuthFind(p)
  <2>1. pc[p] \in Active /\ newuser[p] = NULL
    BY <1>1, <1>3, ChildFacts DEF AuthFind, Active
  <2>2. PICK k, f, u : /\ k \in Keys /\ f \in Profiles
                       /\ u \in Users \cup {NULL}
                       /\ find_user(k, f, u)
    BY <1>1, <1>3, AuthFindCall, SessionStructure
  <2>3. u \in Users => user[u].connections < UIntMax
    BY <2>1, UserBounds DEF Users, NULL
  <2> QED BY <2>2, <2>3 DEF Finds
<1>4. CASE AuthUndo(p)
  <2>1. pc[p] \in Active /\ newprf[p] \in Profiles
        /\ newuser[p] \in Users \cup {NULL}
    BY <1>1, <1>4, ChildFacts DEF AuthUndo, Active
  <2>2. newuser[p] \in Users => user[newuser[p]].connections > 0
    BY <2>1, UserBounds
  <2> QED BY <1>4, <2>1, <2>2 DEF AuthUndo, Drops, table
<1>5. CASE AuthSwitch(p)
  <2>1. pc[p] \in Active /\ me(p).user \in Users /\ me(p).profile \in Profiles
    BY <1>1, <1>5, ChildFacts DEF AuthSwitch, Active
  <2>2. user[me(p).user].connections > 0
    BY <2>1, UserBounds
  <2> QED BY <1>5, <2>1, <2>2 DEF AuthSwitch, Drops
<1>6. CASE close_child(p)
  <2>1. pc[p] \in Active /\ me(p).user \in Users \cup {NULL}
        /\ me(p).profile \in Profiles
    BY <1>1, <1>6, ChildFacts DEF close_child, Active, ClientRecord
  <2>2. me(p).user \in Users => user[me(p).user].connections > 0
    BY <2>1, UserBounds
  <2> QED BY <1>6, <2>1, <2>2 DEF close_child, Drops
<1>7. CASE ReadCount(p) \/ InitClient(p) \/ AffinityFails(p) \/ Refuse(p)
           \/ AdmitUser(p) \/ AdmitProfile(p) \/ AuthReject(p)
           \/ AccountSharingCheck(p) \/ Crash(p) \/ ExitChild(p)
           \/ semlock_lock(p) \/ Quit(p) \/ Authenticate(p) \/ Statistics(p)
           \/ StatisticsEnds(p) \/ Signal(p)
  BY <1>7, AuthRejectReturns DEF ReadCount, InitClient, AffinityFails, Refuse,
     AdmitUser, AdmitProfile, AuthReturn, AccountSharingCheck, Crash,
     ExitChild, semlock_lock, Quit, Authenticate, Statistics, StatisticsEnds,
     Signal, table
<1> QED BY <1>2, <1>3, <1>4, <1>5, <1>6, <1>7 DEF Child, Advance

LEMMA ListenKeepsTable == Listen => UNCHANGED <<table, newuser, newprf>>
BY DEF Listen, access_check, access_refused, find_slot, Fork, ForkFails, vars,
       locals

LEMMA UsersFinite ==
    /\ IsFiniteSet(Users) /\ Cardinality(Users) = MAX_USERS
    /\ \A S \in SUBSET Users : /\ IsFiniteSet(S) /\ Cardinality(S) \in Nat
                               /\ Cardinality(S) <= MAX_USERS
<1>1. 0 \in Int /\ MAX_USERS - 1 \in Int /\ MAX_USERS \in Nat
  BY SizeAssumption
<1>2. /\ IsFiniteSet(0 .. MAX_USERS - 1)
      /\ Cardinality(0 .. MAX_USERS - 1) =
            IF 0 > MAX_USERS - 1 THEN 0 ELSE MAX_USERS - 1 - 0 + 1
  BY <1>1, FS_Interval
<1>3. IsFiniteSet(Users) /\ Cardinality(Users) = MAX_USERS
  BY <1>1, <1>2 DEF Users
<1> QED BY <1>3, FS_Subset, FS_CardinalityType

KeysUnique == \A u, v \in Used : user[u].key = user[v].key => u = v

\* find_user and drop_user keep one entry per key, and count the entries.
LEMMA FindsTable ==
    ASSUME UserInv, UserTable, NEW k, NEW f, NEW u, Finds(k, f, u)
    PROVE  KeysUnique' /\ master_numusers' = Cardinality(Used')
<1>1. /\ TypeOK /\ k \in Keys /\ f \in Profiles /\ u \in Users \cup {NULL}
      /\ find_user(k, f, u) /\ k # NoKey
  BY ValueAssumption DEF UserInv, SessionInv, Finds
<1>2. KeysUnique /\ master_numusers = Cardinality(Used)
  BY DEF UserTable, KeysUnique
<1>3. Used \subseteq Users
  BY DEF Used
<1>4. CASE u = NULL
  <2>1. UNCHANGED table
    BY <1>1, <1>4, FoundEntry
  <2>2. Used' = Used
    BY <2>1 DEF Used, table
  <2> QED BY <1>2, <2>1, <2>2 DEF KeysUnique, table
<1>5. CASE u \in Users
  <2>1. /\ user'[u].key = k /\ user[u].key \in {k, NoKey}
        /\ \A v \in Users : v # u => user'[v] = user[v]
        /\ user[u].key = k => UNCHANGED <<numusers, master_numusers>>
        /\ user[u].key = NoKey =>
             Known(k) = {} /\ master_numusers' = master_numusers + 1
    BY <1>1, <1>5, FoundEntry
  <2>2. \A v \in Used : v # u => user[v].key # k
    BY <1>1, <1>2, <1>3, <1>5, <2>1 DEF KeysUnique, Used, Known
  <2>3. Used' = Used \cup {u}
    BY <1>1, <1>5, <2>1 DEF Used
  <2>4. KeysUnique'
    BY <1>2, <1>3, <2>1, <2>2, <2>3 DEF KeysUnique
  <2>5. IsFiniteSet(Used) /\ Cardinality(Used) \in Nat
    BY <1>3, UsersFinite
  <2>6. Cardinality(Used') = IF u \in Used THEN Cardinality(Used)
                             ELSE Cardinality(Used) + 1
    BY <2>3, <2>5, FS_AddElement
  <2>7. u \in Used <=> user[u].key # NoKey
    BY <1>5 DEF Used
  <2> QED BY <1>1, <1>2, <2>1, <2>4, <2>6, <2>7
<1> QED BY <1>1, <1>4, <1>5

LEMMA DropsTable ==
    ASSUME UserInv, UserTable, NEW u, NEW f, Drops(u, f)
    PROVE  KeysUnique' /\ master_numusers' = Cardinality(Used')
<1>1. /\ TypeOK /\ u \in Users /\ f \in Profiles /\ drop_user(u, f)
      /\ user[u].connections > 0 /\ user[u].key # NoKey
  BY SizeAssumption
  DEF UserInv, SessionInv, Drops, EntriesUsed, TypeOK, UInt
<1>2. KeysUnique /\ master_numusers = Cardinality(Used)
  BY DEF UserTable, KeysUnique
<1>3. Used \subseteq Users /\ u \in Used
  BY <1>1 DEF Used
<1>4. /\ \A v \in Users : v # u => user'[v] = user[v]
      /\ user[u].connections = 1 =>
           user'[u].key = NoKey /\ master_numusers' = master_numusers - 1
      /\ user[u].connections # 1 =>
           user'[u].key = user[u].key /\ UNCHANGED master_numusers
  BY <1>1, DroppedEntry
<1>5. IsFiniteSet(Used) /\ Cardinality(Used) \in Nat
  BY <1>3, UsersFinite
<1>6. CASE user[u].connections = 1
  <2>1. Used' = Used \ {u}
    BY <1>1, <1>4, <1>6 DEF Used
  <2>2. Cardinality(Used') = Cardinality(Used) - 1
    BY <1>3, <1>5, <2>1, FS_RemoveElement
  <2>3. KeysUnique'
    BY <1>2, <1>3, <1>4, <2>1 DEF KeysUnique
  <2> QED BY <1>2, <1>4, <1>6, <2>2, <2>3
<1>7. CASE user[u].connections # 1
  <2>1. Used' = Used /\ \A v \in Users : user'[v].key = user[v].key
    BY <1>1, <1>4, <1>7 DEF Used
  <2>2. KeysUnique'
    BY <1>2, <1>3, <2>1 DEF KeysUnique
  <2> QED BY <1>2, <1>4, <1>7, <2>1, <2>2
<1> QED BY <1>6, <1>7

LEMMA NextTable ==
    ASSUME SafeSignals, UserInv, UserTable, [Next]_vars
    PROVE  UserTable'
<1>1. EntriesUsed'
  BY NextUsers
<1>2. CASE UNCHANGED table
  <2>1. Used' = Used
    BY <1>2 DEF Used, table
  <2> QED BY <1>2, <2>1 DEF UserTable, table
<1>3. ASSUME NEW p \in Procs, Child(p), ~ UNCHANGED table
      PROVE  KeysUnique' /\ master_numusers' = Cardinality(Used')
  BY <1>3, TableSteps, FindsTable, DropsTable
<1>4. ASSUME KeysUnique', master_numusers' = Cardinality(Used')
      PROVE  UserTable'
  BY <1>1, <1>4 DEF UserTable, KeysUnique, EntriesUsed
<1>5. CASE Listen \/ UNCHANGED vars
  BY <1>2, <1>5, ListenKeepsTable DEF vars
<1> QED BY <1>2, <1>3, <1>4, <1>5 DEF Next

TableInv == UserInv /\ UserTable

LEMMA TableInvariant ==
    ASSUME SafeSignals
    PROVE  Spec => []TableInv
<1>1. Init => UserTable
  <2> SUFFICES ASSUME Init PROVE UserTable
    OBVIOUS
  <2>1. Used = {}
    BY DEF Init, Used, EmptyUser
  <2> QED BY <2>1, FS_EmptySet DEF Init, UserTable, EmptyUser
<1>2. UserInv /\ UserTable /\ [Next]_vars => UserTable'
  BY NextTable
<1> QED BY <1>1, <1>2, UserInvariant, PTL DEF Spec, TableInv

\* The USER table holds one entry per connected key and master->numusers
\* counts the entries, whatever mixture of find_user and drop_user the
\* sessions make (client.c), a full table included.
THEOREM TableKept ==
    ASSUME SafeSignals
    PROVE  Spec => []UserTable
BY TableInvariant, PTL DEF TableInv
-----------------------------------------------------------------------------
(* master->connections.                                                    *)

NoLostCount == Faults \cap {"race", "affinity"} = {}

LEMMA CountedChange ==
    ASSUME SessionInv, NEW p \in Procs, Child(p)
    PROVE  /\ Cardinality(Counted) \in Nat
           /\ Cardinality(Counted') = Cardinality(Counted)
                 + In(p, Counted') - In(p, Counted)
           /\ p \in Counted <=> pc[p] \in Profiled
           /\ p \in Counted' <=> pc'[p] \in Profiled
<1>1. \A q : q # p => (q \in Counted <=> q \in Counted')
  BY OwnClient DEF Counted
<1>2. IsFiniteSet(Counted) /\ Cardinality(Counted) \in Nat
  BY ProcSubset DEF Counted
<1> QED BY <1>1, <1>2, CountChange DEF Counted, Profiled

LEMMA NextMaster ==
    ASSUME SafeSignals, NoLostCount, SessionInv, MasterConnections, [Next]_vars
    PROVE  MasterConnections'
<1>1. TypeOK /\ master_connections = Cardinality(Counted)
  BY DEF SessionInv, MasterConnections
<1>2. CASE UNCHANGED <<pc, master_connections>>
  BY <1>1, <1>2 DEF MasterConnections, Counted
<1>3. ASSUME NEW p \in Procs, Fork(p)
      PROVE  MasterConnections'
  <2>1. /\ pc' = [pc EXCEPT ![p] = "start"] /\ pc[p] = "none"
        /\ UNCHANGED master_connections
    BY <1>3 DEF Fork
  <2>2. Counted' = Counted
    BY <1>1, <2>1 DEF Counted, TypeOK, Registered, Serving
  <2> QED BY <1>1, <2>1, <2>2 DEF MasterConnections
<1>4. ASSUME NEW p \in Procs, Child(p)
      PROVE  MasterConnections'
  <2>1. /\ Cardinality(Counted) \in Nat
        /\ Cardinality(Counted') = Cardinality(Counted)
              + In(p, Counted') - In(p, Counted)
        /\ p \in Counted <=> pc[p] \in Profiled
        /\ p \in Counted' <=> pc'[p] \in Profiled
    BY <1>4, CountedChange
  <2>2. ASSUME UNCHANGED master_connections,
               pc'[p] \in Profiled <=> pc[p] \in Profiled
        PROVE  MasterConnections'
    BY <1>1, <2>1, <2>2 DEF In, MasterConnections
  <2>3. ASSUME NEW point, Goto(p, point)
        PROVE  pc'[p] = point
    BY <1>1, <2>3 DEF Goto, TypeOK
  <2> USE DEF Profiled, Registered, Serving
  <2>4. CASE InitClient(p)
    <3>1. /\ pc[p] = "init" /\ pc'[p] = "reg_lock"
          /\ master_connections' = 1 + master_connections
      BY <2>3, <2>4 DEF InitClient, StoreCount, NoLostCount
    <3> QED BY <1>1, <2>1, <3>1 DEF In, MasterConnections
  <2>5. CASE close_child(p)
    <3>1. /\ pc[p] = "close_cs" /\ pc'[p] = "exit"
          /\ master_connections' = master_connections - 1
      BY <2>3, <2>5 DEF close_child
    <3> QED BY <1>1, <2>1, <3>1 DEF In, MasterConnections
  <2>6. CASE AffinityFails(p)
    BY <2>6 DEF AffinityFails, NoLostCount
  <2>7. CASE Crash(p) \/ ExitChild(p)
    <3>1. UNCHANGED master_connections /\ pc'[p] = "none"
      BY <2>3, <2>7 DEF Crash, ExitChild, Exit
    <3>2. pc[p] \in {"close", "close_cs"} => me(p).profile # NoProfile
      BY ChildFacts, RegisteredActive, ValueAssumption
    <3>3. pc[p] = "exit"
      BY <2>7, <3>2 DEF Crash, ExitChild
    <3> QED BY <2>2, <3>1, <3>3
  <2>8. CASE semlock_lock(p)
    <3>1. /\ UNCHANGED master_connections /\ pc'[p] = LockNext[pc[p]]
          /\ pc[p] \in Waiting
      BY <2>3, <2>8 DEF semlock_lock
    <3>2. pc'[p] \in Profiled <=> pc[p] \in Profiled
      BY <3>1 DEF LockNext, Waiting
    <3> QED BY <2>2, <3>1, <3>2
  <2>9. CASE AuthFind(p)
    <3>1. PICK point \in {"undo_cs", "as_check", "switch_cs"} : Goto(p, point)
      BY <2>9, AuthFindCall, SessionStructure
    <3>2. pc[p] = "auth_cs" /\ UNCHANGED master_connections
      BY <2>9 DEF AuthFind
    <3> QED BY <2>2, <2>3, <3>1, <3>2
  <2>10. CASE ReadCount(p)
    BY <2>2, <2>3, <2>10 DEF ReadCount
  <2>11. CASE Register(p) \/ Refuse(p) \/ AdmitUser(p) \/ AdmitProfile(p)
              \/ AuthReject(p) \/ AccountSharingCheck(p) \/ AuthUndo(p)
              \/ AuthSwitch(p) \/ Quit(p) \/ Authenticate(p) \/ Statistics(p)
              \/ StatisticsEnds(p) \/ Signal(p)
    <3>1. UNCHANGED master_connections
      BY <2>11, AuthRejectReturns DEF Register, Refuse, AdmitUser,
         AdmitProfile, AuthReturn, AccountSharingCheck, AuthUndo, AuthSwitch,
         Quit, Authenticate, Statistics, StatisticsEnds, Signal
    <3>2. pc[p] \in Profiled
      BY <2>11, AuthRejectReturns DEF Register, Refuse, AdmitUser,
         AdmitProfile, AuthReturn, AccountSharingCheck, AuthUndo, AuthSwitch,
         Quit, Authenticate, Statistics, StatisticsEnds, Signal, SafeSignals,
         SafePoints
    <3>3. \E point \in {"admit_user", "close", "admit_profile", "loop",
                        "auth_lock", "as_lock", "undo_lock", "stat_lock"} :
             Goto(p, point)
      BY <2>11, AuthRejectReturns DEF Register, Refuse, AdmitUser,
         AdmitProfile, AuthReturn, AccountSharingCheck, AuthUndo, AuthSwitch,
         Quit, Authenticate, Statistics, StatisticsEnds, Signal
    <3> QED BY <2>2, <2>3, <3>1, <3>2, <3>3
  <2> QED BY <1>4, <2>4, <2>5, <2>6, <2>7, <2>8, <2>9, <2>10, <2>11
          DEF Child, Advance
<1> QED BY <1>2, <1>3, <1>4 DEF Next, Listen, access_check, access_refused,
                                find_slot, ForkFails, vars

\* master->connections counts the children past their first increment and
\* short of close_child, if sched_setaffinity never fails and no increment is
\* lost (the one in run_child is made without the semaphore).
THEOREM MasterCounted ==
    ASSUME SafeSignals, NoLostCount
    PROVE  Spec => []MasterConnections
<1>1. Init => MasterConnections
  <2> SUFFICES ASSUME Init PROVE MasterConnections
    OBVIOUS
  <2>1. Counted = {}
    BY DEF Init, Counted, Registered, Serving
  <2> QED BY <2>1, FS_EmptySet DEF Init, MasterConnections
<1>2. SessionInv /\ MasterConnections /\ [Next]_vars => MasterConnections'
  BY NextMaster
<1> QED BY <1>1, <1>2, SessionInvariant, PTL DEF Spec

-----------------------------------------------------------------------------
(* A table with room for everybody.                                        *)

\* The slots with a user are held by children.
SlotsHeld ==
    \A s \in Slots : client[s].user # NULL =>
        \E p \in Procs : pc[p] \in Active /\ slot[p] = s

LEMMA NextHeld ==
    ASSUME SafeSignals, SessionInv, SlotsHeld, [Next]_vars
    PROVE  SlotsHeld'
<1>1. TypeOK /\ client \in [Slots -> ClientRecord]
  BY DEF SessionInv, TypeOK, ClientRecord
<1>2. CASE UNCHANGED <<client, pc, slot>>
  BY <1>2 DEF SlotsHeld
<1>3. CASE find_slot
  <2>1. \A s \in Slots : client'[s].user = client[s].user
    <3>1. ASSUME NEW s \in Slots, ~client[s].inuse, NEW ip,
                 client' = [client EXCEPT ![s] =
                    [FreeClient EXCEPT !.inuse = TRUE, !.ip4addr = ip]]
          PROVE  \A t \in Slots : client'[t].user = client[t].user
      BY <1>1, <3>1 DEF SessionInv, ClientFacts, FreeClient
    <3> QED BY <1>3, <3>1 DEF find_slot, Least, FreeSlots
  <2> QED BY <1>3, <2>1 DEF SlotsHeld, find_slot, locals
<1>4. ASSUME NEW p \in Procs, Fork(p)
      PROVE  SlotsHeld'
  <2>1. /\ pc[p] \notin Active /\ UNCHANGED client
        /\ \A q \in Procs : q # p => pc'[q] = pc[q] /\ slot'[q] = slot[q]
    BY <1>1, <1>4 DEF Fork, TypeOK, Active
  <2> QED BY <2>1 DEF SlotsHeld
<1>5. ASSUME NEW p \in Procs, Child(p)
      PROVE  SlotsHeld'
  <2>1. \A q \in Procs : q # p => pc'[q] = pc[q] /\ slot'[q] = slot[q]
    BY <1>5, OwnClient
  <2>2. \A s \in Slots : \/ s = slot[p] /\ pc[p] \in Active
                         \/ client'[s] = client[s]
    BY <1>5, OwnSlotOnly
  <2>3. ASSUME slot'[p] = slot[p], pc'[p] \in Active
        PROVE  SlotsHeld'
    BY <2>1, <2>2, <2>3 DEF SlotsHeld
  <2>4. ASSUME pc[p] \in Active => client'[slot[p]].user = NULL
        PROVE  SlotsHeld'
    BY <2>1, <2>2, <2>4 DEF SlotsHeld
  <2>5. CASE close_child(p)
    <3>1. pc[p] \in Active
      BY <2>5 DEF close_child, Active, Points, Registered
    <3>2. slot[p] \in Slots /\ client' = [client EXCEPT ![slot[p]] = FreeClient]
      BY <2>5, <3>1, ChildFacts DEF close_child
    <3> QED BY <1>1, <2>4, <3>2 DEF FreeClient
  <2>6. CASE AffinityFails(p)
    <3>1. pc[p] \in Active /\ pc[p] = "init"
      BY <2>6 DEF AffinityFails, Active, Points
    <3>2. slot[p] \in Slots /\ me(p).user = NULL
      BY <3>1, ChildFacts
    <3>3. client'[slot[p]].user = NULL
      BY <1>1, <2>6, <3>2 DEF AffinityFails, me, ClientRecord
    <3> QED BY <2>4, <3>3
  <2>7. CASE Crash(p) \/ ExitChild(p)
    <3>1. pc[p] \in {"close", "close_cs"} => me(p).profile # NoProfile
      BY ChildFacts, RegisteredActive, ValueAssumption
      DEF Registered, Profiled
    <3>2. pc[p] \notin Active
      BY <2>7, <3>1 DEF Crash, ExitChild, Active
    <3> QED BY <2>4, <3>2
  <2>8. CASE /\ Child(p)
             /\ ~(close_child(p) \/ AffinityFails(p) \/ Crash(p)
                    \/ ExitChild(p))
    <3>1. slot'[p] = slot[p]
      BY <2>8, AuthRejectReturns DEF Child, Advance, ReadCount, InitClient,
         Register, Refuse, AdmitUser, AdmitProfile, AuthReturn, AuthFind,
         AccountSharingCheck, AuthUndo, AuthSwitch, semlock_lock, Quit,
         Authenticate, Statistics, StatisticsEnds, Signal, locals
    <3>2. \E point \in Active : Goto(p, point)
      <4> USE DEF Active, Points, Registered, Serving, Holding, Waiting
      <4>1. CASE AuthFind(p)
        BY <4>1, AuthFindCall, SessionStructure
      <4>2. CASE semlock_lock(p)
        BY <4>2 DEF semlock_lock, LockNext
      <4>3. CASE ~(AuthFind(p) \/ semlock_lock(p))
        BY <2>8, <4>3, AuthRejectReturns DEF Child, Advance, ReadCount,
           InitClient, Register, Refuse, AdmitUser, AdmitProfile, AuthReturn,
           AccountSharingCheck, AuthUndo, AuthSwitch, Quit, Authenticate,
           Statistics, StatisticsEnds, Signal
      <4> QED BY <4>1, <4>2, <4>3
    <3>3. pc'[p] \in Active
      BY <1>1, <3>2 DEF Goto, TypeOK
    <3> QED BY <2>3, <3>1, <3>3
  <2> QED BY <1>5, <2>5, <2>6, <2>7, <2>8
<1> QED BY <1>2, <1>3, <1>4, <1>5 DEF Next, Listen, access_check,
                                      access_refused, ForkFails, vars, locals

\* A set that another one covers, by a function, is no larger.
LEMMA InjCount ==
    ASSUME NEW S, NEW T, IsFiniteSet(S), IsFiniteSet(T), NEW f \in [S -> T],
           \A x, y \in S : f[x] = f[y] => x = y
    PROVE  Cardinality(S) <= Cardinality(T)
<1>1. Cardinality(S) \in Nat /\ Cardinality(T) \in Nat
  BY FS_CardinalityType
<1>2. ~ (Cardinality(T) < Cardinality(S))
  BY FS_PigeonHole
<1> QED BY <1>1, <1>2

LEMMA CoverCount ==
    ASSUME NEW S, NEW T, IsFiniteSet(S), IsFiniteSet(T), NEW f,
           \A t \in T : \E x \in S : f[x] = t
    PROVE  Cardinality(T) <= Cardinality(S)
<1> DEFINE g == [t \in T |-> CHOOSE x \in S : f[x] = t]
<1>1. \A t \in T : g[t] \in S /\ f[g[t]] = t
  OBVIOUS
<1>2. g \in [T -> S]
  BY <1>1
<1> HIDE DEF g
<1> QED BY <1>1, <1>2, InjCount

HeldInv == TableInv /\ SlotsHeld

LEMMA HeldInvariant ==
    ASSUME SafeSignals
    PROVE  Spec => []HeldInv
<1>1. Init => SlotsHeld
  BY DEF Init, SlotsHeld, FreeClient
<1>2. TableInv /\ SlotsHeld /\ [Next]_vars => SlotsHeld'
  BY NextHeld DEF TableInv, UserInv
<1> QED BY <1>1, <1>2, TableInvariant, PTL DEF Spec, HeldInv

\* There are entries for the user a child is and the one it turns into, or for
\* every name there is.
Roomy == \/ 2 * Cardinality(Procs) <= MAX_USERS
         \/ IsFiniteSet(Keys) /\ Cardinality(Keys) <= MAX_USERS

\* Then a child that looks for a new key, and has no second entry yet, finds an
\* empty one.
LEMMA RoomLeft ==
    ASSUME Roomy, HeldInv, NEW p \in Procs, newuser[p] = NULL,
           NEW k \in Keys, Known(k) = {}
    PROVE  Known(NoKey) # {}
<1>1. /\ TypeOK /\ EntriesUsed /\ UserConnections /\ KeysUnique /\ SlotsHeld
  BY DEF HeldInv, TableInv, UserInv, SessionInv, UserTable, KeysUnique
<1> SUFFICES ASSUME Known(NoKey) = {}
             PROVE  FALSE
  OBVIOUS
<1>2. Used = Users
  BY DEF Used, Known
<1>3. /\ IsFiniteSet(Users) /\ Cardinality(Users) = MAX_USERS
      /\ MAX_USERS \in Nat
  BY UsersFinite, SizeAssumption
<1>4. CASE IsFiniteSet(Keys) /\ Cardinality(Keys) <= MAX_USERS
  <2> DEFINE K == Keys \ {k}
             f == [u \in Users |-> user[u].key]
  <2>1. \A u \in Users : user[u].key \in K
    BY <1>1, <1>2 DEF TypeOK, Used, Known
  <2>2. f \in [Users -> K] /\ \A u, v \in Users : f[u] = f[v] => u = v
    BY <1>1, <1>2, <2>1 DEF KeysUnique
  <2>3. /\ IsFiniteSet(K) /\ Cardinality(K) = Cardinality(Keys) - 1
        /\ Cardinality(Keys) \in Nat
    BY <1>4, FS_RemoveElement, FS_CardinalityType
  <2> HIDE DEF f, K
  <2>4. Cardinality(Users) <= Cardinality(K)
    BY <1>3, <2>2, <2>3, InjCount
  <2> QED BY <1>3, <1>4, <2>3, <2>4
<1>5. CASE 2 * Cardinality(Procs) <= MAX_USERS
  <2> DEFINE R == {u \in Users : UserRefs(u) # {}}
             Q == {u \in Users : UserPending(u) # {}}
             O == Procs \ {p}
             r == [q \in Procs |-> client[slot[q]].user]
  <2>1. \A u \in Users : u \in R \cup Q
    <3> SUFFICES ASSUME NEW u \in Users, UserRefs(u) = {}, UserPending(u) = {}
                 PROVE  FALSE
      OBVIOUS
    <3>1. user[u].connections = 0
      BY <1>1, FS_EmptySet DEF UserConnections
    <3> QED BY <1>1, <1>2, <3>1 DEF EntriesUsed, Used
  <2>2. \A u \in R : \E q \in Procs : r[q] = u
    BY <1>1 DEF UserRefs, SlotsHeld, Users, NULL
  <2>3. \A u \in Q : \E q \in O : newuser[q] = u
    BY DEF UserPending, Users, NULL
  <2>4. /\ IsFiniteSet(R) /\ IsFiniteSet(Q)
        /\ Cardinality(R) \in Nat /\ Cardinality(Q) \in Nat
    BY UsersFinite
  <2>5. /\ IsFiniteSet(Procs) /\ Cardinality(Procs) \in Nat /\ IsFiniteSet(O)
        /\ Cardinality(O) = Cardinality(Procs) - 1
    BY SizeAssumption, FS_RemoveElement, FS_CardinalityType
  <2>6. Users = R \cup Q
    BY <2>1
  <2> HIDE DEF R, Q, O, r
  <2>7. Cardinality(R) <= Cardinality(Procs)
    BY <2>2, <2>4, <2>5, CoverCount
  <2>8. Cardinality(Q) <= Cardinality(O)
    BY <2>3, <2>4, <2>5, CoverCount
  <2>9. MAX_USERS <= Cardinality(R) + Cardinality(Q)
    <3>1. MAX_USERS = Cardinality(R) + Cardinality(Q) - Cardinality(R \cap Q)
      BY <1>3, <2>4, <2>6, FS_Union
    <3>2. Cardinality(R \cap Q) \in Nat
      BY <2>4, FS_Intersection, FS_CardinalityType
    <3> QED BY <1>3, <2>4, <3>1, <3>2
  <2> QED BY <1>3, <1>5, <2>4, <2>5, <2>7, <2>8, <2>9
<1> QED BY <1>4, <1>5 DEF Roomy

-----------------------------------------------------------------------------
(* The semaphore is held inside critical sections only.                    *)

\* In a roomy table AUTHINFO always has an entry to go to.
Placed ==
    \A p \in Procs : pc[p] \in Pending => newuser[p] # NULL

LEMMA NextPlaced ==
    ASSUME SafeSignals, Roomy, HeldInv, Placed, [Next]_vars
    PROVE  Placed'
<1>1. SessionInv /\ TypeOK
  BY DEF HeldInv, TableInv, UserInv, SessionInv
<1>2. CASE UNCHANGED <<pc, newuser>>
  BY <1>2 DEF Placed
<1>3. ASSUME NEW p \in Procs, Fork(p)
      PROVE  Placed'
  <2>1. pc' = [pc EXCEPT ![p] = "start"] /\ UNCHANGED newuser
    BY <1>3 DEF Fork
  <2> QED BY <1>1, <2>1 DEF Placed, Pending, TypeOK
<1>4. ASSUME NEW p \in Procs, Child(p)
      PROVE  Placed'
  <2>1. \A q \in Procs : q # p => pc'[q] = pc[q] /\ newuser'[q] = newuser[q]
    BY <1>1, <1>4, OwnClient
  <2>2. ASSUME pc'[p] \in Pending => newuser'[p] # NULL
        PROVE  Placed'
    BY <2>1, <2>2 DEF Placed
  <2>3. ASSUME NEW point, Goto(p, point)
        PROVE  pc'[p] = point
    BY <1>1, <2>3 DEF Goto, TypeOK
  <2>4. CASE AuthFind(p)
    <3>1. newuser[p] = NULL
      BY <1>1, <2>4 DEF AuthFind, SessionInv, ClosesWhole, Pending
    <3>2. PICK k, f, u : /\ k \in Keys /\ f \in Profiles
                         /\ u \in Users \cup {NULL}
                         /\ find_user(k, f, u)
                         /\ newuser' = [newuser EXCEPT ![p] = u]
      BY <1>1, <2>4, AuthFindCall, SessionStructure
    <3>3. u # NULL
      BY <1>1, <3>1, <3>2, FoundEntry, RoomLeft
    <3>4. newuser'[p] = u
      BY <1>1, <3>2 DEF TypeOK
    <3> QED BY <2>2, <3>3, <3>4
  <2>5. CASE semlock_lock(p)
    <3>1. pc'[p] = LockNext[pc[p]] /\ pc[p] \in Waiting /\ UNCHANGED newuser
      BY <2>3, <2>5 DEF semlock_lock, locals
    <3>2. pc'[p] \in Pending => pc[p] \in Pending
      BY <3>1 DEF LockNext, Waiting, Pending
    <3> QED BY <2>2, <3>1, <3>2 DEF Placed
  <2>6. CASE AccountSharingCheck(p)
    BY <2>2, <2>6 DEF AccountSharingCheck, Placed, Pending, locals
  <2>7. CASE ReadCount(p) \/ InitClient(p) \/ AffinityFails(p) \/ Register(p)
             \/ Refuse(p) \/ AdmitUser(p) \/ AdmitProfile(p)
             \/ AuthReject(p) \/ AuthUndo(p) \/ AuthSwitch(p)
             \/ close_child(p) \/ Crash(p) \/ ExitChild(p) \/ Quit(p)
             \/ Authenticate(p) \/ Statistics(p) \/ StatisticsEnds(p)
             \/ Signal(p)
    <3>1. \E point \in {"init", "reg_lock", "none", "admit_user", "close",
                        "admit_profile", "loop", "auth_lock", "stat_lock",
                        "exit"} : Goto(p, point)
      BY <2>7, AuthRejectReturns DEF ReadCount, InitClient, AffinityFails,
         Exit, Register, Refuse, AdmitUser, AdmitProfile, AuthReturn, AuthUndo,
         AuthSwitch, close_child, Crash, ExitChild, Quit, Authenticate,
         Statistics, StatisticsEnds, Signal
    <3>2. pc'[p] \notin Pending
      BY <2>3, <3>1 DEF Pending
    <3> QED BY <2>2, <3>2
  <2> QED BY <1>4, <2>4, <2>5, <2>6, <2>7 DEF Child, Advance
<1> QED BY <1>2, <1>3, <1>4 DEF Next, Listen, access_check, access_refused,
                                find_slot, ForkFails, vars, locals

PlacedInv == HeldInv /\ Placed

LEMMA PlacedInvariant ==
    ASSUME SafeSignals, Roomy
    PROVE  Spec => []PlacedInv
<1>1. Init => Placed
  BY DEF Init, Placed, Pending
<1>2. HeldInv /\ Placed /\ [Next]_vars => Placed'
  BY NextPlaced
<1> QED BY <1>1, <1>2, HeldInvariant, PTL DEF Spec, PlacedInv

LEMMA NextLock ==
    ASSUME SafeSignals, PlacedInv, LockDiscipline, [Next]_vars
    PROVE  LockDiscipline'
<1>1. SessionInv /\ TypeOK /\ NoOwner \notin Procs
  BY ValueAssumption DEF PlacedInv, HeldInv, TableInv, UserInv, SessionInv
<1>2. CASE UNCHANGED <<pc, sem>>
  BY <1>2 DEF LockDiscipline
<1>3. ASSUME NEW p \in Procs, Fork(p)
      PROVE  LockDiscipline'
  <2>1. /\ pc' = [pc EXCEPT ![p] = "start"] /\ pc[p] = "none"
        /\ UNCHANGED sem
    BY <1>3 DEF Fork
  <2>2. "start" \notin Holding /\ "none" \notin Holding
    BY DEF Holding
  <2> QED BY <1>1, <2>1, <2>2 DEF LockDiscipline, TypeOK
<1>4. ASSUME NEW p \in Procs, Child(p)
      PROVE  LockDiscipline'
  <2>1. \A q \in Procs : q # p => pc'[q] = pc[q]
    BY <1>1, <1>4, OwnClient
  <2>2. ASSUME \/ UNCHANGED sem /\ (pc'[p] \in Holding <=> pc[p] \in Holding)
               \/ sem = p /\ sem' = NoOwner /\ pc'[p] \notin Holding
               \/ sem = NoOwner /\ sem' = p /\ pc'[p] \in Holding
        PROVE  LockDiscipline'
    BY <1>1, <2>1, <2>2 DEF LockDiscipline
  <2>3. ASSUME NEW point, Goto(p, point)
        PROVE  pc'[p] = point
    BY <1>1, <2>3 DEF Goto, TypeOK
  <2>4. pc[p] \in Holding <=> sem = p
    BY DEF LockDiscipline
  <2>5. CASE semlock_lock(p)
    <3>1. /\ pc'[p] = LockNext[pc[p]] /\ pc[p] \in Waiting
          /\ sem = NoOwner /\ sem' = p
      BY <2>3, <2>5 DEF semlock_lock
    <3>2. pc'[p] \in Holding
      BY <3>1 DEF LockNext, Waiting, Holding
    <3> QED BY <2>2, <3>1, <3>2
  <2>6. CASE Register(p) \/ AuthReject(p) \/ StatisticsEnds(p)
             \/ close_child(p)
    <3>1. pc[p] \in Holding /\ sem' = NoOwner
      BY <2>6, AuthRejectReturns DEF Register, AuthReturn, StatisticsEnds,
         close_child, Holding
    <3>2. \E point \in {"admit_user", "loop", "exit"} : Goto(p, point)
      BY <2>6, AuthRejectReturns DEF Register, AuthReturn, StatisticsEnds,
         close_child
    <3>3. pc'[p] \notin Holding
      BY <2>3, <3>2 DEF Holding
    <3> QED BY <2>2, <2>4, <3>1, <3>3
  <2>7. CASE AuthUndo(p) \/ AuthSwitch(p)
    <3>1. pc[p] \in Holding /\ pc[p] \in Pending
      BY <2>7 DEF AuthUndo, AuthSwitch, Holding, Pending
    <3>2. newuser[p] # NULL
      BY <3>1 DEF PlacedInv, Placed
    <3>3. sem' = NoOwner /\ pc'[p] = "loop"
      BY <2>3, <2>7, <3>2 DEF AuthUndo, AuthSwitch
    <3>4. pc'[p] \notin Holding
      BY <3>3 DEF Holding
    <3> QED BY <2>2, <2>4, <3>1, <3>3, <3>4
  <2>8. CASE AuthFind(p)
    <3>1. pc[p] \in Holding
      BY <2>8 DEF AuthFind, Holding
    <3>2. \/ (Goto(p, "undo_cs") \/ Goto(p, "switch_cs")) /\ UNCHANGED sem
          \/ Goto(p, "as_check") /\ sem' = NoOwner
      BY <2>8 DEF AuthFind
    <3>3. \/ pc'[p] \in Holding /\ UNCHANGED sem
          \/ pc'[p] \notin Holding /\ sem' = NoOwner
      BY <2>3, <3>2 DEF Holding
    <3> QED BY <2>2, <2>4, <3>1, <3>3
  <2>9. CASE AffinityFails(p) \/ Crash(p) \/ ExitChild(p)
    <3>1. pc[p] \notin Holding
      <4>1. pc[p] = "close_cs" => me(p).profile # NoProfile
        BY <1>1, ChildFacts, RegisteredActive, ValueAssumption
        DEF Registered, Profiled
      <4> QED BY <2>9, <4>1 DEF AffinityFails, Crash, ExitChild, Holding
    <3>2. pc'[p] = "none" /\ UNCHANGED sem
      BY <2>3, <2>4, <2>9, <3>1 DEF AffinityFails, Crash, ExitChild, Exit
    <3>3. pc'[p] \notin Holding
      BY <3>2 DEF Holding
    <3> QED BY <2>2, <3>1, <3>2, <3>3
  <2>10. CASE ReadCount(p) \/ InitClient(p) \/ Refuse(p) \/ AdmitUser(p)
              \/ AdmitProfile(p) \/ AccountSharingCheck(p) \/ Quit(p)
              \/ Authenticate(p) \/ Statistics(p) \/ Signal(p)
    <3>1. pc[p] \notin Holding /\ UNCHANGED sem
      BY <2>10 DEF ReadCount, InitClient, Refuse, AdmitUser, AdmitProfile,
         AccountSharingCheck, Quit, Authenticate, Statistics, Signal, Holding,
         SafeSignals, SafePoints
    <3>2. \E point \in {"init", "reg_lock", "close", "admit_profile", "loop",
                        "as_lock", "undo_lock", "auth_lock", "stat_lock"} :
             Goto(p, point)
      BY <2>10 DEF ReadCount, InitClient, Refuse, AdmitUser, AdmitProfile,
         AccountSharingCheck, Quit, Authenticate, Statistics, Signal
    <3>3. pc'[p] \notin Holding
      BY <2>3, <3>2 DEF Holding
    <3> QED BY <2>2, <3>1, <3>3
  <2> QED BY <1>4, <2>5, <2>6, <2>7, <2>8, <2>9, <2>10
          DEF Child, Advance
<1> QED BY <1>2, <1>3, <1>4 DEF Next, Listen, access_check, access_refused,
                                find_slot, ForkFails, vars

\* No early return of run_child or cmdauthinfo keeps the semaphore and none
\* gives back one it does not hold: the null dereference inside a critical
\* section, of a USER entry the table had no room for, is the only way out of
\* that.
THEOREM LockKept ==
    ASSUME SafeSignals, Roomy
    PROVE  Spec => []LockDiscipline
<1>1. Init => LockDiscipline
  BY ValueAssumption DEF Init, LockDiscipline, Holding
<1>2. PlacedInv /\ LockDiscipline /\ [Next]_vars => LockDiscipline'
  BY NextLock
<1> QED BY <1>1, <1>2, PlacedInvariant, PTL DEF Spec
-----------------------------------------------------------------------------
(* PROFILE.numusers.                                                       *)

\* Each key is used with one profile: P[k], whatever address it comes from and
\* whoever answers for it.
Settled(P) ==
    /\ P \in [Keys -> Profiles]
    /\ \A ip \in Ips : IpLookup(AclProfile[ip], ip) = P[HostKey[ip]]
    /\ \A k \in AuthUsers, ip \in Ips :
          /\ NoProfile \in ModuleProfile[k] =>
                IpLookup(AuthProfile[k], ip) = P[k]
          /\ \A f \in (ModuleProfile[k] \cap Profiles) \cup {P[k]} :
                IpLookup(f, ip) = P[k]

Group(P, f) == {u \in Used : P[user[u].key] = f}

\* What the drops of a user rest on: the profile the caller names is the one
\* the user was counted under.
Named(P) ==
    /\ \A s \in Slots : client[s].user # NULL =>
          client[s].profile = P[user[client[s].user].key]
    /\ \A p \in Procs : newuser[p] # NULL =>
          newprf[p] = P[user[newuser[p]].key]
    /\ \A p \in Procs : pc[p] \in {"reg_lock", "reg_cs"} =>
          me(p).profile = IpLookup(AclProfile[me(p).ip4addr], me(p).ip4addr)

Grouped(P) == \A f \in Profiles : numusers[f] = Cardinality(Group(P, f))

SettledInv(P) == TableInv /\ Named(P) /\ Grouped(P)

\* An entry somebody refers to has a key.
LEMMA ReferredKeys ==
    ASSUME TypeOK, EntriesUsed, UserConnections
    PROVE  /\ \A s \in Slots : client[s].user # NULL => client[s].user \in Used
           /\ \A p \in Procs : newuser[p] # NULL => newuser[p] \in Used
           /\ \A u \in Used : user[u].key \in Keys
           /\ \A u \in Used : UserRefs(u) # {} \/ UserPending(u) # {}
<1>1. ASSUME NEW u \in Users
      PROVE  u \in Used <=> UserRefs(u) # {} \/ UserPending(u) # {}
  <2>1. /\ IsFiniteSet(UserRefs(u)) /\ IsFiniteSet(UserPending(u))
        /\ Cardinality(UserRefs(u)) \in Nat
        /\ Cardinality(UserPending(u)) \in Nat
    BY SlotSubset, ProcSubset DEF UserRefs, UserPending
  <2>2. /\ Cardinality(UserRefs(u)) = 0 <=> UserRefs(u) = {}
        /\ Cardinality(UserPending(u)) = 0 <=> UserPending(u) = {}
    BY <2>1, FS_EmptySet
  <2>3. user[u].connections =
          Cardinality(UserRefs(u)) + Cardinality(UserPending(u))
    BY DEF UserConnections
  <2>4. user[u].connections = 0 <=> UserRefs(u) = {} /\ UserPending(u) = {}
    BY <2>1, <2>2, <2>3
  <2> QED BY <2>4 DEF EntriesUsed, Used
<1>2. ASSUME NEW s \in Slots, client[s].user # NULL
      PROVE  client[s].user \in Used
  <2>1. client[s].user \in Users
    BY <1>2 DEF TypeOK
  <2> QED BY <1>1, <2>1 DEF UserRefs
<1>3. ASSUME NEW p \in Procs, newuser[p] # NULL
      PROVE  newuser[p] \in Used
  <2>1. newuser[p] \in Users
    BY <1>3 DEF TypeOK
  <2> QED BY <1>1, <2>1 DEF UserPending
<1>4. Used \subseteq Users /\ \A u \in Used : user[u].key \in Keys
  BY DEF Used, TypeOK
<1> QED BY <1>1, <1>2, <1>3, <1>4

LEMMA ReferredAfter ==
    (TypeOK /\ EntriesUsed /\ UserConnections =>
        /\ \A s \in Slots : client[s].user # NULL => client[s].user \in Used
        /\ \A p \in Procs : newuser[p] # NULL => newuser[p] \in Used)'
<1>1. TypeOK /\ EntriesUsed /\ UserConnections =>
        /\ \A s \in Slots : client[s].user # NULL => client[s].user \in Used
        /\ \A p \in Procs : newuser[p] # NULL => newuser[p] \in Used
  BY ReferredKeys
<1> QED BY <1>1, PTL

\* The counter counts what its definition says.
LEMMA GroupsAreUsers ==
    ASSUME NEW P, TableInv, Named(P), NEW f
    PROVE  Group(P, f) = UsersOf(f)
<1>1. TypeOK /\ EntriesUsed /\ UserConnections
  BY DEF TableInv, UserInv, SessionInv
<1>2. Used \subseteq Users
  BY DEF Used
<1>3. ASSUME NEW u \in Used
      PROVE  u \in UsersOf(f) <=> P[user[u].key] = f
  <2>1. u \in Users /\ u # NULL
    BY <1>2 DEF Users, NULL
  <2>2. \A s \in UserRefs(u) : client[s].profile = P[user[u].key]
    BY <2>1 DEF UserRefs, Named
  <2>3. \A p \in UserPending(u) : newprf[p] = P[user[u].key]
    BY <2>1 DEF UserPending, Named
  <2>4. UserRefs(u) # {} \/ UserPending(u) # {}
    BY <1>1, ReferredKeys
  <2> QED BY <2>1, <2>2, <2>3, <2>4 DEF UsersOf
<1>4. \A u \in Users : u \in UsersOf(f) => u \in Used
  <2>1. ASSUME NEW u \in Users, u \in UsersOf(f)
        PROVE  u \in Used
    <3>1. \/ \E s \in Slots : client[s].user = u
          \/ \E p \in Procs : newuser[p] = u
      BY <2>1 DEF UsersOf, UserRefs, UserPending
    <3>2. u # NULL
      BY DEF Users, NULL
    <3> QED BY <1>1, <3>1, <3>2, ReferredKeys
  <2> QED BY <2>1
<1> QED BY <1>2, <1>3, <1>4 DEF Group, UsersOf

\* A child that has no second entry leaves room in the counters.
LEMMA UsedBound ==
    ASSUME UserInv, NEW p \in Procs, newuser[p] = NULL
    PROVE  /\ IsFiniteSet(Used) /\ Cardinality(Used) \in Nat
           /\ Cardinality(Used) < UIntMax
<1> DEFINE R == {u \in Used : UserRefs(u) # {}}
           Q == {u \in Used : UserPending(u) # {}}
           O == Procs \ {p}
           r == [s \in Slots |-> client[s].user]
<1>1. TypeOK /\ EntriesUsed /\ UserConnections /\ Used \subseteq Users
  BY DEF UserInv, SessionInv, Used
<1>2. Used = R \cup Q
  BY <1>1, ReferredKeys
<1>3. \A u \in R : \E s \in Slots : r[s] = u
  BY DEF UserRefs
<1>4. \A u \in Q : \E q \in O : newuser[q] = u
  BY <1>1 DEF UserPending, Users, NULL
<1>5. /\ IsFiniteSet(R) /\ IsFiniteSet(Q) /\ IsFiniteSet(Used)
      /\ Cardinality(R) \in Nat /\ Cardinality(Q) \in Nat
      /\ Cardinality(Used) \in Nat
  BY <1>1, UsersFinite
<1>6. /\ IsFiniteSet(Slots) /\ Cardinality(Slots) = MAX_PROC
      /\ IsFiniteSet(O) /\ Cardinality(O) = Cardinality(Procs) - 1
      /\ Cardinality(Procs) \in Nat
  BY SlotsFinite, SizeAssumption, FS_RemoveElement, FS_CardinalityType
<1> HIDE DEF R, Q, O, r
<1>7. Cardinality(R) <= Cardinality(Slots)
  BY <1>3, <1>5, <1>6, CoverCount
<1>8. Cardinality(Q) <= Cardinality(O)
  BY <1>4, <1>5, <1>6, CoverCount
<1>9. Cardinality(Used)
        = Cardinality(R) + Cardinality(Q) - Cardinality(R \cap Q)
  BY <1>2, <1>5, FS_Union
<1>10. Cardinality(R \cap Q) \in Nat
  BY <1>5, FS_Intersection, FS_CardinalityType
<1> QED BY <1>5, <1>6, <1>7, <1>8, <1>9, <1>10, SizeAssumption

\* AUTHINFO resolves a name to its profile.
LEMMA NewProfileSettled ==
    ASSUME NEW P, Settled(P), TypeOK, EntriesUsed, UserConnections, Named(P),
           NEW k \in AuthUsers, NEW a \in ModuleProfile[k], NEW ip \in Ips,
           NEW f \in NewProfile(k, a, ip)
    PROVE  f = P[k]
<1>1. UserProfile(k) \subseteq {P[k]}
  <2>1. k \in Keys /\ k # NoKey
    BY ConfigAssumption, ValueAssumption
  <2>2. ASSUME NEW t \in Slots, client[t].user \in Known(k)
        PROVE  client[t].profile = P[k]
    BY <2>2 DEF Known, Named, Users, NULL
  <2> QED BY <2>2 DEF UserProfile, Least
<1>2. CASE a = NoProfile
  BY <1>2 DEF NewProfile, Settled
<1>3. CASE a # NoProfile
  <2>1. PICK g : f = IpLookup(g, ip)
                 /\ \/ g \in UserProfile(k)
                    \/ g = a /\ a # UnknownProfile
    BY <1>3 DEF NewProfile
  <2>2. a \in Profiles \cup {NoProfile, UnknownProfile}
    BY ConfigAssumption
  <2>3. g \in (ModuleProfile[k] \cap Profiles) \cup {P[k]}
    BY <1>1, <1>3, <2>1, <2>2
  <2> QED BY <2>1, <2>3 DEF Settled
<1> QED BY <1>2, <1>3

LEMMA SettledSteps ==
    ASSUME NEW P, Settled(P), SettledInv(P), NEW p \in Procs, Child(p)
    PROVE  \/ UNCHANGED table
           \/ newuser[p] = NULL /\ \E k \in Keys : \E u : Finds(k, P[k], u)
           \/ \E u \in Used : Drops(u, P[user[u].key])
<1> USE DEF Points, Registered, Serving, Holding, Waiting, Profiled, Pending
<1>1. /\ SessionInv /\ UserInv /\ Named(P)
      /\ TypeOK /\ EntriesUsed /\ UserConnections
  BY DEF SettledInv, TableInv, UserInv, SessionInv
<1>2. CASE Register(p)
  <2>1. /\ pc[p] \in Active /\ pc[p] = "reg_cs" /\ me(p).user = NULL
        /\ me(p).profile \in Profiles /\ HostKey[me(p).ip4addr] \in Keys
        /\ me(p).ip4addr \in Ips /\ newuser[p] = NULL
    BY <1>1, <1>2, ChildFacts, ConfigAssumption DEF Register, Active
  <2>2. PICK u \in Users \cup {NULL} :
          find_user(HostKey[me(p).ip4addr], me(p).profile, u)
    BY <1>2 DEF Register
  <2>3. u \in Users => user[u].connections < UIntMax
    BY <1>1, <2>1, UserBounds DEF Users, NULL
  <2>4. me(p).profile = P[HostKey[me(p).ip4addr]]
    BY <1>1, <2>1 DEF Named, Settled
  <2>5. Finds(HostKey[me(p).ip4addr], me(p).profile, u)
    BY <2>1, <2>2, <2>3 DEF Finds
  <2> QED BY <2>1, <2>4, <2>5
<1>3. CASE AuthFind(p)
  <2>1. pc[p] \in Active /\ newuser[p] = NULL /\ me(p).ip4addr \in Ips
    BY <1>1, <1>3, ChildFacts DEF AuthFind, Active
  <2>2. PICK k, a, f, u :
          /\ k \in AuthUsers /\ a \in ModuleProfile[k]
          /\ f \in NewProfile(k, a, me(p).ip4addr)
          /\ u \in Users \cup {NULL}
          /\ find_user(k, f, u)
    BY <1>3 DEF AuthFind
  <2>3. f = P[k]
    BY <1>1, <2>1, <2>2, NewProfileSettled
  <2>4. u \in Users => user[u].connections < UIntMax
    BY <1>1, <2>1, UserBounds DEF Users, NULL
  <2>5. k \in Keys /\ f \in Profiles
    BY <2>2, <2>3, ConfigAssumption DEF Settled
  <2>6. Finds(k, P[k], u)
    BY <2>2, <2>3, <2>4, <2>5 DEF Finds
  <2> QED BY <2>1, <2>5, <2>6
<1>4. CASE AuthUndo(p)
  <2>1. pc[p] \in Active /\ newprf[p] \in Profiles
        /\ newuser[p] \in Users \cup {NULL}
    BY <1>1, <1>4, ChildFacts DEF AuthUndo, Active
  <2>2. newuser[p] \in Users => user[newuser[p]].connections > 0
    BY <1>1, <2>1, UserBounds
  <2>3. newuser[p] # NULL => /\ newuser[p] \in Used
                             /\ newprf[p] = P[user[newuser[p]].key]
    BY <1>1, ReferredKeys DEF Named
  <2>4. newuser[p] # NULL /\ drop_user(newuser[p], newprf[p])
          => Drops(newuser[p], newprf[p])
    BY <2>1, <2>2 DEF Drops
  <2> QED BY <1>4, <2>3, <2>4 DEF AuthUndo, table
<1>5. CASE AuthSwitch(p) \/ close_child(p)
  <2>1. /\ pc[p] \in Active /\ slot[p] \in Slots
        /\ me(p).user \in Users \cup {NULL} /\ me(p).profile \in Profiles
        /\ pc[p] = "switch_cs" => me(p).user \in Users
    BY <1>1, <1>5, ChildFacts DEF AuthSwitch, close_child, Active, ClientRecord
  <2>2. me(p).user \in Users => user[me(p).user].connections > 0
    BY <1>1, <2>1, UserBounds
  <2>3. me(p).user # NULL => /\ me(p).user \in Used
                             /\ me(p).profile = P[user[me(p).user].key]
    BY <1>1, <2>1, ReferredKeys DEF Named, me
  <2>4. \/ me(p).user = NULL /\ UNCHANGED table
        \/ me(p).user # NULL /\ drop_user(me(p).user, me(p).profile)
    <3>1. CASE AuthSwitch(p)
      BY <2>1, <3>1 DEF AuthSwitch, Users, NULL
    <3>2. CASE close_child(p)
      BY <3>2 DEF close_child
    <3> QED BY <1>5, <3>1, <3>2
  <2>5. me(p).user # NULL /\ drop_user(me(p).user, me(p).profile)
          => Drops(me(p).user, me(p).profile)
    BY <2>1, <2>2 DEF Drops
  <2> QED BY <2>3, <2>4, <2>5
<1>6. CASE ReadCount(p) \/ InitClient(p) \/ AffinityFails(p) \/ Refuse(p)
           \/ AdmitUser(p) \/ AdmitProfile(p) \/ AuthReject(p)
           \/ AccountSharingCheck(p) \/ Crash(p) \/ ExitChild(p)
           \/ semlock_lock(p) \/ Quit(p) \/ Authenticate(p) \/ Statistics(p)
           \/ StatisticsEnds(p) \/ Signal(p)
  BY <1>6, AuthRejectReturns DEF ReadCount, InitClient, AffinityFails, Refuse,
     AdmitUser, AdmitProfile, AuthReturn, AccountSharingCheck, Crash,
     ExitChild, semlock_lock, Quit, Authenticate, Statistics, StatisticsEnds,
     Signal, table
<1> QED BY <1>2, <1>3, <1>4, <1>5, <1>6 DEF Child, Advance

\* An entry in use before and after a step keeps its key.
LEMMA KeysStay ==
    ASSUME UserInv, NEW p \in Procs, Child(p), NEW u \in Used, u \in Used'
    PROVE  user'[u].key = user[u].key
<1>1. TypeOK /\ u \in Users /\ user[u].key # NoKey /\ user'[u].key # NoKey
  BY DEF UserInv, SessionInv, Used
<1>2. CASE UNCHANGED table
  BY <1>2 DEF table
<1>3. ASSUME NEW k, NEW f, NEW v, Finds(k, f, v)
      PROVE  user'[u].key = user[u].key
  <2>1. k \in Keys /\ f \in Profiles /\ v \in Users \cup {NULL}
          /\ find_user(k, f, v)
    BY <1>3 DEF Finds
  <2>2. v = NULL => UNCHANGED table
    BY <1>1, <2>1, FoundEntry
  <2>3. v \in Users =>
          /\ user'[v].key = k /\ user[v].key \in {k, NoKey}
          /\ \A w \in Users : w # v => user'[w] = user[w]
    BY <1>1, <2>1, FoundEntry
  <2> QED BY <1>1, <2>1, <2>2, <2>3 DEF table
<1>4. ASSUME NEW v, NEW f, Drops(v, f)
      PROVE  user'[u].key = user[u].key
  <2>1. /\ v \in Users /\ f \in Profiles /\ drop_user(v, f)
        /\ user[v].connections > 0
    BY <1>4 DEF Drops
  <2>2. /\ \A w \in Users : w # v => user'[w] = user[w]
        /\ user'[v].key \in {user[v].key, NoKey}
    BY <1>1, <2>1, DroppedEntry
  <2> QED BY <1>1, <2>2
<1> QED BY <1>2, <1>3, <1>4, TableSteps

LEMMA FindsGrouped ==
    ASSUME NEW P, Settled(P), SettledInv(P), NEW p \in Procs,
           newuser[p] = NULL, NEW k \in Keys, NEW u, Finds(k, P[k], u)
    PROVE  Grouped(P)'
<1>1. /\ TypeOK /\ UserInv /\ Used \subseteq Users /\ k # NoKey
      /\ P[k] \in Profiles /\ u \in Users \cup {NULL}
      /\ find_user(k, P[k], u)
  BY ValueAssumption
  DEF SettledInv, TableInv, UserInv, SessionInv, Used, Settled, Finds
<1>2. SUFFICES ASSUME NEW f \in Profiles
               PROVE  numusers'[f] = Cardinality(Group(P, f)')
  BY DEF Grouped, Group, Used
<1>3. numusers[f] = Cardinality(Group(P, f))
  BY DEF SettledInv, Grouped
<1>4. CASE u = NULL
  <2>1. UNCHANGED table
    BY <1>1, <1>4, FoundEntry
  <2>2. Group(P, f)' = Group(P, f)
    BY <2>1 DEF Group, Used, table
  <2> QED BY <1>3, <2>1, <2>2 DEF table
<1>5. CASE u \in Users
  <2>1. /\ user'[u].key = k /\ user[u].key \in {k, NoKey}
        /\ \A v \in Users : v # u => user'[v] = user[v]
        /\ user[u].key = k => UNCHANGED <<numusers, master_numusers>>
        /\ user[u].key = NoKey => numusers' = [numusers EXCEPT ![P[k]] = Inc(@)]
    BY <1>1, <1>5, FoundEntry
  <2>2. CASE user[u].key = k
    <3>1. \A v \in Users : user'[v].key = user[v].key
      BY <2>1, <2>2
    <3>2. Group(P, f)' = Group(P, f)
      BY <3>1 DEF Group, Used
    <3> QED BY <1>3, <2>1, <2>2, <3>2
  <2>3. CASE user[u].key = NoKey
    <3>1. /\ Group(P, f)' = IF P[k] = f THEN Group(P, f) \cup {u}
                            ELSE Group(P, f)
          /\ u \notin Group(P, f)
      BY <1>1, <1>5, <2>1, <2>3 DEF Group, Used
    <3>2. Group(P, f) \subseteq Used
      BY DEF Group
    <3>3. /\ IsFiniteSet(Used) /\ Cardinality(Used) \in Nat
          /\ Cardinality(Used) < UIntMax
      BY <1>1, UsedBound
    <3>4. /\ IsFiniteSet(Group(P, f)) /\ Cardinality(Group(P, f)) \in Nat
          /\ Cardinality(Group(P, f)) < UIntMax
      BY <3>2, <3>3, FS_Subset, FS_CardinalityType, SizeAssumption
    <3>5. numusers'[f] = IF P[k] = f THEN numusers[f] + 1 ELSE numusers[f]
      BY <1>1, <1>3, <2>1, <2>3, <3>4, UIntFacts DEF TypeOK
    <3>6. Cardinality(Group(P, f) \cup {u}) = Cardinality(Group(P, f)) + 1
      BY <3>1, <3>4, FS_AddElement
    <3> QED BY <1>3, <3>1, <3>5, <3>6
  <2> QED BY <2>1, <2>2, <2>3
<1> QED BY <1>1, <1>4, <1>5

LEMMA DropsGrouped ==
    ASSUME NEW P, Settled(P), SettledInv(P), NEW u \in Used,
           Drops(u, P[user[u].key])
    PROVE  Grouped(P)'
<1> DEFINE k == user[u].key
<1>1. /\ TypeOK /\ Used \subseteq Users /\ u \in Users /\ k # NoKey
      /\ P[k] \in Profiles /\ drop_user(u, P[k])
      /\ user[u].connections > 0
  BY DEF SettledInv, TableInv, UserInv, SessionInv, Used, Settled, Drops,
     TypeOK
<1>2. SUFFICES ASSUME NEW f \in Profiles
               PROVE  numusers'[f] = Cardinality(Group(P, f)')
  BY DEF Grouped, Group, Used
<1>3. numusers[f] = Cardinality(Group(P, f)) /\ numusers[f] \in UInt
  BY <1>1 DEF SettledInv, Grouped, TypeOK
<1>4. /\ \A v \in Users : v # u => user'[v] = user[v]
      /\ user[u].connections = 1 =>
           /\ user'[u].key = NoKey
           /\ numusers' = [numusers EXCEPT ![P[k]] = Dec(@)]
      /\ user[u].connections # 1 =>
           user'[u].key = k /\ UNCHANGED <<numusers, master_numusers>>
  BY <1>1, DroppedEntry
<1>5. CASE user[u].connections = 1
  <2>1. /\ Group(P, f)' = Group(P, f) \ {u}
        /\ u \in Group(P, f) <=> P[k] = f
    BY <1>1, <1>4, <1>5 DEF Group, Used
  <2>2. IsFiniteSet(Group(P, f)) /\ Cardinality(Group(P, f)) \in Nat
    BY <1>1, UsersFinite DEF Group
  <2>3. Cardinality(Group(P, f) \ {u}) =
          IF P[k] = f THEN Cardinality(Group(P, f)) - 1
          ELSE Cardinality(Group(P, f))
    BY <2>1, <2>2, FS_RemoveElement
  <2>4. P[k] = f => Cardinality(Group(P, f)) > 0
    BY <2>1, <2>2, FS_EmptySet
  <2>5. numusers'[f] = IF P[k] = f THEN numusers[f] - 1 ELSE numusers[f]
    BY <1>1, <1>3, <1>4, <1>5, <2>4, UIntFacts DEF TypeOK
  <2> QED BY <1>3, <2>1, <2>3, <2>5
<1>6. CASE user[u].connections # 1
  <2>1. \A v \in Users : user'[v].key = user[v].key
    BY <1>4, <1>6
  <2>2. Group(P, f)' = Group(P, f)
    BY <2>1 DEF Group, Used
  <2> QED BY <1>3, <1>4, <1>6, <2>2
<1> QED BY <1>5, <1>6

\* A step that moves no client to another user or profile, and gives no child a
\* second entry, keeps the names.
LEMMA NamesKept ==
    ASSUME NEW P, SettledInv(P), UserInv', NEW p \in Procs, Child(p),
           \A s \in Slots : client'[s].user # NULL =>
              \/ /\ client'[s].user = client[s].user
                 /\ client'[s].profile = client[s].profile
              \/ client'[s].profile = P[user'[client'[s].user].key],
           newuser'[p] # NULL =>
              \/ newuser'[p] = newuser[p] /\ newprf'[p] = newprf[p]
              \/ newprf'[p] = P[user'[newuser'[p]].key],
           pc'[p] \in {"reg_lock", "reg_cs"} => me(p)'.profile =
              IpLookup(AclProfile[me(p)'.ip4addr], me(p)'.ip4addr)
    PROVE  Named(P)'
<1>1. /\ UserInv /\ SessionInv /\ Named(P)
      /\ TypeOK /\ EntriesUsed /\ UserConnections
      /\ TypeOK' /\ EntriesUsed' /\ UserConnections'
  BY DEF SettledInv, TableInv, UserInv, SessionInv
<1>2. \A q \in Procs : q # p =>
        /\ pc'[q] = pc[q] /\ slot'[q] = slot[q]
        /\ newuser'[q] = newuser[q] /\ newprf'[q] = newprf[q]
        /\ pc[q] \in Active => client'[slot[q]] = client[slot[q]]
  BY <1>1, OwnClient
<1>3. /\ \A s \in Slots : client'[s].user # NULL => client'[s].user \in Used'
      /\ \A q \in Procs : newuser'[q] # NULL => newuser'[q] \in Used'
  BY <1>1, ReferredAfter
<1>4. ASSUME NEW s \in Slots, client'[s].user # NULL
      PROVE  client'[s].profile = P[user'[client'[s].user].key]
  <2>1. CASE client'[s].user = client[s].user
             /\ client'[s].profile = client[s].profile
    <3>1. client[s].user \in Used /\ client[s].user \in Used'
      BY <1>1, <1>3, <1>4, <2>1, ReferredKeys
    <3>2. user'[client[s].user].key = user[client[s].user].key
      BY <1>1, <3>1, KeysStay
    <3> QED BY <1>1, <1>4, <2>1, <3>2 DEF Named
  <2> QED BY <1>4, <2>1
<1>5. ASSUME NEW q \in Procs, newuser'[q] # NULL
      PROVE  newprf'[q] = P[user'[newuser'[q]].key]
  <2>1. CASE newuser'[q] = newuser[q] /\ newprf'[q] = newprf[q]
    <3>1. newuser[q] \in Used /\ newuser[q] \in Used'
      BY <1>1, <1>3, <1>5, <2>1, ReferredKeys
    <3>2. user'[newuser[q]].key = user[newuser[q]].key
      BY <1>1, <3>1, KeysStay
    <3> QED BY <1>1, <1>5, <2>1, <3>2 DEF Named
  <2> QED BY <1>2, <1>5, <2>1
<1>6. ASSUME NEW q \in Procs, pc'[q] \in {"reg_lock", "reg_cs"}
      PROVE  me(q)'.profile =
                IpLookup(AclProfile[me(q)'.ip4addr], me(q)'.ip4addr)
  <2>1. CASE q # p
    <3>1. pc[q] \in Active /\ me(q)' = me(q)
      BY <1>2, <1>6, <2>1 DEF Active, Points, Waiting, Holding, me
    <3> QED BY <1>1, <1>2, <1>6, <2>1, <3>1 DEF Named
  <2> QED BY <1>6, <2>1
<1> QED BY <1>4, <1>5, <1>6 DEF Named

LEMMA NextNamed ==
    ASSUME NEW P, Settled(P), SettledInv(P), UserInv',
           NEW p \in Procs, Child(p)
    PROVE  Named(P)'
<1> USE DEF Points, Registered, Serving, Holding, Waiting, Profiled, Pending
<1>1. /\ SessionInv /\ TypeOK /\ Named(P)
      /\ TypeOK' /\ EntriesUsed /\ EntriesUsed'
      /\ UserConnections /\ UserConnections'
      /\ client \in [Slots -> ClientRecord]
  BY DEF SettledInv, TableInv, UserInv, SessionInv, TypeOK, ClientRecord
<1>2. ASSUME NEW point, Goto(p, point)
      PROVE  pc'[p] = point
  BY <1>1, <1>2 DEF Goto, TypeOK
<1>3. \A s \in Slots : \/ s = slot[p] /\ pc[p] \in Active
                       \/ client'[s] = client[s]
  BY <1>1, OwnSlotOnly
<1>4. CASE Register(p)
  <2>1. /\ pc[p] \in Active /\ pc[p] = "reg_cs" /\ slot[p] \in Slots
        /\ me(p).ip4addr \in Ips /\ me(p).profile \in Profiles
        /\ newuser[p] = NULL /\ UNCHANGED <<newuser, newprf>>
        /\ pc'[p] = "admit_user"
    BY <1>1, <1>2, <1>4, ChildFacts DEF Register, Active, locals
  <2>2. PICK u \in Users \cup {NULL} :
          /\ find_user(HostKey[me(p).ip4addr], me(p).profile, u)
          /\ client' = [client EXCEPT ![slot[p]].user = u]
    BY <1>4 DEF Register
  <2>3. /\ client'[slot[p]].user = u
        /\ client'[slot[p]].profile = me(p).profile
    BY <1>1, <2>1, <2>2 DEF me, ClientRecord
  <2>4. HostKey[me(p).ip4addr] \in Keys
        /\ me(p).profile = P[HostKey[me(p).ip4addr]]
    BY <1>1, <2>1, ConfigAssumption DEF Named, Settled
  <2>5. u # NULL => user'[u].key = HostKey[me(p).ip4addr]
    BY <1>1, <2>1, <2>2, <2>4, FoundEntry
  <2>6. \A s \in Slots : client'[s].user # NULL =>
          \/ /\ client'[s].user = client[s].user
             /\ client'[s].profile = client[s].profile
          \/ client'[s].profile = P[user'[client'[s].user].key]
    BY <1>3, <2>3, <2>4, <2>5
  <2> QED BY <1>4, <2>1, <2>6, NamesKept
<1>5. CASE AuthFind(p)
  <2>1. pc[p] \in Active /\ slot[p] \in Slots /\ me(p).ip4addr \in Ips
    BY <1>1, <1>5, ChildFacts DEF AuthFind, Active
  <2>2. PICK k, a, f, u :
          /\ k \in AuthUsers /\ a \in ModuleProfile[k]
          /\ f \in NewProfile(k, a, me(p).ip4addr)
          /\ u \in Users \cup {NULL}
          /\ find_user(k, f, u)
          /\ newuser' = [newuser EXCEPT ![p] = u]
          /\ newprf' = [newprf EXCEPT ![p] = f]
    BY <1>5 DEF AuthFind
  <2>3. f = P[k] /\ k \in Keys /\ f \in Profiles
    <3>1. f = P[k]
      BY <1>1, <2>1, <2>2, NewProfileSettled
    <3>2. k \in Keys /\ P \in [Keys -> Profiles]
      BY <2>2, ConfigAssumption DEF Settled
    <3> QED BY <3>1, <3>2
  <2>4. u # NULL => user'[u].key = k
    BY <1>1, <2>2, <2>3, FoundEntry
  <2>5. newuser'[p] = u /\ newprf'[p] = f
    BY <1>1, <2>2 DEF TypeOK
  <2>6. /\ client'[slot[p]].user = client[slot[p]].user
        /\ client'[slot[p]].profile = client[slot[p]].profile
    BY <1>1, <1>5, <2>1 DEF AuthFind, ClientRecord
  <2>7. pc'[p] \in {"undo_cs", "as_check", "switch_cs"}
    BY <1>1, <1>2, <1>5, AuthFindCall, SessionStructure
  <2> QED BY <1>3, <1>5, <2>3, <2>4, <2>5, <2>6, <2>7, NamesKept
<1>6. CASE AuthSwitch(p)
  <2>1. pc[p] \in Active /\ slot[p] \in Slots /\ newuser'[p] = NULL
        /\ pc'[p] \in {"loop", "close"}
    BY <1>1, <1>2, <1>6, ChildFacts DEF AuthSwitch, Active, TypeOK
  <2>2. /\ client'[slot[p]].user = newuser[p]
        /\ client'[slot[p]].profile = newprf[p]
    BY <1>1, <1>6, <2>1 DEF AuthSwitch, ClientRecord
  <2>3. ASSUME newuser[p] # NULL
        PROVE  newprf[p] = P[user'[newuser[p]].key]
    <3>1. newuser[p] \in Used /\ newprf[p] = P[user[newuser[p]].key]
      BY <1>1, <2>3, ReferredKeys DEF Named
    <3>2. newuser[p] \in Used'
      BY <1>1, <2>1, <2>2, <2>3, ReferredAfter
    <3>3. user'[newuser[p]].key = user[newuser[p]].key
      BY <1>6, <3>1, <3>2, KeysStay DEF SettledInv, TableInv, Child, Advance
    <3> QED BY <3>1, <3>3
  <2>4. \A s \in Slots : client'[s].user # NULL =>
          \/ /\ client'[s].user = client[s].user
             /\ client'[s].profile = client[s].profile
          \/ client'[s].profile = P[user'[client'[s].user].key]
    BY <1>3, <2>2, <2>3
  <2> QED BY <1>6, <2>1, <2>4, NamesKept
<1>7. CASE AuthUndo(p)
  <2>1. pc[p] \in Active /\ slot[p] \in Slots /\ newuser'[p] = NULL
        /\ pc'[p] \in {"loop", "close"}
    BY <1>1, <1>2, <1>7, ChildFacts DEF AuthUndo, Active, TypeOK
  <2>2. /\ client'[slot[p]].user = client[slot[p]].user
        /\ client'[slot[p]].profile = client[slot[p]].profile
    BY <1>1, <1>7, <2>1 DEF AuthUndo, ClientRecord
  <2> QED BY <1>3, <1>7, <2>1, <2>2, NamesKept
<1>8. CASE InitClient(p)
  <2>1. pc[p] \in Active /\ slot[p] \in Slots /\ me(p).user = NULL
        /\ UNCHANGED <<newuser, newprf, slot>>
    BY <1>1, <1>8, ChildFacts DEF InitClient, Active
  <2>2. /\ client'[slot[p]].user = NULL
        /\ client'[slot[p]].ip4addr = me(p).ip4addr
        /\ client'[slot[p]].profile =
             IpLookup(AclProfile[me(p).ip4addr], me(p).ip4addr)
    BY <1>1, <1>8, <2>1 DEF InitClient, me, ClientRecord
  <2>3. me(p)' = client'[slot[p]]
    BY <2>1 DEF me
  <2> QED BY <1>3, <1>8, <2>1, <2>2, <2>3, NamesKept
<1>9. CASE AffinityFails(p) \/ close_child(p)
  <2>1. /\ pc[p] \in Active /\ slot[p] \in Slots
        /\ pc[p] = "init" => me(p).user = NULL
    BY <1>1, <1>9, ChildFacts DEF AffinityFails, close_child, Active
  <2>2. client'[slot[p]].user = NULL
    <3>1. CASE AffinityFails(p)
      BY <1>1, <2>1, <3>1 DEF AffinityFails, me, ClientRecord
    <3>2. CASE close_child(p)
      <4>1. client' = [client EXCEPT ![slot[p]] = FreeClient]
        BY <3>2 DEF close_child
      <4> QED BY <1>1, <2>1, <4>1 DEF FreeClient
    <3> QED BY <1>9, <3>1, <3>2
  <2>3. newuser'[p] # NULL => newuser'[p] = newuser[p] /\ newprf'[p] = newprf[p]
    BY <1>1, <1>9, ExitFacts DEF AffinityFails, close_child, locals
  <2>4. pc'[p] \in {"none", "exit"}
    BY <1>2, <1>9 DEF AffinityFails, close_child, Exit
  <2> QED BY <1>3, <1>9, <2>2, <2>3, <2>4, NamesKept
<1>10. CASE Crash(p) \/ ExitChild(p)
  <2>1. newuser'[p] = NULL /\ pc'[p] = "none" /\ UNCHANGED client
    BY <1>1, <1>10, ExitFacts DEF Crash, ExitChild
  <2> QED BY <1>10, <2>1, NamesKept
<1>11. CASE semlock_lock(p)
  <2>1. /\ pc'[p] = LockNext[pc[p]] /\ pc[p] \in Waiting
        /\ UNCHANGED <<client, slot, newuser, newprf>>
    BY <1>2, <1>11 DEF semlock_lock, locals
  <2>2. pc'[p] \in {"reg_lock", "reg_cs"} => pc[p] \in {"reg_lock", "reg_cs"}
    BY <2>1 DEF LockNext
  <2>3. me(p)' = me(p)
    BY <2>1 DEF me
  <2> QED BY <1>1, <1>11, <2>1, <2>2, <2>3, NamesKept DEF Named
<1>12. CASE ReadCount(p) \/ Refuse(p) \/ AdmitUser(p) \/ AdmitProfile(p)
            \/ AuthReject(p) \/ AccountSharingCheck(p) \/ Quit(p)
            \/ Authenticate(p) \/ Statistics(p) \/ StatisticsEnds(p)
            \/ Signal(p)
  <2>1. UNCHANGED <<client, newuser, newprf>>
    BY <1>12, AuthRejectReturns DEF ReadCount, Refuse, AdmitUser, AdmitProfile,
       AuthReturn, AccountSharingCheck, Quit, Authenticate, Statistics,
       StatisticsEnds, Signal, locals
  <2>2. \E point \in {"init", "close", "admit_profile", "loop", "auth_lock",
                      "as_lock", "undo_lock", "stat_lock"} : Goto(p, point)
    BY <1>12, AuthRejectReturns DEF ReadCount, Refuse, AdmitUser, AdmitProfile,
       AuthReturn, AccountSharingCheck, Quit, Authenticate, Statistics,
       StatisticsEnds, Signal
  <2>3. pc'[p] \notin {"reg_lock", "reg_cs"}
    BY <1>2, <2>2
  <2> QED BY <1>12, <2>1, <2>3, NamesKept
<1> QED BY <1>4, <1>5, <1>6, <1>7, <1>8, <1>9, <1>10, <1>11, <1>12
        DEF Child, Advance

LEMMA NextSettled ==
    ASSUME SafeSignals, NEW P, Settled(P), SettledInv(P), TableInv', [Next]_vars
    PROVE  SettledInv(P)'
<1>1. /\ SessionInv /\ TypeOK /\ Named(P) /\ Grouped(P) /\ UserInv'
      /\ client \in [Slots -> ClientRecord]
  BY DEF SettledInv, TableInv, UserInv, SessionInv, TypeOK, ClientRecord
<1>2. ASSUME UNCHANGED table
      PROVE  Grouped(P)'
  <2>1. \A f : Group(P, f)' = Group(P, f)
    BY <1>2 DEF Group, Used, table
  <2> QED BY <1>1, <1>2, <2>1 DEF Grouped, table
<1>3. CASE UNCHANGED <<client, table, newuser, newprf, pc, slot>>
  <2>1. Named(P)'
    BY <1>1, <1>3 DEF Named, me, table
  <2> QED BY <1>2, <1>3, <2>1 DEF SettledInv
<1>4. CASE find_slot
  <2>1. UNCHANGED <<table, newuser, newprf, pc, slot>>
    BY <1>4 DEF find_slot, locals
  <2>2. ASSUME NEW s \in Slots, ~client[s].inuse, NEW ip,
               client' = [client EXCEPT ![s] =
                  [FreeClient EXCEPT !.inuse = TRUE, !.ip4addr = ip]]
        PROVE  \A t \in Slots :
                 \/ client'[t].user = NULL
                 \/ client'[t] = client[t] /\ client[t].inuse
    BY <1>1, <2>2 DEF SessionInv, ClientFacts, FreeClient
  <2>3. \A t \in Slots : client'[t].user = NULL \/ client'[t] = client[t]
    BY <1>4, <2>2 DEF find_slot, Least, FreeSlots
  <2>4. \A t \in Slots : client[t].inuse => client'[t] = client[t]
    BY <1>1, <1>4 DEF find_slot, Least, FreeSlots
  <2>5. \A p \in Procs : pc[p] \in {"reg_lock", "reg_cs"} => me(p)' = me(p)
    <3>1. \A p \in Procs : pc[p] \in {"reg_lock", "reg_cs"} =>
             slot[p] \in Slots /\ client[slot[p]].inuse
      BY <1>1 DEF SessionInv, OwnsSlot, me, Active, Points, Waiting, Holding
    <3> QED BY <2>1, <2>4, <3>1 DEF me
  <2>6. Named(P)'
    BY <1>1, <2>1, <2>3, <2>5 DEF Named, table
  <2> QED BY <1>2, <2>1, <2>6 DEF SettledInv
<1>5. ASSUME NEW p \in Procs, Fork(p)
      PROVE  SettledInv(P)'
  <2>1. /\ pc' = [pc EXCEPT ![p] = "start"]
        /\ slot' = [slot EXCEPT ![p] = listener.slot]
        /\ UNCHANGED <<client, table, newuser, newprf>>
    BY <1>5 DEF Fork
  <2>2. \A q \in Procs : pc'[q] \in {"reg_lock", "reg_cs"} =>
           pc[q] \in {"reg_lock", "reg_cs"} /\ me(q)' = me(q)
    BY <1>1, <2>1 DEF TypeOK, me
  <2>3. Named(P)'
    BY <1>1, <2>1, <2>2 DEF Named, table
  <2> QED BY <1>2, <2>1, <2>3 DEF SettledInv
<1>6. ASSUME NEW p \in Procs, Child(p)
      PROVE  SettledInv(P)'
  <2>1. Named(P)'
    BY <1>1, <1>6, NextNamed
  <2>2. Grouped(P)'
    BY <1>2, <1>6, SettledSteps, FindsGrouped, DropsGrouped
  <2> QED BY <2>1, <2>2 DEF SettledInv
<1> QED BY <1>3, <1>4, <1>5, <1>6 DEF Next, Listen, access_check,
                                      access_refused, ForkFails, vars, locals

\* PROFILE.numusers counts the users with a session, or a pending AUTHINFO, in
\* the profile, provided every name is used with one profile: find_user counts
\* a user under the profile of its first connection and drop_user takes it off
\* the profile of its last (client.c).
THEOREM ProfileUsersCounted ==
    ASSUME SafeSignals, NEW P, Settled(P)
    PROVE  Spec => []ProfileUsers
<1>1. Init => SettledInv(P) \/ ~TableInv
  <2> SUFFICES ASSUME Init PROVE Named(P) /\ Grouped(P)
    BY DEF SettledInv
  <2>1. Named(P)
    BY DEF Init, Named, FreeClient
  <2>2. Used = {} /\ \A f : Group(P, f) = {}
    BY DEF Init, Used, Group, EmptyUser
  <2> QED BY <2>1, <2>2, FS_EmptySet DEF Init, Grouped
<1>2. SettledInv(P) /\ TableInv' /\ [Next]_vars => SettledInv(P)'
  BY NextSettled
<1>3. SettledInv(P) => ProfileUsers
  <2> SUFFICES ASSUME SettledInv(P), NEW f \in Profiles
               PROVE  numusers[f] = Cardinality(UsersOf(f))
    BY DEF ProfileUsers
  <2> QED BY GroupsAreUsers DEF SettledInv, Grouped
<1> QED BY <1>1, <1>2, <1>3, TableInvariant, PTL DEF Spec
-----------------------------------------------------------------------------
(* MaxUserConcurrent.                                                      *)

\* No host name is the name of a user: an entry holds sessions of one kind.
HostsApart == \A ip \in Ips : HostKey[ip] \notin AuthUsers

HostNamed(p) == me(p).user # NULL => user[me(p).user].key \notin AuthUsers

\* Who is known under which name.
Names ==
    /\ listener.at = "fork" => ~client[listener.slot].authenticated
    /\ \A p \in Procs : pc[p] \in Active =>
          /\ pc[p] \in {"start", "init", "reg_lock", "reg_cs", "admit_user",
                        "admit_profile", "auth_lock", "auth_cs"} =>
                ~me(p).authenticated
          /\ pc[p] \in Pending => me(p).authenticated
          /\ ~me(p).authenticated \/ pc[p] \in Pending => HostNamed(p)
          /\ newuser[p] # NULL => user[newuser[p]].key \in AuthUsers

\* The sessions that have passed a check of the user's limit: those admitted,
\* and those on their way to it.
Moving == {"as_check", "as_lock", "switch_cs"}
Stays(p, u) ==
    /\ pc[p] \in Serving \cup {"admit_profile"}
    /\ me(p).user = u
    /\ \/ me(p).ip4addr \notin Unlimit
       \/ me(p).authenticated /\ newuser[p] = NULL
Comes(p, u) == pc[p] \in Moving /\ newuser[p] = u
Checked(u) == {p \in Procs : Stays(p, u) \/ Comes(p, u)}

\* The limit each of them was checked against.
Limits(u) ==
    [p \in Procs |->
       MaxUserConcurrent[IF newuser[p] = u THEN newprf[p] ELSE me(p).profile]]

\* At most m of the members of S have a limit of m or less, for every m: they
\* can be put in an order in which each is within its own limit.  Leaving S
\* keeps this, and so does joining with a limit no smaller than the new size.
Within(S, limit) ==
    \A m \in Nat : Cardinality({p \in S : limit[p] <= m}) <= m

LEMMA WithinChange ==
    ASSUME NEW S \in SUBSET Procs, NEW T \in SUBSET Procs,
           NEW b, NEW c, NEW x, Within(S, b), \A y \in T : c[y] \in Nat,
           \A y \in T : y # x => y \in S /\ c[y] = b[y],
           x \in T => \/ x \in S /\ c[x] = b[x]
                      \/ Cardinality(T) <= c[x]
    PROVE  Within(T, c)
<1> SUFFICES ASSUME NEW m \in Nat
             PROVE  Cardinality({p \in T : c[p] <= m}) <= m
  BY DEF Within
<1> DEFINE U == {p \in T : c[p] <= m}
           V == {p \in S : b[p] <= m}
<1>1. /\ IsFiniteSet(T) /\ Cardinality(T) \in Nat
      /\ IsFiniteSet(V) /\ Cardinality(V) \in Nat /\ Cardinality(V) <= m
      /\ Cardinality(U) \in Nat
  BY ProcSubset DEF Within
<1>2. CASE x \in T /\ Cardinality(T) <= c[x] /\ c[x] <= m
  <2>1. Cardinality(U) <= Cardinality(T)
    BY <1>1, FS_Subset
  <2>2. c[x] \in Nat
    BY <1>2
  <2> QED BY <1>1, <1>2, <2>1, <2>2
<1>3. CASE ~(x \in T /\ Cardinality(T) <= c[x] /\ c[x] <= m)
  <2>1. U \subseteq V
    BY <1>3
  <2>2. Cardinality(U) <= Cardinality(V)
    BY <1>1, <2>1, FS_Subset
  <2> QED BY <1>1, <2>2
<1> QED BY <1>2, <1>3

LimitInv ==
    /\ PlacedInv
    /\ Names
    /\ \A u \in Users : Within(Checked(u), Limits(u))

LEMMA LimitsType ==
    ASSUME SessionInv, NEW u \in Users, NEW p \in Checked(u)
    PROVE  /\ p \in Procs /\ pc[p] \in Active
           /\ newuser[p] # u => me(p).profile \in Profiles
           /\ newuser[p] = u => newprf[p] \in Profiles
           /\ Limits(u)[p] \in Nat
<1> USE DEF Points, Registered, Serving, Holding, Waiting, Profiled, Pending
<1>1. p \in Procs /\ pc[p] \in Active
  BY DEF Checked, Stays, Comes, Active, Moving
<1>2. u # NULL
  BY DEF Users, NULL
<1>3. /\ newuser[p] # u => me(p).profile \in Profiles
      /\ newuser[p] = u => newprf[p] \in Profiles
  BY <1>1, <1>2, ChildFacts DEF Checked, Stays, Comes, Moving
<1>4. \A f \in Profiles : MaxUserConcurrent[f] \in Nat
  BY ConfigAssumption
<1> QED BY <1>1, <1>3, <1>4 DEF Limits

\* Nobody is counted twice, and everybody holds a connection of the entry.
LEMMA CheckedCount ==
    SessionInv /\ UserConnections =>
        \A u \in Users : Cardinality(Checked(u)) <= user[u].connections
<1> SUFFICES ASSUME SessionInv, UserConnections, NEW u \in Users
             PROVE  Cardinality(Checked(u)) <= user[u].connections
  OBVIOUS
<1> DEFINE A == {p \in Procs : Stays(p, u)}
           B == UserPending(u)
           R == UserRefs(u)
           f == [p \in A |-> slot[p]]
<1>1. \A p \in A : pc[p] \in Active /\ me(p).user = u /\ slot[p] \in Slots
  <2>1. Serving \cup {"admit_profile"} \subseteq Active
    BY DEF Active, Points, Serving, Registered
  <2> QED BY <2>1, ChildFacts DEF Stays
<1>2. f \in [A -> R] /\ \A p, q \in A : f[p] = f[q] => p = q
  BY <1>1 DEF UserRefs, me, SessionInv, OwnsSlot
<1>3. A \subseteq Procs /\ B \subseteq Procs /\ R \subseteq Slots
        /\ Checked(u) \subseteq A \cup B
  BY DEF UserPending, UserRefs, Checked, Comes
<1>4. user[u].connections = Cardinality(R) + Cardinality(B)
  BY DEF UserConnections
<1> HIDE DEF A, B, R, f
<1>5. /\ IsFiniteSet(A) /\ IsFiniteSet(B) /\ IsFiniteSet(R)
      /\ Cardinality(A) \in Nat /\ Cardinality(B) \in Nat
      /\ Cardinality(R) \in Nat
  BY <1>3, ProcSubset, SlotSubset
<1>6. Cardinality(A) <= Cardinality(R)
  BY <1>2, <1>5, InjCount
<1>7. /\ IsFiniteSet(A \cup B) /\ Cardinality(A \cup B) \in Nat
      /\ Cardinality(A \cup B) <= Cardinality(A) + Cardinality(B)
  <2>1. Cardinality(A \cup B) =
          Cardinality(A) + Cardinality(B) - Cardinality(A \cap B)
    BY <1>5, FS_Union
  <2>2. Cardinality(A \cap B) \in Nat
    BY <1>5, FS_Intersection, FS_CardinalityType
  <2>3. IsFiniteSet(A \cup B)
    BY <1>5, FS_Union
  <2> QED BY <1>5, <2>1, <2>2, <2>3, FS_CardinalityType
<1>8. Cardinality(Checked(u)) <= Cardinality(A \cup B)
        /\ Cardinality(Checked(u)) \in Nat
  BY <1>3, <1>7, FS_Subset, FS_CardinalityType
<1> QED BY <1>4, <1>5, <1>6, <1>7, <1>8

LEMMA CheckedAfter ==
    (SessionInv /\ UserConnections =>
        \A u \in Users : Cardinality(Checked(u)) <= user[u].connections)'
BY CheckedCount, PTL

LEMMA LimitsAfter ==
    (SessionInv => \A u \in Users : \A p \in Checked(u) : Limits(u)[p] \in Nat)'
<1>1. SessionInv => \A u \in Users : \A p \in Checked(u) : Limits(u)[p] \in Nat
  BY LimitsType
<1> QED BY <1>1, PTL

\* The invariant gives the property.
LEMMA WithinLimit ==
    ASSUME LimitInv
    PROVE  UserLimit
<1>1. SessionInv
  BY DEF LimitInv, PlacedInv, HeldInv, TableInv, UserInv
<1> SUFFICES ASSUME NEW u \in Users, Admitted(u) # {},
                    \A p \in Admitted(u) :
                       ~(Cardinality(Admitted(u))
                           <= MaxUserConcurrent[me(p).profile])
             PROVE  FALSE
  BY DEF UserLimit
<1> DEFINE S == Admitted(u)
           n == Cardinality(S)
           m == n - 1
<1>2. S \subseteq Checked(u) /\ S \subseteq Procs
  BY DEF Admitted, Checked, Stays
<1>3. IsFiniteSet(S) /\ n \in Nat /\ n # 0
  BY <1>2, ProcSubset, FS_EmptySet
<1>4. ASSUME NEW p \in S
      PROVE  Limits(u)[p] = MaxUserConcurrent[me(p).profile]
             /\ Limits(u)[p] \in Nat
  <2>1. /\ p \in Procs /\ pc[p] \in Active /\ me(p).user = u
        /\ u # NULL
    BY <1>1, <1>2, LimitsType DEF Admitted, Users, NULL
  <2>2. newuser[p] # u
    <3>1. ASSUME newuser[p] = u
          PROVE  FALSE
      <4>1. pc[p] \in Pending
        BY <1>1, <2>1, <3>1, ChildFacts
      <4> QED BY <2>1, <3>1, <4>1 DEF LimitInv, Names, HostNamed
    <3> QED BY <3>1
  <2>3. Limits(u)[p] \in Nat
    BY <1>1, <1>2, LimitsType
  <2> QED BY <2>1, <2>2, <2>3 DEF Limits
<1>5. m \in Nat /\ \A p \in S : Limits(u)[p] <= m
  BY <1>3, <1>4
<1>6. S \subseteq {p \in Checked(u) : Limits(u)[p] <= m}
  BY <1>2, <1>5
<1> DEFINE V == {p \in Checked(u) : Limits(u)[p] <= m}
<1>7. Cardinality(V) <= m
  BY <1>5 DEF LimitInv, Within
<1>8. V \subseteq Procs
  BY DEF Checked
<1> HIDE DEF V, S
<1>9. /\ IsFiniteSet(V) /\ Cardinality(V) \in Nat
  BY <1>8, ProcSubset
<1>10. Cardinality(S) <= Cardinality(V)
  BY <1>6, <1>9, FS_Subset DEF V
<1> QED BY <1>3, <1>7, <1>9, <1>10
\* A step of p keeps the names, if it does so for p.
LEMMA NamesStep ==
    ASSUME UserInv, Names, UserInv', NEW p \in Procs, Child(p),
           pc'[p] \in Active =>
             /\ pc[p] \in Active
             /\ pc'[p] \in {"start", "init", "reg_lock", "reg_cs",
                            "admit_user", "admit_profile", "auth_lock",
                            "auth_cs"} =>
                   ~me(p)'.authenticated
             /\ pc'[p] \in Pending => me(p)'.authenticated
             /\ ~me(p)'.authenticated \/ pc'[p] \in Pending =>
                   \/ me(p)'.user = me(p).user /\ HostNamed(p)
                   \/ me(p)'.user = NULL
                   \/ user'[me(p)'.user].key \notin AuthUsers
             /\ newuser'[p] # NULL =>
                   \/ newuser'[p] = newuser[p]
                   \/ user'[newuser'[p]].key \in AuthUsers
    PROVE  Names'
<1>1. /\ SessionInv /\ TypeOK /\ EntriesUsed /\ UserConnections
      /\ SessionInv' /\ TypeOK' /\ EntriesUsed' /\ UserConnections'
  BY DEF UserInv, SessionInv
<1>2. \A q \in Procs : q # p =>
        /\ pc'[q] = pc[q] /\ newuser'[q] = newuser[q]
        /\ pc[q] \in Active => me(q)' = me(q)
  BY <1>1, OwnClient DEF me
<1>3. listener'.at = "fork" => ~client'[listener'.slot].authenticated
  <2>1. UNCHANGED listener
    BY AuthRejectReturns DEF Child, Advance, ReadCount, InitClient,
       AffinityFails, Register, Refuse, AdmitUser, AdmitProfile, AuthReturn,
       AuthFind, AccountSharingCheck, AuthUndo, AuthSwitch, close_child, Crash,
       ExitChild, semlock_lock, Quit, Authenticate, Statistics, StatisticsEnds,
       Signal
  <2>2. listener.at = "fork" => client'[listener.slot] = client[listener.slot]
    BY <1>1, OwnSlotOnly DEF SessionInv, ListenerOwns
  <2> QED BY <2>1, <2>2 DEF Names
<1>4. ASSUME NEW q \in Procs, pc[q] \in Active, pc'[q] \in Active,
             me(q)'.user = me(q).user, HostNamed(q)
      PROVE  HostNamed(q)'
  <2>1. ASSUME me(q).user # NULL
        PROVE  user'[me(q).user].key \notin AuthUsers
    <3>1. slot[q] \in Slots /\ slot'[q] \in Slots
      BY <1>1, <1>4 DEF SessionInv, OwnsSlot
    <3>2. me(q).user \in Used /\ me(q).user \in Used'
      BY <1>1, <1>4, <2>1, <3>1, ReferredKeys, ReferredAfter DEF me
    <3>3. user'[me(q).user].key = user[me(q).user].key
      BY <3>2, KeysStay
    <3> QED BY <1>4, <2>1, <3>3 DEF HostNamed
  <2> QED BY <1>4, <2>1 DEF HostNamed
<1>5. ASSUME NEW q \in Procs, newuser[q] # NULL, newuser'[q] = newuser[q],
             user[newuser[q]].key \in AuthUsers
      PROVE  user'[newuser'[q]].key \in AuthUsers
  <2>1. newuser[q] \in Used /\ newuser[q] \in Used'
    BY <1>1, <1>5, ReferredKeys, ReferredAfter
  <2>2. user'[newuser[q]].key = user[newuser[q]].key
    BY <2>1, KeysStay
  <2> QED BY <1>5, <2>2
<1>6. ASSUME NEW q \in Procs, pc'[q] \in Active, q # p
      PROVE  /\ pc'[q] \in {"start", "init", "reg_lock", "reg_cs",
                            "admit_user", "admit_profile", "auth_lock",
                            "auth_cs"} =>
                   ~me(q)'.authenticated
             /\ pc'[q] \in Pending => me(q)'.authenticated
             /\ ~me(q)'.authenticated \/ pc'[q] \in Pending => HostNamed(q)'
             /\ newuser'[q] # NULL => user'[newuser'[q]].key \in AuthUsers
  BY <1>2, <1>4, <1>5, <1>6 DEF Names
<1>7. ASSUME pc'[p] \in Active
      PROVE  /\ ~me(p)'.authenticated \/ pc'[p] \in Pending => HostNamed(p)'
             /\ newuser'[p] # NULL => user'[newuser'[p]].key \in AuthUsers
  <2>1. ~me(p)'.authenticated \/ pc'[p] \in Pending => HostNamed(p)'
    BY <1>4, <1>7 DEF HostNamed
  <2>2. newuser'[p] # NULL => user'[newuser'[p]].key \in AuthUsers
    BY <1>5, <1>7 DEF Names
  <2> QED BY <2>1, <2>2
<1> QED BY <1>3, <1>6, <1>7 DEF Names

LEMMA ChildNames ==
    ASSUME SafeSignals, HostsApart, UserInv, Names, UserInv',
           NEW p \in Procs, Child(p)
    PROVE  Names'
<1> USE DEF Points, Registered, Serving, Holding, Waiting, Profiled, Pending
<1>1. /\ SessionInv /\ TypeOK /\ client \in [Slots -> ClientRecord]
  BY DEF UserInv, SessionInv, TypeOK, ClientRecord
<1>2. ASSUME NEW point, Goto(p, point)
      PROVE  pc'[p] = point
  BY <1>1, <1>2 DEF Goto, TypeOK
<1>3. pc[p] \in Active =>
        /\ pc[p] \in {"start", "init", "reg_lock", "reg_cs", "admit_user",
                      "admit_profile", "auth_lock", "auth_cs"} =>
              ~me(p).authenticated
        /\ pc[p] \in Pending => me(p).authenticated
        /\ ~me(p).authenticated \/ pc[p] \in Pending => HostNamed(p)
        /\ newuser[p] # NULL => user[newuser[p]].key \in AuthUsers
  BY DEF Names
<1>4. CASE Register(p)
  <2>1. /\ pc[p] \in Active /\ pc[p] = "reg_cs" /\ slot[p] \in Slots
        /\ me(p).ip4addr \in Ips /\ me(p).profile \in Profiles
        /\ UNCHANGED <<newuser, slot>> /\ pc'[p] = "admit_user"
    BY <1>1, <1>2, <1>4, ChildFacts DEF Register, Active, locals
  <2>2. PICK u \in Users \cup {NULL} :
          /\ find_user(HostKey[me(p).ip4addr], me(p).profile, u)
          /\ client' = [client EXCEPT ![slot[p]].user = u]
    BY <1>4 DEF Register
  <2>3. /\ me(p)'.user = u
        /\ me(p)'.authenticated = me(p).authenticated
    BY <1>1, <2>1, <2>2 DEF me, ClientRecord
  <2>4. HostKey[me(p).ip4addr] \in Keys \ AuthUsers
    <3>1. \A ip \in Ips : HostKey[ip] \in Keys
      BY ConfigAssumption
    <3> QED BY <2>1, <3>1 DEF HostsApart
  <2>5. u # NULL => user'[u].key = HostKey[me(p).ip4addr]
    BY <1>1, <2>1, <2>2, <2>4, FoundEntry
  <2> QED BY <1>3, <1>4, <2>1, <2>3, <2>4, <2>5, NamesStep
<1>5. CASE AuthFind(p)
  <2>1. pc[p] \in Active /\ slot[p] \in Slots /\ pc[p] = "auth_cs"
        /\ UNCHANGED slot
    BY <1>1, <1>5, ChildFacts DEF AuthFind, Active
  <2>2. PICK k, f, u, point :
          /\ k \in Keys \cap AuthUsers /\ f \in Profiles
          /\ u \in Users \cup {NULL}
          /\ find_user(k, f, u)
          /\ newuser' = [newuser EXCEPT ![p] = u]
          /\ point \in {"undo_cs", "as_check", "switch_cs"}
          /\ Goto(p, point)
    BY <1>1, <1>5, AuthFindCall, SessionStructure
  <2>3. me(p)'.user = me(p).user /\ me(p)'.authenticated
    <3>1. client' = [client EXCEPT ![slot[p]].authenticated = TRUE]
      BY <1>5 DEF AuthFind
    <3> QED BY <1>1, <2>1, <3>1 DEF me, ClientRecord
  <2>4. newuser'[p] = u /\ pc'[p] \in {"undo_cs", "as_check", "switch_cs"}
    BY <1>1, <1>2, <2>2 DEF TypeOK
  <2>5. u # NULL => user'[u].key = k
    BY <1>1, <2>2, FoundEntry
  <2> QED BY <1>3, <1>5, <2>1, <2>2, <2>3, <2>4, <2>5, NamesStep
<1>6. CASE AuthUndo(p)
  <2>1. pc[p] \in Active /\ slot[p] \in Slots /\ pc[p] = "undo_cs"
        /\ UNCHANGED slot /\ newuser'[p] = NULL /\ pc'[p] \in {"loop", "close"}
    BY <1>1, <1>2, <1>6, ChildFacts DEF AuthUndo, Active, TypeOK
  <2>2. me(p)'.user = me(p).user
    BY <1>1, <1>6, <2>1 DEF AuthUndo, me, ClientRecord
  <2> QED BY <1>3, <1>6, <2>1, <2>2, NamesStep
<1>7. CASE AuthSwitch(p)
  <2>1. pc[p] \in Active /\ slot[p] \in Slots /\ pc[p] = "switch_cs"
        /\ UNCHANGED slot /\ newuser'[p] = NULL /\ pc'[p] \in {"loop", "close"}
    BY <1>1, <1>2, <1>7, ChildFacts DEF AuthSwitch, Active, TypeOK
  <2>2. me(p)'.authenticated = me(p).authenticated
        /\ me(p)'.user = newuser[p]
    BY <1>1, <1>7, <2>1 DEF AuthSwitch, me, ClientRecord
  <2>3. me(p).authenticated
    BY <1>3, <2>1
  <2> QED BY <1>3, <1>7, <2>1, <2>2, <2>3, NamesStep
<1>8. CASE InitClient(p) \/ ReadCount(p)
  <2>1. /\ pc[p] \in {"start", "init"} /\ slot[p] \in Slots /\ UNCHANGED slot
        /\ pc[p] \in Active /\ pc'[p] \in {"init", "reg_lock"}
        /\ UNCHANGED newuser
    BY <1>1, <1>2, <1>8, ChildFacts DEF InitClient, ReadCount, Active
  <2>2. /\ me(p)'.user = me(p).user
        /\ me(p)'.authenticated = me(p).authenticated
    BY <1>1, <1>8, <2>1 DEF InitClient, ReadCount, me, ClientRecord
  <2> QED BY <1>3, <1>8, <2>1, <2>2, NamesStep
<1>9. CASE AffinityFails(p) \/ close_child(p) \/ Crash(p) \/ ExitChild(p)
  <2>1. pc'[p] \in {"none", "exit"}
    BY <1>2, <1>9 DEF AffinityFails, close_child, Crash, ExitChild, Exit
  <2> QED BY <1>9, <2>1, NamesStep DEF Active
<1>10. CASE semlock_lock(p)
  <2>1. /\ pc'[p] = LockNext[pc[p]] /\ pc[p] \in Waiting
        /\ UNCHANGED <<client, slot, newuser>>
    BY <1>2, <1>10 DEF semlock_lock, locals
  <2>2. /\ pc[p] \in Active /\ me(p)' = me(p)
        /\ pc'[p] \in Pending => pc[p] \in Pending
        /\ pc'[p] \in {"start", "init", "reg_lock", "reg_cs",
                       "admit_user", "admit_profile", "auth_lock",
                       "auth_cs"} => pc[p] \in {"reg_lock", "auth_lock"}
    BY <2>1 DEF LockNext, Active, me
  <2> QED BY <1>3, <1>10, <2>1, <2>2, NamesStep
<1>11. CASE Refuse(p) \/ AdmitUser(p) \/ AdmitProfile(p)
            \/ AuthReject(p) \/ AccountSharingCheck(p) \/ Quit(p)
            \/ Authenticate(p) \/ Statistics(p) \/ StatisticsEnds(p)
            \/ Signal(p)
  <2>1. UNCHANGED <<client, newuser, slot>>
    BY <1>11, AuthRejectReturns DEF Refuse, AdmitUser, AdmitProfile,
       AuthReturn, AccountSharingCheck, Quit, Authenticate, Statistics,
       StatisticsEnds, Signal, locals
  <2>2. me(p)' = me(p)
    BY <2>1 DEF me
  <2>3. \/ \E point \in {"close", "loop", "stat_lock"} :
              Goto(p, point) /\ pc[p] \in Active
        \/ Goto(p, "admit_profile") /\ pc[p] = "admit_user"
        \/ Goto(p, "auth_lock") /\ pc[p] = "loop" /\ ~me(p).authenticated
        \/ \E point \in {"as_lock", "undo_lock"} :
              Goto(p, point) /\ pc[p] = "as_check"
    <3>1. SignalPoints \subseteq Active
      BY FaultAssumption, SafeIsNotLate DEF Active, NoLateSignal
    <3> QED BY <1>11, <3>1, AuthRejectReturns DEF Refuse, AdmitUser,
       AdmitProfile, AuthReturn, AccountSharingCheck, Quit, Authenticate,
       Statistics, StatisticsEnds, Signal, Active
  <2>4. \/ pc'[p] \in {"close", "loop", "stat_lock"} /\ pc[p] \in Active
        \/ pc'[p] = "admit_profile" /\ pc[p] = "admit_user"
        \/ /\ pc'[p] = "auth_lock" /\ pc[p] = "loop"
           /\ ~me(p).authenticated
        \/ pc'[p] \in {"as_lock", "undo_lock"} /\ pc[p] = "as_check"
    BY <1>2, <2>3
  <2>5. pc[p] \in Active
    BY <2>4 DEF Active
  <2> QED BY <1>3, <1>11, <2>1, <2>2, <2>4, <2>5, NamesStep
<1> QED BY <1>4, <1>5, <1>6, <1>7, <1>8, <1>9, <1>10, <1>11
        DEF Child, Advance

LEMMA NextNames ==
    ASSUME SafeSignals, HostsApart, UserInv, Names, UserInv', [Next]_vars
    PROVE  Names'
<1>1. /\ SessionInv /\ TypeOK /\ client \in [Slots -> ClientRecord]
  BY DEF UserInv, SessionInv, TypeOK, ClientRecord
<1>2. \A q \in Procs : pc[q] \in Active =>
        slot[q] \in Slots /\ client[slot[q]].inuse
  BY <1>1 DEF SessionInv, OwnsSlot, me
<1>3. CASE UNCHANGED <<client, user, newuser, pc, slot>>
           /\ (listener' = listener \/ listener'.at # "fork")
  BY <1>3 DEF Names, HostNamed, me
<1>4. CASE find_slot
  <2>1. UNCHANGED <<user, newuser, pc, slot>>
    <3>1. UNCHANGED <<table, newuser, pc, slot>>
      BY <1>4 DEF find_slot, locals
    <3> QED BY <3>1 DEF table
  <2>0. \/ \E s \in Slots :
             /\ ~client[s].inuse
             /\ client' = [client EXCEPT ![s] =
                  [FreeClient EXCEPT !.inuse = TRUE,
                                     !.ip4addr = listener.ip]]
             /\ listener' = [listener EXCEPT !.at = "fork", !.slot = s]
        \/ listener' = Idle /\ UNCHANGED client
    BY <1>4 DEF find_slot, Least, FreeSlots
  <2>2. \A s \in Slots : client[s].inuse => client'[s] = client[s]
    BY <1>1, <2>0
  <2>3. listener'.at = "fork" => ~client'[listener'.slot].authenticated
    <3>1. ASSUME NEW s \in Slots,
                 client' = [client EXCEPT ![s] =
                     [FreeClient EXCEPT !.inuse = TRUE,
                                        !.ip4addr = listener.ip]],
                 listener' = [listener EXCEPT !.at = "fork", !.slot = s]
          PROVE  ~client'[listener'.slot].authenticated
      BY <1>1, <3>1 DEF FreeClient, TypeOK
    <3>2. listener' = Idle => listener'.at # "fork"
      BY DEF Idle
    <3> QED BY <2>0, <3>1, <3>2
  <2>4. \A q \in Procs : pc[q] \in Active => me(q)' = me(q)
    BY <1>2, <2>1, <2>2 DEF me
  <2> QED BY <2>1, <2>3, <2>4 DEF Names, HostNamed
<1>5. ASSUME NEW p \in Procs, Fork(p)
      PROVE  Names'
  <2>1. /\ pc' = [pc EXCEPT ![p] = "start"] /\ pc[p] = "none"
        /\ slot' = [slot EXCEPT ![p] = listener.slot]
        /\ listener' = Idle /\ listener.at = "fork"
        /\ UNCHANGED <<client, user, newuser>>
    BY <1>5 DEF Fork, table
  <2>2. /\ pc'[p] = "start" /\ me(p)' = client[listener.slot]
        /\ \A q \in Procs : q # p => pc'[q] = pc[q] /\ me(q)' = me(q)
    BY <1>1, <2>1 DEF TypeOK, me
  <2>3. client[listener.slot].user = NULL /\ newuser[p] = NULL
        /\ ~client[listener.slot].authenticated
    BY <1>1, <2>1 DEF SessionInv, ListenerOwns, ClientFacts, ClosesWhole,
       Names, Pending
  <2>4. \A q \in Procs : q # p => (HostNamed(q)' <=> HostNamed(q))
    BY <2>1, <2>2 DEF HostNamed
  <2>5. HostNamed(p)'
    BY <2>2, <2>3 DEF HostNamed
  <2>6. listener'.at # "fork"
    BY <2>1 DEF Idle
  <2> QED BY <2>1, <2>2, <2>3, <2>4, <2>5, <2>6 DEF Names, Pending
<1>6. ASSUME NEW p \in Procs, Child(p)
      PROVE  Names'
  BY <1>6, ChildNames
<1>7. CASE UNCHANGED vars
  BY <1>3, <1>7 DEF vars, table, locals
<1>8. CASE (\E ip \in Ips : access_check(ip) \/ access_refused(ip)) \/ ForkFails
  <2>1. /\ UNCHANGED <<client, table, locals, pc>>
        /\ \/ listener' = listener
           \/ listener' = Idle
           \/ \E ip : listener' = [listener EXCEPT !.at = "reserve", !.ip = ip]
    BY <1>8 DEF access_check, access_refused, ForkFails, vars
  <2>2. listener' = listener \/ listener'.at # "fork"
    <3>1. \A ip : [listener EXCEPT !.at = "reserve", !.ip = ip].at # "fork"
      BY <1>1 DEF TypeOK
    <3>2. Idle.at # "fork"
      BY DEF Idle
    <3> QED BY <2>1, <3>1, <3>2
  <2> QED BY <1>3, <2>1, <2>2 DEF table, locals
<1> QED BY <1>4, <1>5, <1>6, <1>7, <1>8 DEF Next, Listen
\* A child that a step adds to the sessions of a user, or gives another limit,
\* has just been found within the limit.
LEMMA CheckedByStep ==
    ASSUME LimitInv, PlacedInv', Names', NEW p \in Procs, Child(p),
           NEW u \in Users, (p \in Checked(u))'
    PROVE  \/ p \in Checked(u) /\ Limits(u)'[p] = Limits(u)[p]
           \/ Cardinality(Checked(u)') <= Limits(u)'[p]
<1> USE DEF Points, Registered, Serving, Holding, Waiting, Profiled, Pending
<1>1. /\ SessionInv /\ TypeOK /\ UserInv /\ Names /\ Placed
      /\ SessionInv' /\ UserConnections' /\ Placed'
      /\ client \in [Slots -> ClientRecord]
  BY DEF LimitInv, PlacedInv, HeldInv, TableInv, UserInv, SessionInv, TypeOK,
     ClientRecord
<1>2. ASSUME NEW point, Goto(p, point)
      PROVE  pc'[p] = point
  BY <1>1, <1>2 DEF Goto, TypeOK
<1>3. /\ pc'[p] \in Serving \cup {"admit_profile"}
      /\ Stays(p, u)' \/ Comes(p, u)'
      /\ u # NULL
  BY DEF Checked, Stays, Comes, Moving, Users, NULL
<1>4. Cardinality(Checked(u)') <= user'[u].connections
  BY <1>1, CheckedAfter
<1>15. \A f \in Profiles : MaxUserConcurrent[f] \in Nat
  BY ConfigAssumption
<1>16. user'[u].connections \in Nat /\ Cardinality(Checked(u)') \in Nat
  <2>1. user'[u].connections \in UInt
    BY <1>1 DEF SessionInv, TypeOK
  <2>2. Checked(u)' \subseteq Procs
    BY DEF Checked
  <2> QED BY <2>1, <2>2, ProcSubset, SizeAssumption DEF UInt
<1>5. ASSUME newuser[p] = u, pc[p] \in Pending, me(p).user = u
      PROVE  FALSE
  <2>1. pc[p] \in Active
    BY <1>5 DEF Active
  <2> QED BY <1>1, <1>3, <1>5, <2>1 DEF Names, HostNamed
<1>6. CASE /\ UNCHANGED <<client, slot, newuser, newprf>>
           /\ pc[p] \in Serving \cup {"admit_profile"}
           /\ pc'[p] \in Moving => pc[p] \in Moving
  <2>1. me(p)' = me(p)
    BY <1>6 DEF me
  <2>2. (Stays(p, u)' => Stays(p, u)) /\ (Comes(p, u)' => Comes(p, u))
    BY <1>6, <2>1 DEF Stays, Comes
  <2>3. Limits(u)'[p] = Limits(u)[p]
    BY <1>6, <2>1 DEF Limits
  <2> QED BY <1>3, <2>2, <2>3 DEF Checked
<1>7. CASE AdmitUser(p)
  <2>1. /\ pc[p] \in Active /\ pc[p] = "admit_user"
        /\ pc'[p] = "admit_profile" /\ newuser[p] = NULL
        /\ UNCHANGED <<client, slot, newuser, newprf, user>>
    BY <1>1, <1>2, <1>7, ChildFacts DEF AdmitUser, Active, locals, table
  <2>2. me(p)' = me(p) /\ ~me(p).authenticated
    BY <1>1, <2>1 DEF me, Names
  <2>3. me(p).user = u /\ me(p).ip4addr \notin Unlimit
    BY <1>3, <2>1, <2>2 DEF Stays, Comes, Moving
  <2>4. user'[u].connections <= MaxUserConcurrent[me(p).profile]
    BY <1>7, <2>1, <2>3 DEF AdmitUser
  <2>5. Limits(u)'[p] = MaxUserConcurrent[me(p).profile]
    BY <1>3, <2>1, <2>2 DEF Limits
  <2>6. MaxUserConcurrent[me(p).profile] \in Nat
    BY <1>1, <1>15, <2>1, ChildFacts
  <2> QED BY <1>4, <1>16, <2>4, <2>5, <2>6
<1>8. CASE AuthFind(p)
  <2>1. /\ pc[p] \in Active /\ pc[p] = "auth_cs" /\ newuser[p] = NULL
        /\ slot[p] \in Slots /\ UNCHANGED slot
    BY <1>1, <1>8, ChildFacts DEF AuthFind, Active
  <2>2. PICK f, w :
          /\ w \in Users \cup {NULL}
          /\ newuser' = [newuser EXCEPT ![p] = w]
          /\ newprf' = [newprf EXCEPT ![p] = f]
          /\ \/ Goto(p, "undo_cs")
             \/ /\ \/ w \in {me(p).user, NULL}
                   \/ ~(user'[w].connections > MaxUserConcurrent[f])
                /\ Goto(p, "as_check") \/ Goto(p, "switch_cs")
    BY <1>8 DEF AuthFind
  <2>3. /\ newuser'[p] = w /\ newprf'[p] = f
        /\ pc'[p] \in {"undo_cs", "as_check", "switch_cs"}
        /\ pc'[p] \in Moving =>
              \/ w \in {me(p).user, NULL}
              \/ ~(user'[w].connections > MaxUserConcurrent[f])
    BY <1>1, <1>2, <2>2 DEF TypeOK, Moving
  <2>4. /\ me(p)'.user = me(p).user /\ me(p)'.profile = me(p).profile
        /\ me(p)'.ip4addr = me(p).ip4addr
    <3>1. client' = [client EXCEPT ![slot[p]].authenticated = TRUE]
      BY <1>8 DEF AuthFind
    <3> QED BY <1>1, <2>1, <3>1 DEF me, ClientRecord
  <2>5. w # NULL /\ ~(w = u /\ me(p).user = u)
    <3>1. w # NULL
      BY <1>1, <2>3 DEF Placed
    <3>2. /\ user'[w].key \in AuthUsers
          /\ me(p)'.user # NULL => user'[me(p)'.user].key \notin AuthUsers
      BY <2>3, <3>1 DEF Names, HostNamed, Active
    <3> QED BY <1>3, <2>4, <3>1, <3>2
  <2>6. CASE Stays(p, u)'
    <3>1. me(p).user = u /\ me(p).ip4addr \notin Unlimit
      BY <2>3, <2>4, <2>5, <2>6 DEF Stays
    <3>2. p \in Checked(u)
      BY <2>1, <3>1 DEF Checked, Stays
    <3>3. Limits(u)'[p] = Limits(u)[p]
      BY <1>3, <2>1, <2>3, <2>4, <2>5, <3>1 DEF Limits
    <3> QED BY <3>2, <3>3
  <2>7. CASE Comes(p, u)'
    <3>1. w = u /\ ~(user'[u].connections > MaxUserConcurrent[f])
      BY <2>3, <2>5, <2>7 DEF Comes
    <3>2. Limits(u)'[p] = MaxUserConcurrent[f]
      BY <2>3, <3>1 DEF Limits
    <3>3. MaxUserConcurrent[f] \in Nat
      <4>1. newprf'[p] \in Profiles
        BY <1>1, <2>3 DEF SessionInv, ClientFacts
      <4> QED BY <1>15, <2>3, <4>1
    <3> QED BY <1>4, <1>16, <3>1, <3>2, <3>3
  <2> QED BY <1>3, <2>6, <2>7
<1>9. CASE AuthUndo(p)
  <2>1. /\ pc[p] \in Active /\ pc[p] = "undo_cs" /\ slot[p] \in Slots
        /\ UNCHANGED slot /\ newuser'[p] = NULL
        /\ client' = [client EXCEPT ![slot[p]].authenticated = FALSE]
        /\ pc'[p] \in {"loop", "close"}
    BY <1>1, <1>2, <1>9, ChildFacts DEF AuthUndo, Active, TypeOK
  <2>2. /\ me(p)'.user = me(p).user /\ me(p)'.profile = me(p).profile
        /\ me(p)'.ip4addr = me(p).ip4addr /\ ~me(p)'.authenticated
    BY <1>1, <2>1 DEF me, ClientRecord
  <2>3. me(p).user = u /\ me(p).ip4addr \notin Unlimit
    BY <1>3, <2>1, <2>2 DEF Stays, Comes, Moving
  <2>4. p \in Checked(u)
    BY <2>1, <2>3 DEF Checked, Stays
  <2>5. newuser[p] # u /\ newuser'[p] # u
    BY <1>3, <1>5, <2>1, <2>3
  <2>6. Limits(u)'[p] = Limits(u)[p]
    BY <2>2, <2>5 DEF Limits
  <2> QED BY <2>4, <2>6
<1>10. CASE AuthSwitch(p)
  <2>1. /\ pc[p] \in Active /\ pc[p] = "switch_cs" /\ slot[p] \in Slots
        /\ UNCHANGED slot /\ newuser'[p] = NULL
        /\ client' = [client EXCEPT ![slot[p]].profile = newprf[p],
                                    ![slot[p]].user = newuser[p]]
        /\ pc'[p] \in {"loop", "close"}
    BY <1>1, <1>2, <1>10, ChildFacts DEF AuthSwitch, Active, TypeOK
  <2>2. me(p)'.user = newuser[p] /\ me(p)'.profile = newprf[p]
    BY <1>1, <2>1 DEF me, ClientRecord
  <2>3. newuser[p] = u
    BY <1>3, <2>1, <2>2 DEF Stays, Comes, Moving
  <2>4. p \in Checked(u)
    BY <2>1, <2>3 DEF Checked, Comes, Moving
  <2>5. Limits(u)'[p] = Limits(u)[p]
    BY <1>3, <2>1, <2>2, <2>3 DEF Limits
  <2> QED BY <2>4, <2>5
<1>11. CASE semlock_lock(p)
  <2>1. /\ pc'[p] = LockNext[pc[p]] /\ pc[p] \in Waiting
        /\ UNCHANGED <<client, slot, newuser, newprf>>
    BY <1>2, <1>11 DEF semlock_lock, locals
  <2>2. /\ pc[p] \in Serving \cup {"admit_profile"}
        /\ pc'[p] \in Moving => pc[p] \in Moving
    BY <1>3, <2>1 DEF LockNext, Moving
  <2> QED BY <1>6, <2>1, <2>2
<1>12. CASE AccountSharingCheck(p)
  <2>1. pc[p] = "as_check" /\ UNCHANGED <<client, slot, newuser, newprf>>
    BY <1>12 DEF AccountSharingCheck, locals
  <2> QED BY <1>6, <2>1 DEF Moving
<1>13. CASE AdmitProfile(p) \/ AuthReject(p) \/ Authenticate(p)
            \/ Statistics(p) \/ StatisticsEnds(p)
  <2>1. /\ pc[p] \in {"admit_profile", "auth_cs", "loop", "stat_cs"}
        /\ UNCHANGED <<client, slot, newuser, newprf>>
    BY <1>13, AuthRejectReturns DEF AdmitProfile, AuthReturn, Authenticate,
       Statistics, StatisticsEnds, locals
  <2>2. \E point \in {"close", "loop", "auth_lock", "stat_lock"} :
            Goto(p, point)
    BY <1>13, AuthRejectReturns DEF AdmitProfile, AuthReturn, Authenticate,
       Statistics, StatisticsEnds
  <2>3. pc'[p] \notin Moving
    BY <1>2, <2>2 DEF Moving
  <2> QED BY <1>6, <2>1, <2>3
<1>14. CASE ReadCount(p) \/ InitClient(p) \/ AffinityFails(p) \/ Register(p)
            \/ Refuse(p) \/ close_child(p) \/ Crash(p) \/ ExitChild(p)
            \/ Quit(p) \/ Signal(p)
  <2>1. \E point \in {"init", "reg_lock", "none", "admit_user", "exit",
                      "close"} : Goto(p, point)
    BY <1>14 DEF ReadCount, InitClient, AffinityFails, Register, Refuse,
       close_child, Crash, ExitChild, Quit, Signal, Exit
  <2> QED BY <1>2, <1>3, <2>1
<1> QED BY <1>7, <1>8, <1>9, <1>10, <1>11, <1>12, <1>13, <1>14
        DEF Child, Advance

LEMMA NextLimits ==
    ASSUME LimitInv, PlacedInv', Names', [Next]_vars, NEW u \in Users
    PROVE  Within(Checked(u), Limits(u))'
<1> DEFINE S == Checked(u)
           T == Checked(u)'
           b == Limits(u)
           c == Limits(u)'
<1>1. /\ SessionInv /\ TypeOK /\ SessionInv' /\ Within(S, b)
  BY DEF LimitInv, PlacedInv, HeldInv, TableInv, UserInv, SessionInv
<1>2. S \subseteq Procs /\ T \subseteq Procs
  BY DEF Checked
<1>3. \A q \in T : c[q] \in Nat
  BY <1>1, LimitsAfter
<1>4. ASSUME NEW x, \A y \in T : y # x => y \in S /\ c[y] = b[y],
             x \in T => \/ x \in S /\ c[x] = b[x]
                        \/ Cardinality(T) <= c[x]
      PROVE  Within(T, c)
  <2> HIDE DEF S, T, b, c
  <2> QED BY <1>1, <1>2, <1>3, <1>4, WithinChange
<1>5. ASSUME NEW q \in Procs, pc'[q] = pc[q], newuser'[q] = newuser[q],
             newprf'[q] = newprf[q],
             pc[q] \in Serving \cup {"admit_profile"} => me(q)' = me(q)
      PROVE  q \in T => q \in S /\ c[q] = b[q]
  <2>1. Moving \subseteq Serving
    BY DEF Moving, Serving
  <2> QED BY <1>5, <2>1 DEF Checked, Stays, Comes, Limits
<1>6. Serving \cup {"admit_profile"} \subseteq Active
  BY DEF Active, Points, Serving, Registered
<1>7. ASSUME NEW p \in Procs, Child(p)
      PROVE  Within(T, c)
  <2>1. \A q \in Procs : q # p =>
          /\ pc'[q] = pc[q] /\ newuser'[q] = newuser[q]
          /\ newprf'[q] = newprf[q]
          /\ pc[q] \in Serving \cup {"admit_profile"} => me(q)' = me(q)
    BY <1>1, <1>6, <1>7, OwnClient DEF me
  <2>2. \A q \in T : q # p => q \in S /\ c[q] = b[q]
    BY <1>2, <1>5, <2>1
  <2>3. p \in T => \/ p \in S /\ c[p] = b[p]
                   \/ Cardinality(T) <= c[p]
    BY <1>7, CheckedByStep
  <2> QED BY <1>4, <2>2, <2>3
<1>8. CASE Listen \/ UNCHANGED vars
  <2>1. UNCHANGED <<newuser, newprf>>
    BY <1>8 DEF Listen, access_check, access_refused, find_slot, Fork,
       ForkFails, vars, locals
  <2>2. ASSUME NEW q \in Procs, q \in T
        PROVE  pc'[q] = pc[q] /\ (pc[q] \in Active => me(q)' = me(q))
    <3>1. pc'[q] \in Active
      BY <1>6, <2>2 DEF Checked, Stays, Comes, Moving, Serving
    <3>2. CASE UNCHANGED <<client, pc, slot>>
      BY <3>2 DEF me
    <3>3. CASE find_slot
      <4>1. UNCHANGED <<pc, slot>>
        BY <3>3 DEF find_slot, locals
      <4>2. \A s \in Slots : client[s].inuse => client'[s] = client[s]
        BY <1>1, <3>3 DEF find_slot, Least, FreeSlots, TypeOK
      <4>3. slot[q] \in Slots /\ client[slot[q]].inuse
        BY <1>1, <2>2, <3>1, <4>1 DEF SessionInv, OwnsSlot, me
      <4> QED BY <4>1, <4>2, <4>3 DEF me
    <3>4. ASSUME NEW p \in Procs, Fork(p)
          PROVE  pc'[q] = pc[q] /\ (pc[q] \in Active => me(q)' = me(q))
      <4>1. /\ pc' = [pc EXCEPT ![p] = "start"]
            /\ slot' = [slot EXCEPT ![p] = listener.slot]
            /\ UNCHANGED client
        BY <3>4 DEF Fork
      <4>2. q # p
        BY <1>1, <2>2, <4>1 DEF TypeOK, Checked, Stays, Comes, Moving, Serving
      <4> QED BY <1>1, <4>1, <4>2 DEF TypeOK, me
    <3> QED BY <1>8, <3>2, <3>3, <3>4 DEF Listen, access_check,
            access_refused, ForkFails, vars, locals
  <2>3. \A y \in T : y \in S /\ c[y] = b[y]
    BY <1>2, <1>5, <1>6, <2>1, <2>2
  <2> QED BY <1>4, <2>3
<1>9. Within(T, c)
  BY <1>7, <1>8 DEF Next
<1> QED BY <1>9

LEMMA LimitInvariant ==
    ASSUME SafeSignals, Roomy, HostsApart
    PROVE  Spec => []LimitInv
<1> DEFINE AllWithin == \A u \in Users : Within(Checked(u), Limits(u))
<1>1. Init => Names /\ AllWithin
  <2> SUFFICES ASSUME Init PROVE Names /\ AllWithin
    OBVIOUS
  <2>1. Names
    BY DEF Init, Names, Idle, Active
  <2>2. \A u : Checked(u) = {}
    BY DEF Init, Checked, Stays, Comes, Serving, Moving
  <2>3. \A u : \A m \in Nat :
           Cardinality({p \in Checked(u) : Limits(u)[p] <= m}) <= m
    BY <2>2, FS_EmptySet
  <2> QED BY <2>1, <2>3 DEF Within
<1>2. PlacedInv /\ PlacedInv' /\ Names /\ [Next]_vars => Names'
  BY NextNames DEF PlacedInv, HeldInv, TableInv
<1>3. /\ PlacedInv /\ PlacedInv' /\ Names /\ Names' /\ AllWithin
      /\ [Next]_vars
      => AllWithin'
  <2> SUFFICES ASSUME PlacedInv, PlacedInv', Names, Names', AllWithin,
                      [Next]_vars, NEW u \in Users
               PROVE  Within(Checked(u), Limits(u))'
    BY DEF Users
  <2> QED BY NextLimits DEF LimitInv
<1>4. PlacedInv /\ Names /\ AllWithin => LimitInv
  BY DEF LimitInv
<1> HIDE DEF AllWithin
<1> QED BY <1>1, <1>2, <1>3, <1>4, PlacedInvariant, PTL DEF Spec

\* The sessions a user has been admitted or authenticated with stay within the
\* MaxUserConcurrent of one of them, although run_child reads the count without
\* the semaphore and cmdauthinfo gives it back while it asks the account
\* sharing service: provided no host is named like a user and the table has
\* room.  (An AUTHINFO that finds no entry leaves its session authenticated
\* under the name of its host, until it crashes.)
THEOREM UserLimitKept ==
    ASSUME SafeSignals, Roomy, HostsApart
    PROVE  Spec => []UserLimit
<1>1. LimitInv => UserLimit
  BY WithinLimit
<1> QED BY <1>1, LimitInvariant, PTL
=============================================================================
