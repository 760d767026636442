---------------------------- MODULE Roster_proofs ----------------------------
(***************************************************************************)
(* Sessions implements Roster, for every number of children, slots and     *)
(* users and every configuration: every step of the listener, of a child   *)
(* or of a signal handler is a step of the roster or changes nothing in it.*)
(*                                                                         *)
(* The argument rests on the counters: an entry of the USER table changes  *)
(* its key only when nobody refers to it (UserConnections), so that no     *)
(* client is renamed by another's steps, and PROFILE.connections counts    *)
(* the roster (ProfileConnections).                                        *)
(***************************************************************************)
EXTENDS Sessions_proofs, SessionRoster

-----------------------------------------------------------------------------
(* Who refers to an entry, and when its key changes.                       *)

LEMMA TwoIn ==
    ASSUME NEW S, IsFiniteSet(S), NEW x \in S, NEW y \in S, x # y
    PROVE  Cardinality(S) > 1
<1> DEFINE T == S \ {x}
<1>1. IsFiniteSet(T) /\ Cardinality(T) = Cardinality(S) - 1
  BY FS_RemoveElement
<1>2. y \in T
  OBVIOUS
<1>3. Cardinality(T) \in Nat /\ Cardinality(S) \in Nat
  BY <1>1, FS_CardinalityType
<1> HIDE DEF T
<1>4. Cardinality(T) # 0
  BY <1>1, <1>2, FS_EmptySet
<1> QED BY <1>1, <1>3, <1>4

\* p's client, or its pending AUTHINFO, refers to the entry.
Holds(p, u) == \/ pc[p] \in Active /\ me(p).user = u
               \/ newuser[p] = u

\* Each child that refers to an entry is counted in it.
LEMMA HoldersCounted ==
    ASSUME UserInv, NEW u \in Users, NEW q \in Procs, Holds(q, u)
    PROVE  /\ user[u].connections \in Nat \ {0}
           /\ \A p \in Procs : p # q /\ Holds(p, u) => user[u].connections > 1
           /\ pc[q] \in Active /\ me(q).user = u /\ newuser[q] = u
                 => user[u].connections > 1
<1> DEFINE R == UserRefs(u)
           Q == UserPending(u)
<1>1. user[u].connections = Cardinality(R) + Cardinality(Q)
  BY DEF UserInv, UserConnections
<1>2. /\ IsFiniteSet(R) /\ Cardinality(R) \in Nat
      /\ IsFiniteSet(Q) /\ Cardinality(Q) \in Nat
  BY SlotSubset, ProcSubset DEF UserRefs, UserPending
<1>3. \A p \in Procs : Holds(p, u) =>
        \/ pc[p] \in Active /\ slot[p] \in R
        \/ p \in Q
  BY DEF Holds, UserRefs, UserPending, UserInv, SessionInv, OwnsSlot, me
<1>4. \A p \in Procs : /\ p # q /\ pc[p] \in Active /\ pc[q] \in Active
                       => slot[p] # slot[q]
  BY DEF UserInv, SessionInv, OwnsSlot
<1> HIDE DEF R, Q
<1>5. (R # {} => Cardinality(R) > 0) /\ (Q # {} => Cardinality(Q) > 0)
  BY <1>2, FS_EmptySet
<1>6. user[u].connections \in Nat \ {0}
  BY <1>1, <1>2, <1>3, <1>5
<1>7. ASSUME NEW p \in Procs, p # q, Holds(p, u)
      PROVE  user[u].connections > 1
  <2>1. CASE R # {} /\ Q # {}
    BY <1>1, <1>2, <1>5, <2>1
  <2>2. CASE Q = {}
    BY <1>1, <1>2, <1>3, <1>4, <1>5, <1>7, <2>2, TwoIn
  <2>3. CASE R = {}
    BY <1>1, <1>2, <1>3, <1>5, <1>7, <2>3, TwoIn
  <2> QED BY <2>1, <2>2, <2>3
<1>8. ASSUME pc[q] \in Active, me(q).user = u, newuser[q] = u
      PROVE  user[u].connections > 1
  <2>1. slot[q] \in R /\ q \in Q
    BY <1>8 DEF R, Q, UserRefs, UserPending, UserInv, SessionInv, OwnsSlot, me
  <2> QED BY <1>1, <1>2, <1>5, <2>1
<1> QED BY <1>6, <1>7, <1>8

\* find_user gives a new key to an empty entry only.
LEMMA FindUserKeys ==
    ASSUME TypeOK, EntriesUsed, NEW k \in Keys, NEW f \in Profiles,
           NEW u \in Users \cup {NULL}, find_user(k, f, u)
    PROVE  /\ u # NULL => user'[u].key = k
           /\ \A v \in Users : user'[v].key # user[v].key
                                  => user[v].connections = 0
<1>1. CASE /\ u \in Least(Known(k))
           /\ user' = [user EXCEPT ![u].connections = Inc(@)]
  BY <1>1 DEF TypeOK, Least, Known
<1>2. CASE /\ u \in Least(Known(NoKey))
           /\ user' = [user EXCEPT ![u] = [key |-> k, connections |-> 1]]
  BY <1>2 DEF TypeOK, EntriesUsed, Least, Known
<1>3. CASE u = NULL /\ UNCHANGED table
  BY <1>3 DEF table
<1> QED BY <1>1, <1>2, <1>3 DEF find_user

\* drop_user clears an entry with its last connection only.
LEMMA DropUserKeys ==
    ASSUME TypeOK, NEW u \in Users, NEW f, drop_user(u, f),
           user[u].connections \in Nat \ {0}
    PROVE  \A v \in Users : user'[v].key # user[v].key
                                => v = u /\ user[v].connections = 1
<1>1. Dec(user[u].connections) = user[u].connections - 1
  BY DEF Dec
<1>2. CASE /\ Dec(user[u].connections) = 0
           /\ user' = [user EXCEPT ![u] = EmptyUser]
  BY <1>1, <1>2 DEF TypeOK
<1>3. CASE user' = [user EXCEPT ![u].connections = Dec(@)]
  BY <1>3 DEF TypeOK
<1> QED BY <1>2, <1>3 DEF drop_user

\* The steps of a child that write the USER table.
LEMMA KeyChange ==
    ASSUME UserInv, NEW p \in Procs, Child(p), NEW v \in Users,
           user'[v].key # user[v].key
    PROVE  \/ user[v].connections = 0
           \/ /\ user[v].connections = 1 /\ Holds(p, v)
              /\ \/ pc[p] = "switch_cs" /\ me(p).user = v
                 \/ pc[p] = "close_cs" /\ me(p).user = v
                 \/ pc[p] = "undo_cs" /\ newuser[p] = v
<1>1. SessionInv /\ TypeOK /\ EntriesUsed
  BY DEF UserInv, SessionInv
<1>2. {"switch_cs", "close_cs", "undo_cs", "reg_cs", "auth_cs"} \subseteq Active
  BY DEF Active, Points, Registered, Serving, Holding
<1>3. CASE UNCHANGED user
  BY <1>3
<1>4. CASE Register(p)
  <2>1. PICK u \in Users \cup {NULL} :
           find_user(HostKey[me(p).ip4addr], me(p).profile, u)
    BY <1>4 DEF Register
  <2>2. HostKey[me(p).ip4addr] \in Keys /\ me(p).profile \in Profiles
    BY <1>1, <1>2, <1>4, ChildFacts, ConfigAssumption DEF Register, Profiled
  <2> QED BY <1>1, <2>1, <2>2, FindUserKeys
<1>5. CASE AuthFind(p)
  <2>1. PICK k, f, u : /\ k \in Keys /\ f \in Profiles
                       /\ u \in Users \cup {NULL} /\ find_user(k, f, u)
    BY <1>1, <1>5, AuthFindCall, SessionStructure
  <2> QED BY <1>1, <2>1, FindUserKeys
<1>6. CASE AuthUndo(p) /\ newuser[p] # NULL
  <2>1. /\ pc[p] = "undo_cs" /\ newuser[p] \in Users
        /\ drop_user(newuser[p], newprf[p])
    BY <1>1, <1>2, <1>6, ChildFacts DEF AuthUndo
  <2>2. Holds(p, newuser[p])
    BY DEF Holds
  <2> QED BY <1>1, <2>1, <2>2, HoldersCounted, DropUserKeys
<1>7. CASE AuthSwitch(p) \/ (close_child(p) /\ me(p).user # NULL)
  <2>1. /\ pc[p] \in {"switch_cs", "close_cs"} /\ me(p).user \in Users
        /\ drop_user(me(p).user, me(p).profile)
    BY <1>1, <1>2, <1>7, ChildFacts
    DEF AuthSwitch, close_child, Serving, ClientRecord
  <2>2. Holds(p, me(p).user)
    BY <1>2, <2>1 DEF Holds
  <2> QED BY <1>1, <2>1, <2>2, HoldersCounted, DropUserKeys
<1> QED BY <1>3, <1>4, <1>5, <1>6, <1>7, AuthRejectReturns
        DEF Child, Advance, ReadCount, InitClient, AffinityFails, Refuse,
            AdmitUser, AdmitProfile, AuthReturn, AccountSharingCheck, AuthUndo,
            close_child, Crash, ExitChild, semlock_lock, Quit, Authenticate,
            Statistics, StatisticsEnds, Signal, table

\* No step of a child takes an entry away from another one that refers to it.
LEMMA OthersKeys ==
    ASSUME UserInv, NEW p \in Procs, Child(p), NEW q \in Procs, q # p,
           NEW v \in Users, Holds(q, v)
    PROVE  user'[v].key = user[v].key
BY KeyChange, HoldersCounted

\* A USER entry never disappears under a session that refers to it, and never
\* gets another name: find_user fills entries nobody refers to, drop_user
\* clears an entry with its last connection.
THEOREM EntriesStay ==
    ASSUME SafeSignals
    PROVE  Spec => EntryStable
<1>1. UserInv /\ [Next]_vars =>
        [\A u \in Users :
            Cardinality(UserRefs(u)) + Cardinality(UserPending(u)) > 1
                => user'[u].key = user[u].key]_vars
  <2> SUFFICES ASSUME UserInv, [Next]_vars, NEW u \in Users,
                      Cardinality(UserRefs(u)) + Cardinality(UserPending(u)) > 1
               PROVE  user'[u].key = user[u].key
    OBVIOUS
  <2>1. user[u].connections > 1
    BY DEF UserInv, UserConnections
  <2>2. CASE \E p \in Procs : Child(p)
    BY <2>1, <2>2, KeyChange
  <2>3. CASE Listen \/ UNCHANGED vars
    BY <2>3 DEF Listen, access_check, access_refused, find_slot, Fork,
                ForkFails, vars, table
  <2> QED BY <2>2, <2>3 DEF Next
<1>2. Spec => []UserInv
  BY UserInvariant
<1> QED BY <1>1, <1>2, PTL DEF Spec, EntryStable
-----------------------------------------------------------------------------
(* What AUTHINFO grants while it is under way.                             *)

StartProfile(ip) == IpLookup(AclProfile[ip], ip)

GrantInv ==
    \A p \in Procs :
        /\ pc[p] \in {"reg_lock", "reg_cs"} =>
              me(p).profile = StartProfile(me(p).ip4addr)
        /\ pc[p] \in Pending => newprf[p] \notin Disabled
        /\ newuser[p] # NULL => user[newuser[p]].key \in AuthUsers

\* Entries a child refers to are real ones.
LEMMA HeldEntries ==
    ASSUME SessionInv, NEW q \in Procs
    PROVE  /\ newuser[q] # NULL => newuser[q] \in Users /\ Holds(q, newuser[q])
           /\ pc[q] \in Active /\ me(q).user # NULL =>
                 me(q).user \in Users /\ Holds(q, me(q).user)
BY ChildFacts DEF SessionInv, TypeOK, Holds, ClientRecord

LEMMA NextGrant ==
    ASSUME SafeSignals, UserInv, GrantInv, [Next]_vars
    PROVE  GrantInv'
<1> USE DEF GrantInv
<1>1. /\ SessionInv /\ TypeOK /\ client \in [Slots -> ClientRecord]
      /\ Pending \cup {"reg_lock", "reg_cs"} \subseteq Active
  BY DEF UserInv, SessionInv, TypeOK, ClientRecord, Pending, Active, Points,
         Registered, Serving, Holding, Waiting
<1>2. CASE UNCHANGED <<client, user, pc, slot, newuser, newprf>>
  BY <1>2 DEF me
<1>3. CASE Listen
  <2>1. CASE find_slot
    <3>1. /\ UNCHANGED <<user, pc, slot, newuser, newprf>>
          /\ \A s \in Slots : client'[s] = client[s] \/ ~client[s].inuse
      BY <1>1, <2>1 DEF find_slot, locals, table, Least, FreeSlots
    <3>2. \A q \in Procs : pc[q] \in Active => client'[slot[q]] = client[slot[q]]
      BY <1>1, <3>1 DEF SessionInv, OwnsSlot, me
    <3> QED BY <1>1, <3>1, <3>2 DEF me
  <2>2. CASE \E p \in Procs : Fork(p)
    <3>1. PICK p \in Procs : Fork(p)
      BY <2>2
    <3>2. /\ pc' = [pc EXCEPT ![p] = "start"]
          /\ \A q \in Procs : q # p => slot'[q] = slot[q]
          /\ UNCHANGED <<client, user, newuser, newprf>>
      BY <1>1, <3>1 DEF Fork, TypeOK, table
    <3> QED BY <1>1, <3>2 DEF me, TypeOK, Pending
  <2> QED BY <1>2, <1>3, <2>1, <2>2 DEF Listen, access_check, access_refused,
                                   ForkFails, vars, locals, table
<1>4. ASSUME NEW p \in Procs, Child(p)
      PROVE  GrantInv'
  <2>1. ASSUME NEW q \in Procs, q # p
        PROVE  /\ pc'[q] \in {"reg_lock", "reg_cs"} =>
                     me(q).profile' = StartProfile(me(q).ip4addr')
               /\ pc'[q] \in Pending => newprf'[q] \notin Disabled
               /\ newuser'[q] # NULL => user'[newuser'[q]].key \in AuthUsers
    <3>1. /\ pc'[q] = pc[q] /\ slot'[q] = slot[q]
          /\ newuser'[q] = newuser[q] /\ newprf'[q] = newprf[q]
          /\ pc[q] \in Active => client'[slot[q]] = client[slot[q]]
      BY <1>1, <1>4, <2>1, OwnClient
    <3>2. newuser[q] # NULL => user'[newuser[q]].key = user[newuser[q]].key
      BY <1>1, <1>4, <2>1, HeldEntries, OthersKeys
    <3> QED BY <1>1, <3>1, <3>2 DEF me
  <2>2. /\ pc'[p] \in {"reg_lock", "reg_cs"} =>
              me(p).profile' = StartProfile(me(p).ip4addr')
        /\ pc'[p] \in Pending => newprf'[p] \notin Disabled
    <3> USE DEF Pending
    <3>1. ASSUME NEW point, Goto(p, point)
          PROVE  pc'[p] = point
      BY <1>1, <3>1 DEF Goto, TypeOK
    <3>2. CASE InitClient(p)
      <4>1. /\ pc[p] = "init" /\ pc[p] \in Active /\ pc'[p] = "reg_lock"
            /\ client' = [client EXCEPT ![slot[p]].profile =
                             StartProfile(me(p).ip4addr)]
            /\ UNCHANGED slot
        BY <3>1, <3>2 DEF InitClient, Active, Points, StartProfile
      <4>2. slot[p] \in Slots
        BY <1>1, <4>1, ChildFacts
      <4> QED BY <1>1, <4>1, <4>2 DEF me, ClientRecord
    <3>3. CASE AuthFind(p)
      <4>1. PICK k, f, u, point :
               /\ f \notin Disabled /\ newprf' = [newprf EXCEPT ![p] = f]
               /\ point \in {"undo_cs", "as_check", "switch_cs"}
               /\ Goto(p, point)
        BY <1>1, <3>3, AuthFindCall, SessionStructure
      <4> QED BY <1>1, <3>1, <4>1 DEF TypeOK
    <3>4. CASE semlock_lock(p)
      <4>1. /\ pc[p] \in Waiting /\ pc'[p] = LockNext[pc[p]]
            /\ UNCHANGED <<client, slot, newprf>>
        BY <3>1, <3>4 DEF semlock_lock, locals
      <4>2. /\ pc'[p] \in {"reg_lock", "reg_cs"} =>
                  pc[p] \in {"reg_lock", "reg_cs"}
            /\ pc'[p] \in Pending => pc[p] \in Pending
        BY <4>1 DEF LockNext, Waiting
      <4> QED BY <4>1, <4>2 DEF me
    <3>5. CASE AccountSharingCheck(p)
      <4>1. /\ pc[p] = "as_check" /\ UNCHANGED newprf
            /\ Goto(p, "as_lock") \/ Goto(p, "undo_lock")
        BY <3>5 DEF AccountSharingCheck, locals
      <4> QED BY <3>1, <4>1
    <3>6. CASE \/ ReadCount(p) \/ AffinityFails(p) \/ Register(p) \/ Refuse(p)
               \/ AdmitUser(p) \/ AdmitProfile(p) \/ AuthReject(p)
               \/ AuthUndo(p) \/ AuthSwitch(p) \/ close_child(p) \/ Crash(p)
               \/ ExitChild(p) \/ Quit(p) \/ Authenticate(p) \/ Statistics(p)
               \/ StatisticsEnds(p) \/ Signal(p)
      <4>1. PICK point \in {"init", "none", "admit_user", "close", "loop",
                       "admit_profile", "exit", "auth_lock", "stat_lock"} :
                Goto(p, point)
        BY <3>6, AuthRejectReturns DEF ReadCount, AffinityFails, Register,
           Refuse, AdmitUser, AdmitProfile, AuthReturn, AuthUndo, AuthSwitch,
           close_child, Crash, ExitChild, Exit, Quit, Authenticate, Statistics,
           StatisticsEnds, Signal
      <4> QED BY <3>1, <4>1
    <3> QED BY <1>4, <3>2, <3>3, <3>4, <3>5, <3>6 DEF Child, Advance
  <2>3. newuser'[p] # NULL => user'[newuser'[p]].key \in AuthUsers
    <3>1. CASE AuthFind(p)
      <4>1. PICK k, f, u :
               /\ k \in AuthUsers /\ k \in Keys /\ f \in Profiles
               /\ u \in Users \cup {NULL}
               /\ find_user(k, f, u) /\ newuser' = [newuser EXCEPT ![p] = u]
        BY <1>1, <3>1, AuthFindCall, SessionStructure
      <4>2. newuser'[p] = u
        BY <1>1, <4>1 DEF TypeOK
      <4>3. u # NULL => user'[u].key = k
        BY <1>1, <4>1, FindUserKeys DEF UserInv
      <4> QED BY <4>1, <4>2, <4>3
    <3>2. CASE AuthUndo(p) \/ AuthSwitch(p)
      <4>1. newuser' = [newuser EXCEPT ![p] = NULL]
        BY <3>2 DEF AuthUndo, AuthSwitch
      <4> QED BY <1>1, <4>1 DEF TypeOK
    <3>3. CASE AffinityFails(p) \/ Crash(p) \/ ExitChild(p)
      <4>1. newuser' = [newuser EXCEPT ![p] = NULL]
        BY <3>3 DEF AffinityFails, Crash, ExitChild, Exit
      <4> QED BY <1>1, <4>1 DEF TypeOK
    <3>4. CASE \/ ReadCount(p) \/ InitClient(p) \/ Register(p) \/ Refuse(p)
               \/ AdmitUser(p) \/ AdmitProfile(p) \/ AuthReject(p)
               \/ AccountSharingCheck(p) \/ close_child(p) \/ semlock_lock(p)
               \/ Quit(p) \/ Authenticate(p) \/ Statistics(p)
               \/ StatisticsEnds(p) \/ Signal(p)
      <4>1. newuser' = newuser
        BY <3>4, AuthRejectReturns DEF ReadCount, InitClient, Register, Refuse,
           AdmitUser, AdmitProfile, AuthReturn, AccountSharingCheck,
           close_child, semlock_lock, Quit, Authenticate, Statistics,
           StatisticsEnds, Signal, locals
      <4>2. pc[p] \notin {"switch_cs", "undo_cs"}
        BY <3>4, AuthRejectReturns DEF ReadCount, InitClient, Register, Refuse,
           AdmitUser, AdmitProfile, AuthReturn, AccountSharingCheck,
           close_child, semlock_lock, Quit, Authenticate, Statistics,
           StatisticsEnds, Signal, Waiting, SafeSignals, SafePoints
      <4>3. SUFFICES ASSUME newuser[p] # NULL
                     PROVE  user'[newuser[p]].key = user[newuser[p]].key
        BY <4>1
      <4>4. newuser[p] \in Users /\ Holds(p, newuser[p])
        BY <1>1, <4>3, HeldEntries
      <4>5. user[newuser[p]].connections # 0
        BY <4>4, HoldersCounted
      <4>6. pc[p] # "close_cs"
        BY <1>1, <4>3 DEF SessionInv, ClosesWhole, Pending
      <4> QED BY <1>4, <4>2, <4>4, <4>5, <4>6, KeyChange
    <3> QED BY <1>4, <3>1, <3>2, <3>3, <3>4 DEF Child, Advance
  <2> QED BY <2>1, <2>2, <2>3
<1>5. CASE UNCHANGED vars
  BY <1>2, <1>5 DEF vars, locals, table
<1> QED BY <1>3, <1>4, <1>5 DEF Next
LEMMA GrantInvariant ==
    ASSUME SafeSignals
    PROVE  Spec => []GrantInv
<1>1. Init => GrantInv
  BY DEF Init, GrantInv, Pending
<1>2. UserInv /\ GrantInv /\ [Next]_vars => GrantInv'
  BY NextGrant
<1> QED BY <1>1, <1>2, UserInvariant, PTL DEF Spec

-----------------------------------------------------------------------------
(* What a step of a child does to the roster.                              *)

LEMMA OthersEntered ==
    ASSUME UserInv, NEW p \in Procs, Child(p), NEW q \in Procs, q # p
    PROVE  Entered(q)' = Entered(q)
<1>1. /\ pc'[q] = pc[q] /\ slot'[q] = slot[q]
      /\ pc[q] \in Active => client'[slot[q]] = client[slot[q]]
  BY OwnClient DEF UserInv
<1>2. pc[q] \in Active /\ me(q).user # NULL =>
         user'[me(q).user].key = user[me(q).user].key
  BY HeldEntries, OthersKeys DEF UserInv
<1> QED BY <1>1, <1>2, RegisteredActive DEF Entered, Name, me

\* Its own place changes in three steps only.
LEMMA OwnEntered ==
    ASSUME SafeSignals, UserInv, NEW p \in Procs, Child(p),
           ~Register(p), ~AuthSwitch(p), ~close_child(p)
    PROVE  Entered(p)' = Entered(p) /\ UNCHANGED connections
<1>1. /\ SessionInv /\ TypeOK /\ client \in [Slots -> ClientRecord]
  BY DEF UserInv, SessionInv, TypeOK, ClientRecord
<1>2. UNCHANGED connections
  BY AuthRejectReturns DEF Child, Advance, ReadCount, InitClient,
     AffinityFails, Refuse, AdmitUser, AdmitProfile, AuthReturn, AuthFind,
     AccountSharingCheck, AuthUndo, Crash, ExitChild, semlock_lock, Quit,
     Authenticate, Statistics, StatisticsEnds, Signal
<1>3. ASSUME NEW point, Goto(p, point)
      PROVE  pc'[p] = point
  BY <1>1, <1>3 DEF Goto, TypeOK
<1>4. ASSUME pc[p] \notin Registered, pc'[p] \notin Registered
      PROVE  Entered(p)' = Entered(p)
  BY <1>4 DEF Entered, NotIn
<1>5. ASSUME pc[p] \in Registered, pc'[p] \in Registered,
             pc[p] \notin {"switch_cs", "close_cs"},
             me(p)'.ip4addr = me(p).ip4addr, me(p)'.user = me(p).user,
             me(p)'.profile = me(p).profile
      PROVE  Entered(p)' = Entered(p)
  <2>1. me(p).user # NULL => user'[me(p).user].key = user[me(p).user].key
    <3> SUFFICES ASSUME me(p).user # NULL,
                        user'[me(p).user].key # user[me(p).user].key
                 PROVE  FALSE
      OBVIOUS
    <3>1. me(p).user \in Users /\ Holds(p, me(p).user) /\ pc[p] \in Active
      BY <1>1, <1>5, HeldEntries, RegisteredActive
    <3>2. user[me(p).user].connections # 0
      BY <3>1, HoldersCounted
    <3>3. newuser[p] = me(p).user /\ user[me(p).user].connections = 1
      BY <1>5, <3>1, <3>2, KeyChange
    <3> QED BY <3>1, <3>3, HoldersCounted
  <2> QED BY <1>5, <2>1 DEF Entered, Name
<1>6. CASE ReadCount(p) \/ InitClient(p)
  <2>1. pc'[p] \in {"init", "reg_lock"} /\ pc[p] \in {"start", "init"}
    BY <1>3, <1>6 DEF ReadCount, InitClient
  <2> QED BY <1>2, <1>4, <2>1 DEF Registered, Serving
<1>7. CASE AffinityFails(p) \/ Crash(p) \/ ExitChild(p)
  <2>1. pc'[p] = "none"
    BY <1>3, <1>7 DEF AffinityFails, Crash, ExitChild, Exit
  <2>2. pc[p] \in {"close", "close_cs"} => me(p).profile # NoProfile
    BY <1>1, ChildFacts, RegisteredActive, ValueAssumption
    DEF Registered, Profiled
  <2>3. pc[p] \in {"init", "exit"}
    BY <1>7, <2>2 DEF AffinityFails, Crash, ExitChild
  <2> QED BY <1>2, <1>4, <2>1, <2>3 DEF Registered, Serving
<1>8. CASE Refuse(p) \/ AdmitUser(p) \/ AdmitProfile(p) \/ Quit(p)
           \/ Authenticate(p) \/ Statistics(p) \/ StatisticsEnds(p)
           \/ AuthReject(p) \/ AccountSharingCheck(p)
           \/ Signal(p)
  <2>1. UNCHANGED <<client, slot>>
    BY <1>8, AuthRejectReturns DEF Refuse, AdmitUser, AdmitProfile, Quit,
       Authenticate, Statistics, StatisticsEnds, AuthReturn,
       AccountSharingCheck, Signal, locals
  <2>2. pc[p] \in Registered \ {"switch_cs", "close_cs"}
    BY <1>8, AuthRejectReturns DEF Refuse, AdmitUser, AdmitProfile, Quit,
       Authenticate, Statistics, StatisticsEnds, AuthReturn,
       AccountSharingCheck, Signal, SafeSignals, SafePoints, Registered,
       Serving
  <2>3. \E point \in {"close", "admit_profile", "loop", "auth_lock",
                      "as_lock", "undo_lock", "stat_lock"} : Goto(p, point)
    BY <1>8, AuthRejectReturns DEF Refuse, AdmitUser, AdmitProfile, Quit,
       Authenticate, Statistics, StatisticsEnds, AuthReturn,
       AccountSharingCheck, Signal
  <2>4. pc'[p] \in Registered
    BY <1>3, <2>3 DEF Registered, Serving
  <2> QED BY <1>2, <1>5, <2>1, <2>2, <2>4 DEF me
<1>9. CASE semlock_lock(p)
  <2>1. /\ UNCHANGED <<client, slot>> /\ pc'[p] = LockNext[pc[p]]
        /\ pc[p] \in Waiting
    BY <1>3, <1>9 DEF semlock_lock, locals
  <2>2. /\ pc'[p] \in Registered <=> pc[p] \in Registered
        /\ pc[p] \notin {"switch_cs", "close_cs"}
    BY <2>1 DEF LockNext, Waiting, Registered, Serving
  <2> QED BY <1>2, <1>4, <1>5, <2>1, <2>2 DEF me
<1>10. CASE AuthFind(p) \/ AuthUndo(p)
  <2>1. UNCHANGED slot /\ pc[p] \in {"auth_cs", "undo_cs"}
    BY <1>10 DEF AuthFind, AuthUndo
  <2>2. /\ pc[p] \in Registered \ {"switch_cs", "close_cs"}
        /\ pc[p] \in Active
    BY <2>1, RegisteredActive DEF Registered, Serving
  <2>3. /\ me(p)'.ip4addr = me(p).ip4addr /\ me(p)'.user = me(p).user
        /\ me(p)'.profile = me(p).profile
    BY <1>1, <1>10, <2>1, <2>2, ChildFacts
    DEF AuthFind, AuthUndo, me, ClientRecord
  <2>4. \E point \in {"undo_cs", "as_check", "switch_cs", "loop", "close"} :
           Goto(p, point)
    <3>1. CASE AuthFind(p)
      BY <1>1, <3>1, AuthFindCall, SessionStructure
    <3>2. CASE AuthUndo(p)
      BY <3>2 DEF AuthUndo
    <3> QED BY <1>10, <3>1, <3>2
  <2>5. pc'[p] \in Registered
    BY <1>3, <2>4 DEF Registered, Serving
  <2> QED BY <1>2, <1>5, <2>2, <2>3, <2>5
<1> QED BY <1>6, <1>7, <1>8, <1>9, <1>10 DEF Child, Advance

\* PROFILE.connections moves by the memberships of p.
LEMMA ConnectionsMove ==
    ASSUME SafeSignals, ProfileInv, NEW p \in Procs, Child(p),
           NEW f \in Profiles
    PROVE  /\ connections[f] \in Nat
           /\ connections'[f] = connections[f]
                + (IF Member(p, f)' THEN 1 ELSE 0)
                - (IF Member(p, f) THEN 1 ELSE 0)
<1>1. ProfileConnections' /\ ProfileConnections
  BY NextProfiles DEF ProfileInv, Next
<1>2. /\ connections[f] = Cardinality(InProfile(f))
      /\ connections'[f] = Cardinality(InProfile(f)')
  BY <1>1 DEF ProfileConnections
<1>3. OthersKept(p)
  BY ChildKeepsOthers DEF ProfileInv
<1> QED BY <1>2, <1>3, MemberCount DEF In
\* The slot a child registers in was counted when it was reserved: the others
\* of its address are fewer than the limit.
LEMMA Room ==
    ASSUME SessionInv, HostLimit, NEW p \in Procs, pc[p] = "reg_cs",
           NEW a \in Ips \ Unlimit, me(p).ip4addr = a, HostMax(a) > 0
    PROVE  Cardinality({q \in Procs : /\ pc[q] \in Registered
                                      /\ me(q).ip4addr = a}) < HostMax(a)
<1> DEFINE F == {q \in Procs : pc[q] \in Registered /\ me(q).ip4addr = a}
           H == HostSessions(a)
           T == H \ {slot[p]}
           g == [q \in F |-> slot[q]]
<1>1. /\ pc[p] \in Active /\ pc[p] \notin Registered
      /\ slot[p] \in Slots
  BY DEF Active, Points, Registered, Serving, Holding, SessionInv, OwnsSlot
<1>2. /\ IsFiniteSet(F) /\ Cardinality(F) \in Nat
      /\ IsFiniteSet(H) /\ Cardinality(H) \in Nat
      /\ Cardinality(H) <= HostMax(a) /\ HostMax(a) \in Nat
  BY ProcSubset, SlotSubset, ConfigAssumption DEF HostSessions, HostLimit,
     HostMax
<1>3. slot[p] \in H
  BY <1>1 DEF HostSessions, me
<1>4. /\ IsFiniteSet(T) /\ Cardinality(T) = Cardinality(H) - 1
  BY <1>2, <1>3, FS_RemoveElement
<1>5. \A q \in F : /\ slot[q] \in T
                   /\ \A r \in F : slot[q] = slot[r] => q = r
  BY <1>1, RegisteredActive DEF HostSessions, SessionInv, OwnsSlot, me
<1>6. g \in [F -> T]
  BY <1>5
<1>7. \A q, r \in F : g[q] = g[r] => q = r
  BY <1>5
<1> HIDE DEF F, H, T, g
<1>8. ~(Cardinality(T) < Cardinality(F))
  BY <1>2, <1>4, <1>6, <1>7, FS_PigeonHole
<1>9. Cardinality(F) < HostMax(a)
  BY <1>2, <1>4, <1>8
<1> QED BY <1>9 DEF F

\* Who is in the roster.
LEMMA RosterIn ==
    ASSUME SessionInv
    PROVE  \A q \in Procs :
              /\ Entered(q) # NotIn <=> pc[q] \in Registered
              /\ pc[q] \in Registered => Entered(q).address = me(q).ip4addr
<1> SUFFICES ASSUME NEW q \in Procs, pc[q] \in Registered
             PROVE  /\ Entered(q) # NotIn
                    /\ Entered(q).address = me(q).ip4addr
  BY DEF Entered
<1>1. me(q).ip4addr \in Ips
  BY RegisteredActive DEF SessionInv, OwnsSlot
<1>2. Entered(q).address = me(q).ip4addr /\ NotIn.address = NoIp
  BY DEF Entered, NotIn
<1> QED BY <1>1, <1>2, ValueAssumption

RosterInv == UserInv /\ ProfileConnections /\ HostLimit /\ GrantInv

Places == [q \in Procs |-> Entered(q)]

LEMMA PlacesMove ==
    ASSUME UserInv, NEW p \in Procs, Child(p)
    PROVE  Places' = [Places EXCEPT ![p] = Entered(p)']
BY OthersEntered DEF Places

LEMMA RegisterEnters ==
    ASSUME SafeSignals, RosterInv, NEW p \in Procs, Register(p)
    PROVE  Table!Enter(p)
<1> DEFINE a == me(p).ip4addr
<1>1. /\ UserInv /\ SessionInv /\ TypeOK /\ ProfileInv /\ Child(p)
      /\ client \in [Slots -> ClientRecord]
  BY DEF RosterInv, UserInv, ProfileInv, SessionInv, TypeOK, ClientRecord,
         Child, Advance
<1>2. /\ pc[p] = "reg_cs" /\ pc'[p] = "admit_user" /\ UNCHANGED slot
  BY <1>1 DEF Register, locals, Goto, TypeOK
<1>3. /\ pc[p] \in Active /\ pc[p] \notin Registered /\ pc'[p] \in Registered
  BY <1>2 DEF Registered, Serving, Active, Points, Holding
<1>4. /\ a \in Ips /\ slot[p] \in Slots
      /\ me(p).profile = StartProfile(a) /\ me(p).profile \in Profiles
  BY <1>1, <1>2, <1>3, ChildFacts DEF RosterInv, GrantInv, Profiled
<1>5. PICK u \in Users \cup {NULL} :
         /\ find_user(HostKey[a], me(p).profile, u)
         /\ client' = [client EXCEPT ![slot[p]].user = u]
  BY DEF Register
<1>6. /\ me(p)'.ip4addr = a /\ me(p)'.profile = StartProfile(a)
      /\ me(p)'.user = u
  BY <1>1, <1>2, <1>4, <1>5 DEF me, ClientRecord
<1>7. u # NULL => user'[u].key = HostKey[a]
  <2>1. HostKey[a] \in Keys /\ EntriesUsed
    BY <1>1, <1>4, ConfigAssumption DEF UserInv
  <2> HIDE DEF a
  <2> QED BY <1>1, <1>4, <1>5, <2>1, FindUserKeys
<1>8. PICK n \in {HostKey[a], NoKey} :
         Entered(p)' = [address |-> a, name |-> n, profile |-> StartProfile(a)]
  BY <1>3, <1>6, <1>7 DEF Entered, Name
<1>9. Places' = [Places EXCEPT ![p] = Entered(p)']
  BY <1>1, PlacesMove
<1>10. connections' = [connections EXCEPT ![StartProfile(a)] = @ + 1]
  <2>1. \A f \in Profiles : /\ ~Member(p, f)
                            /\ Member(p, f)' <=> StartProfile(a) = f
    BY <1>3, <1>6 DEF Member
  <2>2. \A f \in Profiles :
           /\ connections[f] \in Nat
           /\ connections'[f] = connections[f]
                 + (IF StartProfile(a) = f THEN 1 ELSE 0)
    BY <1>1, <2>1, ConnectionsMove
  <2>3. DOMAIN connections' = Profiles /\ connections \in [Profiles -> UInt]
    BY <1>1 DEF Register, TypeOK
  <2>4. connections' = [f \in DOMAIN connections' |-> connections'[f]]
    BY <1>1 DEF Register, TypeOK
  <2> QED BY <1>4, <2>2, <2>3, <2>4
<1>11. \A q \in Procs : Places[q] = Entered(q)
  BY DEF Places
<1>12. ASSUME a \notin Unlimit, HostMax(a) > 0
       PROVE  Cardinality({c \in Procs : /\ Entered(c) # NotIn
                                         /\ Entered(c).address = a})
                 < HostMax(a)
  <2>1. {c \in Procs : Entered(c) # NotIn /\ Entered(c).address = a}
           = {q \in Procs : pc[q] \in Registered /\ me(q).ip4addr = a}
    BY <1>1, RosterIn
  <2> QED BY <1>1, <1>2, <1>4, <1>12, <2>1, Room DEF RosterInv
<1>13. ~(Entered(p) # NotIn)
  BY <1>3 DEF Entered
<1> HIDE DEF a
<1>14. Table!Cardinality(Table!From(a)) = Cardinality(Table!From(a))
  BY DEF Table!Cardinality, Cardinality, Table!IsFiniteSet, IsFiniteSet
<1>15. Table!From(a) = {c \in Procs : /\ Entered(c) # NotIn
                                      /\ Entered(c).address = a}
  BY DEF Table!From, Table!In
<1>16. ~Table!In(p)
  BY <1>13 DEF Table!In
<1>17. [ip \in Ips |-> IpLookup(AclProfile[ip], ip)][a] = StartProfile(a)
  BY <1>4 DEF StartProfile
<1>18. [ip \in Ips |-> IF ip \in Unlimit THEN 0 ELSE HostMax(ip)][a] > 0
          => a \notin Unlimit /\ HostMax(a) > 0
  BY <1>4
<1>19. [ip \in Ips |-> IF ip \in Unlimit THEN 0 ELSE HostMax(ip)][a] > 0
          => Table!Cardinality(Table!From(a)) <
             [ip \in Ips |-> IF ip \in Unlimit THEN 0 ELSE HostMax(ip)][a]
  BY <1>4, <1>12, <1>15, <1>18, <1>14
<1> QED BY <1>4, <1>8, <1>9, <1>10, <1>16, <1>17, <1>19
        DEF Table!Enter, Places
LEMMA SwitchMoves ==
    ASSUME SafeSignals, RosterInv, NEW p \in Procs, AuthSwitch(p)
    PROVE  Table!Move(p)
<1>1. /\ UserInv /\ SessionInv /\ TypeOK /\ ProfileInv /\ Child(p)
      /\ client \in [Slots -> ClientRecord]
  BY DEF RosterInv, UserInv, ProfileInv, SessionInv, TypeOK, ClientRecord,
         Child, Advance
<1>2. /\ pc[p] = "switch_cs" /\ UNCHANGED slot
      /\ client' = [client EXCEPT ![slot[p]].profile = newprf[p],
                                  ![slot[p]].user = newuser[p]]
      /\ pc'[p] \in {"loop", "close"}
  BY <1>1 DEF AuthSwitch, Goto, TypeOK
<1>3. pc[p] \in Active /\ pc[p] \in Registered /\ pc'[p] \in Registered
  BY <1>2 DEF Registered, Serving, Active, Points, Holding
<1>4. /\ newprf[p] \in Profiles \ Disabled
      /\ newuser[p] \in Users \cup {NULL} /\ slot[p] \in Slots
      /\ newuser[p] # NULL => user[newuser[p]].key \in AuthUsers
  BY <1>1, <1>2, <1>3, ChildFacts DEF RosterInv, GrantInv, Pending
<1>5. /\ me(p)'.ip4addr = me(p).ip4addr /\ me(p)'.profile = newprf[p]
      /\ me(p)'.user = newuser[p]
  BY <1>1, <1>2, <1>4 DEF me, ClientRecord
<1>6. newuser[p] # NULL => user'[newuser[p]].key \in AuthUsers
  <2> SUFFICES ASSUME newuser[p] # NULL,
                      user'[newuser[p]].key # user[newuser[p]].key
               PROVE  FALSE
    BY <1>4
  <2>1. newuser[p] \in Users /\ Holds(p, newuser[p])
    BY <1>1, HeldEntries
  <2>2. user[newuser[p]].connections # 0
    BY <1>1, <2>1, HoldersCounted
  <2>3. me(p).user = newuser[p] /\ user[newuser[p]].connections = 1
    BY <1>1, <1>2, <2>1, <2>2, KeyChange
  <2> QED BY <1>1, <1>3, <2>1, <2>3, HoldersCounted
<1>7. PICK n \in AuthUsers \cup {NoKey} :
         Entered(p)' = [address |-> me(p).ip4addr, name |-> n,
                        profile |-> newprf[p]]
  BY <1>3, <1>5, <1>6 DEF Entered, Name
<1>8. Entered(p) = [address |-> me(p).ip4addr, name |-> Name(me(p)),
                    profile |-> me(p).profile]
  BY <1>3 DEF Entered
<1>9. Places' = [Places EXCEPT ![p] = [address |-> Places[p].address,
                                     name |-> n, profile |-> newprf[p]]]
  <2>1. Places[p].address = me(p).ip4addr
    BY <1>8 DEF Places
  <2> QED BY <1>1, <1>7, <2>1, PlacesMove
<1>10. connections' = [g \in Profiles |->
          connections[g] + (IF g = newprf[p] THEN 1 ELSE 0)
             - (IF g = Places[p].profile THEN 1 ELSE 0)]
  <2>1. \A f \in Profiles : /\ Member(p, f) <=> f = me(p).profile
                            /\ Member(p, f)' <=> f = newprf[p]
    BY <1>3, <1>5 DEF Member
  <2>2. \A f \in Profiles :
           connections'[f] = connections[f]
              + (IF f = newprf[p] THEN 1 ELSE 0)
              - (IF f = me(p).profile THEN 1 ELSE 0)
    BY <1>1, <2>1, ConnectionsMove
  <2>3. connections' = [f \in Profiles |-> connections'[f]]
    BY <1>1, NextSession DEF Next, SessionInv, TypeOK
  <2>4. Places[p].profile = me(p).profile
    BY <1>8 DEF Places
  <2> QED BY <2>2, <2>3, <2>4
<1>11. Table!In(p)
  BY <1>1, <1>3, RosterIn DEF Table!In
<1> QED BY <1>4, <1>9, <1>10, <1>11 DEF Table!Move, Places

LEMMA CloseLeaves ==
    ASSUME SafeSignals, RosterInv, NEW p \in Procs, close_child(p)
    PROVE  Table!Leave(p)
<1>1. /\ UserInv /\ SessionInv /\ TypeOK /\ ProfileInv /\ Child(p)
  BY DEF RosterInv, UserInv, ProfileInv, SessionInv, Child, Advance
<1>2. pc[p] = "close_cs" /\ pc'[p] = "exit"
  BY <1>1 DEF close_child, Goto, TypeOK
<1>3. pc[p] \in Active /\ pc[p] \in Registered /\ pc'[p] \notin Registered
  BY <1>2 DEF Registered, Serving, Active, Points, Holding
<1>4. Places' = [Places EXCEPT ![p] = NotIn]
  BY <1>1, <1>3, PlacesMove DEF Entered
<1>5. Places[p].profile = me(p).profile
  BY <1>3 DEF Places, Entered
<1>6. connections' = [connections EXCEPT ![Places[p].profile] = @ - 1]
  <2>1. me(p).profile \in Profiles
    BY <1>1, <1>2, <1>3, ChildFacts DEF Profiled
  <2>2. \A f \in Profiles : /\ Member(p, f) <=> me(p).profile = f
                            /\ ~Member(p, f)'
    BY <1>3 DEF Member
  <2>3. \A f \in Profiles :
           /\ connections[f] \in Nat
           /\ connections'[f] = connections[f]
                 - (IF me(p).profile = f THEN 1 ELSE 0)
    BY <1>1, <2>2, ConnectionsMove
  <2>4. /\ connections \in [Profiles -> UInt]
        /\ connections' = [f \in Profiles |-> connections'[f]]
    BY <1>1, NextSession DEF Next, SessionInv, TypeOK
  <2> QED BY <1>5, <2>1, <2>3, <2>4
<1>7. Table!In(p)
  BY <1>1, <1>3, RosterIn DEF Table!In
<1> QED BY <1>4, <1>6, <1>7 DEF Table!Leave, Places

\* Every step of Sessions is a step of the roster, or leaves it alone.
LEMMA RosterStep ==
    ASSUME SafeSignals, RosterInv, [Next]_vars
    PROVE  [Table!Next]_(Table!vars)
<1>1. UserInv /\ SessionInv /\ TypeOK
  BY DEF RosterInv, UserInv, SessionInv
<1>2. ASSUME \A q \in Procs : Entered(q)' = Entered(q), UNCHANGED connections
      PROVE  UNCHANGED Table!vars
  BY <1>2 DEF Table!vars
<1>3. CASE Listen
  <2>1. /\ UNCHANGED <<user, connections>>
        /\ \A q \in Procs : pc[q] \in Registered <=> pc'[q] \in Registered
        /\ \A q \in Procs : pc[q] \in Registered => slot'[q] = slot[q]
    <3>1. CASE \E p \in Procs : Fork(p)
      <4>1. PICK p \in Procs : Fork(p)
        BY <3>1
      <4>2. /\ pc' = [pc EXCEPT ![p] = "start"] /\ pc[p] = "none"
            /\ \A q \in Procs : q # p => slot'[q] = slot[q]
        BY <1>1, <4>1 DEF Fork, TypeOK
      <4>3. "start" \notin Registered /\ "none" \notin Registered
        BY DEF Registered, Serving
      <4> QED BY <1>1, <4>1, <4>2, <4>3 DEF Fork, TypeOK, table
    <3> QED BY <1>3, <3>1 DEF Listen, access_check, access_refused, find_slot,
                              ForkFails, vars, locals, table
  <2>2. \A s \in Slots : client'[s] = client[s] \/ ~client[s].inuse
    BY <1>1, <1>3 DEF Listen, access_check, access_refused, find_slot, Fork,
       ForkFails, vars, Least, FreeSlots, TypeOK
  <2>3. \A q \in Procs : pc[q] \in Registered => client'[slot[q]] = client[slot[q]]
    BY <1>1, <2>2, RegisteredActive DEF SessionInv, OwnsSlot, me
  <2> QED BY <1>2, <2>1, <2>3 DEF Entered, Name, me
<1>4. ASSUME NEW p \in Procs, Child(p)
      PROVE  [Table!Next]_(Table!vars)
  <2>1. CASE Register(p) \/ AuthSwitch(p) \/ close_child(p)
    BY <2>1, RegisterEnters, SwitchMoves, CloseLeaves DEF Table!Next
  <2>2. CASE ~Register(p) /\ ~AuthSwitch(p) /\ ~close_child(p)
    BY <1>1, <1>2, <1>4, <2>2, OwnEntered, OthersEntered
  <2> QED BY <2>1, <2>2
<1>5. CASE UNCHANGED vars
  BY <1>2, <1>5 DEF vars, locals, table, Entered, Name, me
<1> QED BY <1>3, <1>4, <1>5 DEF Next

\* The session table implements the roster: whatever children, slots, USER
\* entries and critical sections do in between, a client comes in once and
\* within the limit of its address, only its own AUTHINFO moves or renames it,
\* to what the auth modules accept, and its profile's count goes with it
\* (find_slot, run_child, cmdauthinfo, close_child).
THEOREM RosterImplemented ==
    ASSUME SafeSignals
    PROVE  Spec => ImplementsRoster
<1>1. Init => Table!Init
  <2> SUFFICES ASSUME Init PROVE Table!Init
    OBVIOUS
  <2>1. \A q \in Procs : Entered(q) = NotIn
    BY DEF Init, Entered, Registered, Serving
  <2> QED BY <2>1 DEF Init, Table!Init
<1>2. UserInv /\ ProfileConnections /\ HostLimit /\ GrantInv /\ [Next]_vars
        => [Table!Next]_(Table!vars)
  BY RosterStep DEF RosterInv
<1> QED BY <1>1, <1>2, UserInvariant, ProfilesCounted, HostsLimited,
           SafeIsNotLate, GrantInvariant, PTL DEF Spec, ImplementsRoster, Table!Spec
=============================================================================
