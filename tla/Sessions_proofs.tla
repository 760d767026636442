--------------------------- MODULE Sessions_proofs ---------------------------
(***************************************************************************)
(* Proofs about Sessions, for every number of slots, users and children    *)
(* and every configuration of limits, profiles and prefix maps.            *)
(*                                                                         *)
(* MutualExclusion needs no more.  Types, slots and HostLimit assume       *)
(* NoLateSignal: a handler that strikes between the unlock of close_child  *)
(* and _exit runs close_child once more, on a slot that may be another     *)
(* child's by then.  The counters are right provided signals are caught at *)
(* SafePoints only (SafeSignals): one caught half way through AUTHINFO     *)
(* leaves its new user counted.                                            *)
(***************************************************************************)
EXTENDS Sessions, Finite_proofs, FiniteSetTheorems, TLAPS

NoLateSignal == "exit" \notin SignalPoints

SafeSignals == SignalPoints \subseteq SafePoints

LEMMA SafeIsNotLate == SafeSignals => NoLateSignal
BY DEF SafeSignals, NoLateSignal, SafePoints

-----------------------------------------------------------------------------
(* The structure the sessions keep, which the counters rest on.            *)

Active == Points \ {"none", "exit"}
Profiled == Registered \cup {"reg_lock", "reg_cs"}
Pending == {"as_check", "as_lock", "switch_cs", "undo_lock", "undo_cs"}

\* An active child owns a reserved slot, alone.
OwnsSlot ==
    /\ \A p \in Procs : pc[p] \in Active =>
          /\ slot[p] \in Slots
          /\ me(p).inuse
          /\ me(p).ip4addr \in Ips
    /\ \A p, q \in Procs :
          pc[p] \in Active /\ pc[q] \in Active /\ slot[p] = slot[q] => p = q

\* Between find_slot and fork the slot is the listener's.
ListenerOwns ==
    /\ listener.at \in {"reserve", "fork"} => listener.ip \in Ips
    /\ listener.at = "fork" =>
          /\ listener.slot \in Slots
          /\ client[listener.slot].inuse
          /\ client[listener.slot].ip4addr \in Ips
          /\ client[listener.slot].user = NULL
          /\ \A p \in Procs : pc[p] \in Active => slot[p] # listener.slot

\* What is known of a client at each program point of its child.
ClientFacts ==
    /\ \A s \in Slots : /\ ~client[s].inuse => client[s] = FreeClient
                        /\ client[s].user # NULL => client[s].profile \in Profiles
    /\ \A p \in Procs :
          /\ pc[p] \in Profiled \ {"close"} => me(p).profile \in Profiles
          /\ pc[p] \in {"start", "init", "reg_lock", "reg_cs"} =>
                me(p).user = NULL
          /\ pc[p] \in Serving \cup {"admit_profile"} => me(p).user \in Users
          /\ pc[p] \in Pending => newprf[p] \in Profiles

StructureInv == TypeOK /\ OwnsSlot /\ ListenerOwns /\ ClientFacts

\* What signals at SafePoints leave true besides: a child closes with its
\* profile set and no AUTHINFO under way.
ClosesWhole ==
    \A p \in Procs : /\ pc[p] = "close" => me(p).profile \in Profiles
                     /\ newuser[p] # NULL => pc[p] \in Pending

SessionInv == TypeOK /\ OwnsSlot /\ ListenerOwns /\ ClientFacts /\ ClosesWhole

-----------------------------------------------------------------------------
(* The operators the actions are built from.                               *)

LEMMA UIntFacts ==
    /\ \A n \in UInt : Inc(n) \in UInt /\ Dec(n) \in UInt
    /\ \A n \in UInt : n < UIntMax => Inc(n) = n + 1
    /\ \A n \in UInt : n > 0 => Dec(n) = n - 1
BY SizeAssumption DEF UInt, Inc, Dec

\* prof_iplookup gives a profile.
LEMMA IpLookupType ==
    ASSUME NEW f \in Profiles, NEW ip \in Ips
    PROVE  IpLookup(f, ip) \in Profiles
BY ConfigAssumption DEF IpLookup

\* find_user returns an entry or NULL and keeps the types of the tables.
LEMMA FindUserType ==
    ASSUME TypeOK, NEW k \in Keys, NEW f \in Profiles,
           NEW u \in Users \cup {NULL}, find_user(k, f, u)
    PROVE  /\ user' \in [Users -> [key : Keys \cup {NoKey},
                                       connections : UInt]]
           /\ numusers' \in [Profiles -> UInt]
           /\ master_numusers' \in Int
<1> USE UIntFacts, SizeAssumption DEF TypeOK, table
<1>1. CASE /\ u \in Least(Known(k))
           /\ user' = [user EXCEPT ![u].connections = Inc(@)]
           /\ UNCHANGED <<numusers, master_numusers>>
  <2>1. u \in Users
    BY <1>1 DEF Least, Known
  <2>2. Inc(user[u].connections) \in UInt
    BY <2>1
  <2> QED BY <1>1, <2>1, <2>2
<1>2. CASE /\ u \in Least(Known(NoKey))
           /\ user' = [user EXCEPT ![u] = [key |-> k, connections |-> 1]]
           /\ numusers' = [numusers EXCEPT ![f] = Inc(@)]
           /\ master_numusers' = master_numusers + 1
  <2>1. u \in Users
    BY <1>2 DEF Least, Known
  <2>2. 1 \in UInt
    BY DEF UInt
  <2>3. [key |-> k, connections |-> 1]
           \in [key : Keys \cup {NoKey}, connections : UInt]
    BY <2>2
  <2>4. Inc(numusers[f]) \in UInt
    OBVIOUS
  <2> QED BY <1>2, <2>1, <2>3, <2>4
<1>3. CASE UNCHANGED table
  BY <1>3
<1> QED BY <1>1, <1>2, <1>3 DEF find_user

\* drop_user keeps the types of the tables.
LEMMA DropUserType ==
    ASSUME TypeOK, NEW u \in Users, NEW f \in Profiles, drop_user(u, f)
    PROVE  /\ user' \in [Users -> [key : Keys \cup {NoKey},
                                       connections : UInt]]
           /\ numusers' \in [Profiles -> UInt]
           /\ master_numusers' \in Int
<1> USE UIntFacts, SizeAssumption DEF TypeOK
<1>1. CASE /\ user' = [user EXCEPT ![u] = EmptyUser]
           /\ numusers' = [numusers EXCEPT ![f] = Dec(@)]
           /\ master_numusers' = master_numusers - 1
  <2>1. EmptyUser \in [key : Keys \cup {NoKey}, connections : UInt]
    BY DEF EmptyUser, UInt
  <2>2. Dec(numusers[f]) \in UInt
    OBVIOUS
  <2> QED BY <1>1, <2>1, <2>2
<1>2. CASE /\ user' = [user EXCEPT ![u].connections = Dec(@)]
           /\ UNCHANGED <<numusers, master_numusers>>
  <2>1. Dec(user[u].connections) \in UInt
    OBVIOUS
  <2> QED BY <1>2, <2>1
<1> QED BY <1>1, <1>2 DEF drop_user

-----------------------------------------------------------------------------
(* StructureInv is inductive.                                              *)

\* A child that only moves to another program point keeps it when the facts of
\* the new point hold already.
LEMMA MoveStep ==
    ASSUME StructureInv, NEW p \in Procs, NEW point \in Active,
           pc[p] \in Active, Goto(p, point), sem' \in Procs \cup {NoOwner},
           UNCHANGED <<client, table, connections, master_connections,
                       listener, locals>>,
           point \in Profiled \ {"close"} => me(p).profile \in Profiles,
           point \in {"start", "init", "reg_lock", "reg_cs"} =>
               me(p).user = NULL,
           point \in Serving \cup {"admit_profile"} => me(p).user \in Users,
           point \in Pending => newprf[p] \in Profiles
    PROVE  StructureInv'
<1> USE DEF StructureInv, table, locals, Goto
<1>1. pc' = [pc EXCEPT ![p] = point] /\ point \in Points
  BY DEF Active
<1>2. TypeOK'
  BY <1>1 DEF TypeOK
<1>3. \A q \in Procs : pc'[q] \in Active <=> pc[q] \in Active
  BY <1>1 DEF TypeOK
<1>4. OwnsSlot'
  BY <1>3 DEF OwnsSlot, me
<1>5. ListenerOwns'
  BY <1>3 DEF ListenerOwns
<1>6. ClientFacts'
  BY <1>1 DEF ClientFacts, TypeOK, me
<1> QED BY <1>2, <1>4, <1>5, <1>6

LEMMA ListenerSteps ==
    ASSUME StructureInv,
           \/ \E ip \in Ips : access_check(ip) \/ access_refused(ip)
           \/ find_slot \/ ForkFails
           \/ \E p \in Procs : Fork(p)
    PROVE  StructureInv'
<1> USE DEF StructureInv, table, locals
<1>1. CASE \E ip \in Ips : access_check(ip)
  <2>1. PICK ip \in Ips : access_check(ip)
    BY <1>1
  <2> QED BY <2>1 DEF access_check, TypeOK, OwnsSlot, ListenerOwns,
      ClientFacts, me
<1>2. CASE \E ip \in Ips : access_refused(ip)
  BY <1>2 DEF access_refused, vars, TypeOK, OwnsSlot, ListenerOwns,
      ClientFacts, me
<1>3. CASE find_slot
  <2>1. CASE /\ ~HostFull(listener.ip)
             /\ \E s \in Least(FreeSlots) :
                   /\ client' = [client EXCEPT ![s] =
                        [FreeClient EXCEPT !.inuse = TRUE,
                                           !.ip4addr = listener.ip]]
                   /\ listener' = [listener EXCEPT !.at = "fork", !.slot = s]
    <3>1. PICK s \in Least(FreeSlots) :
             /\ client' = [client EXCEPT ![s] =
                  [FreeClient EXCEPT !.inuse = TRUE, !.ip4addr = listener.ip]]
             /\ listener' = [listener EXCEPT !.at = "fork", !.slot = s]
      BY <2>1
    <3>2. s \in Slots /\ ~client[s].inuse
      BY <3>1 DEF Least, FreeSlots
    <3>3. listener.at = "reserve" /\ listener.ip \in Ips
      BY <1>3 DEF find_slot, ListenerOwns
    <3>4. UNCHANGED <<sem, user, numusers, master_numusers, connections,
                      master_connections, pc, slot, tmp, newuser, newprf>>
      BY <1>3 DEF find_slot
    <3>5. \A p \in Procs : pc[p] \in Active => slot[p] # s
      BY <3>2 DEF OwnsSlot, me
    <3>6. TypeOK'
      BY <3>1, <3>2, <3>3, <3>4 DEF TypeOK, FreeClient
    <3>7. client'[s].inuse /\ client'[s].ip4addr \in Ips /\ client'[s].user = NULL
      BY <3>1, <3>2, <3>3 DEF FreeClient, TypeOK
    <3>8. \A t \in Slots \ {s} : client'[t] = client[t]
      BY <3>1, <3>2 DEF TypeOK
    <3>9. OwnsSlot'
      BY <3>4, <3>5, <3>8 DEF OwnsSlot, me
    <3>10. ListenerOwns'
      BY <3>1, <3>2, <3>3, <3>4, <3>5, <3>7 DEF ListenerOwns, TypeOK
    <3>11. ClientFacts'
      <4>1. \A t \in Slots : /\ ~client'[t].inuse => client'[t] = FreeClient
                             /\ client'[t].user # NULL
                                   => client'[t].profile \in Profiles
        BY <3>7, <3>8 DEF ClientFacts
      <4>2. \A p \in Procs : pc[p] \in Active => client'[slot[p]] = client[slot[p]]
        BY <3>5, <3>8 DEF OwnsSlot
      <4>3. Profiled \cup Serving \cup Pending
               \cup {"start", "init", "reg_lock", "reg_cs", "admit_profile"}
               \subseteq Active
        BY DEF Active, Profiled, Serving, Pending, Points, Registered,
                 Holding, Waiting
      <4> QED BY <4>1, <4>2, <4>3, <3>4 DEF ClientFacts, me
    <3> QED BY <3>6, <3>9, <3>10, <3>11
  <2>2. CASE listener' = Idle /\ UNCHANGED client
    BY <1>3, <2>2 DEF find_slot, Idle, TypeOK, OwnsSlot, ListenerOwns,
                      ClientFacts, me
  <2> QED BY <1>3, <2>1, <2>2 DEF find_slot
<1>4. CASE ForkFails
  BY <1>4 DEF ForkFails, Idle, TypeOK, OwnsSlot, ListenerOwns, ClientFacts, me
<1>5. CASE \E p \in Procs : Fork(p)
  <2>1. PICK p \in Procs : Fork(p)
    BY <1>5
  <2>2. /\ pc' = [pc EXCEPT ![p] = "start"] /\ pc[p] = "none"
        /\ slot' = [slot EXCEPT ![p] = listener.slot]
        /\ listener.at = "fork" /\ listener' = Idle
        /\ UNCHANGED <<sem, client, user, numusers, master_numusers,
                       connections, master_connections, tmp, newuser, newprf>>
    BY <2>1 DEF Fork
  <2>3. TypeOK'
    BY <2>2 DEF TypeOK, Idle, Points
  <2>4. OwnsSlot'
    BY <2>2 DEF OwnsSlot, ListenerOwns, me, TypeOK, Active
  <2>5. ListenerOwns'
    BY <2>2 DEF ListenerOwns, Idle
  <2>6. ClientFacts'
    BY <2>2 DEF ClientFacts, ListenerOwns, me, TypeOK, Profiled, Registered,
                Serving, Pending
  <2> QED BY <2>3, <2>4, <2>5, <2>6
<1> QED BY <1>1, <1>2, <1>3, <1>4, <1>5

\* Whatever the reason of a refusal, it goes the same way.
LEMMA AuthRejectReturns ==
    ASSUME NEW p, AuthReject(p)
    PROVE  pc[p] = "auth_cs" /\ AuthReturn(p)
BY DEF AuthReject, AuthUnknown, AuthDisabled, AuthTooManyConnections,
       AuthTooManyUsers

\* The steps of a child that change nothing but its program point and the
\* semaphore.
LEMMA MovingSteps ==
    ASSUME NoLateSignal, StructureInv, NEW p \in Procs,
           \/ semlock_lock(p) \/ Refuse(p) \/ AdmitUser(p) \/ AdmitProfile(p)
           \/ Quit(p) \/ Authenticate(p) \/ Statistics(p)
           \/ StatisticsEnds(p) \/ AuthReject(p)
           \/ AccountSharingCheck(p) \/ Signal(p)
    PROVE  StructureInv'
<1> USE DEF Active, Points, Registered, Serving, Holding, Waiting, Profiled,
            Pending
<1>1. /\ TypeOK /\ ClientFacts
      /\ sem \in Procs \cup {NoOwner}
      /\ pc[p] \in Active => /\ me(p).user \in Users \cup {NULL}
                            /\ me(p).profile \in Profiles \cup {NoProfile}
  BY DEF StructureInv, TypeOK, OwnsSlot, me
<1>2. /\ pc[p] \in Points
      /\ pc[p] \in Profiled \ {"close"} => me(p).profile \in Profiles
      /\ pc[p] \in {"start", "init", "reg_lock", "reg_cs"} => me(p).user = NULL
      /\ pc[p] \in Serving \cup {"admit_profile"} => me(p).user \in Users
      /\ pc[p] \in Pending => newprf[p] \in Profiles
  BY <1>1 DEF TypeOK, ClientFacts
<1>3. CASE semlock_lock(p)
  BY <1>1, <1>2, <1>3, MoveStep DEF semlock_lock, LockNext
<1>4. CASE Refuse(p) \/ Quit(p)
  BY <1>1, <1>2, <1>4, MoveStep DEF Refuse, Quit
<1>5. CASE AdmitUser(p)
  BY <1>1, <1>2, <1>5, MoveStep DEF AdmitUser
<1>6. CASE AdmitProfile(p)
  <2>1. me(p).user \in Users
    BY <1>2, <1>6 DEF AdmitProfile
  <2>2. Goto(p, "close") \/ Goto(p, "loop")
    BY <1>6 DEF AdmitProfile
  <2> QED BY <1>1, <1>2, <1>6, <2>1, <2>2, MoveStep DEF AdmitProfile
<1>7. CASE Authenticate(p)
  BY <1>1, <1>2, <1>7, MoveStep DEF Authenticate
<1>8. CASE AuthReject(p)
  BY <1>2, <1>8, MoveStep, AuthRejectReturns DEF AuthReturn
<1>11. CASE Statistics(p)
  BY <1>1, <1>2, <1>11, MoveStep DEF Statistics
<1>12. CASE StatisticsEnds(p)
  BY <1>1, <1>2, <1>12, MoveStep DEF StatisticsEnds
<1>9. CASE AccountSharingCheck(p)
  BY <1>1, <1>2, <1>9, MoveStep DEF AccountSharingCheck
<1>10. CASE Signal(p)
  BY <1>1, <1>2, <1>10, MoveStep, FaultAssumption DEF Signal, NoLateSignal
<1> QED BY <1>3, <1>4, <1>5, <1>6, <1>7, <1>8, <1>9, <1>10, <1>11, <1>12

ClientRecord == [inuse : BOOLEAN, ip4addr : Ips \cup {NoIp},
                 profile : Profiles \cup {NoProfile}, user : Users \cup {NULL},
                 authenticated : BOOLEAN]

TablesTyped ==
    /\ sem \in Procs \cup {NoOwner}
    /\ user \in [Users -> [key : Keys \cup {NoKey}, connections : UInt]]
    /\ connections \in [Profiles -> UInt]
    /\ numusers \in [Profiles -> UInt]
    /\ master_connections \in Int
    /\ master_numusers \in Int
    /\ tmp \in [Procs -> Int]

\* A client record c and locals n and f that the facts of a point allow.
Fits(point, c, n, f) ==
    /\ point \in Active
    /\ c \in ClientRecord /\ c.inuse /\ c.ip4addr \in Ips
    /\ n \in Users \cup {NULL}
    /\ f \in Profiles \cup {NoProfile}
    /\ c.user # NULL => c.profile \in Profiles
    /\ point \in Profiled \ {"close"} => c.profile \in Profiles
    /\ point \in {"start", "init", "reg_lock", "reg_cs"} => c.user = NULL
    /\ point \in Serving \cup {"admit_profile"} => c.user \in Users
    /\ point \in Pending => f \in Profiles

Updates(p, point, c, n, f) ==
    /\ Goto(p, point)
    /\ client' = [client EXCEPT ![slot[p]] = c]
    /\ newuser' = [newuser EXCEPT ![p] = n]
    /\ newprf' = [newprf EXCEPT ![p] = f]
    /\ UNCHANGED <<listener, slot>>

\* A child that replaces its own client by c, its locals by n and f, and moves
\* on.
LEMMA UpdateStep ==
    ASSUME StructureInv, NEW p \in Procs, NEW point, NEW c, NEW n, NEW f,
           pc[p] \in Active, Fits(point, c, n, f), Updates(p, point, c, n, f),
           TablesTyped'
    PROVE  StructureInv'
<1> USE DEF StructureInv, Goto, Fits, Updates, TablesTyped
<1>1. pc' = [pc EXCEPT ![p] = point] /\ point \in Points /\ slot[p] \in Slots
  BY DEF Active, OwnsSlot
<1>2. TypeOK'
  <2>1. client' \in [Slots -> ClientRecord]
    BY <1>1 DEF TypeOK, ClientRecord
  <2>2. /\ pc' \in [Procs -> Points]
        /\ newuser' \in [Procs -> Users \cup {NULL}]
        /\ newprf' \in [Procs -> Profiles \cup {NoProfile}]
    BY <1>1 DEF TypeOK
  <2> QED BY <2>1, <2>2 DEF TypeOK, ClientRecord
<1>3. \A q \in Procs : pc'[q] \in Active <=> pc[q] \in Active
  BY <1>1 DEF TypeOK
<1>4. /\ client'[slot[p]] = c
      /\ \A s \in Slots \ {slot[p]} : client'[s] = client[s]
  BY <1>1 DEF TypeOK
<1>5. OwnsSlot'
  BY <1>3, <1>4 DEF OwnsSlot, me
<1>6. ListenerOwns'
  BY <1>3, <1>4 DEF ListenerOwns
<1>7. ClientFacts'
  <2>1. (\A s \in Slots : /\ ~client[s].inuse => client[s] = FreeClient
                          /\ client[s].user # NULL
                                => client[s].profile \in Profiles)'
    BY <1>1, <1>4 DEF ClientFacts
  <2>2. ASSUME NEW q \in Procs, q # p
        PROVE  /\ pc'[q] = pc[q]
               /\ newuser'[q] = newuser[q] /\ newprf'[q] = newprf[q]
               /\ pc[q] \in Active => client'[slot'[q]] = client[slot[q]]
    BY <1>1, <1>4, <2>2 DEF TypeOK, OwnsSlot
  <2>3. pc'[p] = point /\ newuser'[p] = n /\ newprf'[p] = f
    BY <1>1 DEF TypeOK
  <2>4. Profiled \cup Serving
           \cup {"start", "init", "reg_lock", "reg_cs", "admit_profile"}
           \subseteq Active
    BY DEF Active, Profiled, Serving, Points, Registered, Holding, Waiting
  <2> QED BY <1>4, <2>1, <2>2, <2>3, <2>4 DEF ClientFacts, me
<1> QED BY <1>2, <1>5, <1>6, <1>7

\* A child that leaves, with its client slot freed, left behind or given back
\* before.
LEMMA LeaveStep ==
    ASSUME StructureInv, NEW p \in Procs, pc[p] \in Points,
           pc' \in [Procs -> Points],
           pc'[p] \notin Active,
           \A q \in Procs \ {p} : /\ pc'[q] = pc[q] /\ slot'[q] = slot[q]
                                  /\ newuser'[q] = newuser[q]
                                  /\ newprf'[q] = newprf[q],
           TypeOK',
           UNCHANGED listener,
           \/ UNCHANGED client
           \/ /\ pc[p] \in Active
              /\ \E c \in {FreeClient} \cup
                      {[me(p) EXCEPT !.profile = f] : f \in Profiles} :
                    client' = [client EXCEPT ![slot[p]] = c]
    PROVE  StructureInv'
<1> USE DEF StructureInv
<1>1. \A q \in Procs : pc'[q] \in Active => q # p /\ pc[q] \in Active
  OBVIOUS
<1>2. \A s \in Slots : \/ client'[s] = client[s]
                       \/ /\ pc[p] \in Active /\ s = slot[p]
                          /\ client'[s] \in {FreeClient} \cup
                               {[client[s] EXCEPT !.profile = f] : f \in Profiles}
  BY DEF TypeOK, OwnsSlot, me
<1>3. \A q \in Procs : pc'[q] \in Active => client'[slot'[q]] = client[slot[q]]
  BY <1>1, <1>2 DEF OwnsSlot
<1>4. OwnsSlot'
  BY <1>1, <1>3 DEF OwnsSlot, me
<1>5. listener.at = "fork" =>
         client'[listener.slot] = client[listener.slot]
  BY <1>2 DEF ListenerOwns
<1>6. ListenerOwns'
  BY <1>1, <1>5 DEF ListenerOwns
<1>7. ClientFacts'
  <2>1. (\A s \in Slots : /\ ~client[s].inuse => client[s] = FreeClient
                          /\ client[s].user # NULL
                                => client[s].profile \in Profiles)'
    BY <1>2 DEF ClientFacts, OwnsSlot, me, FreeClient, TypeOK
  <2>2. Profiled \cup Serving \cup Pending
           \cup {"start", "init", "reg_lock", "reg_cs", "admit_profile"}
           \subseteq Active
    BY DEF Active, Profiled, Serving, Pending, Points, Registered, Holding,
           Waiting
  <2> QED BY <1>1, <1>3, <2>1, <2>2 DEF ClientFacts, me
<1> QED BY <1>4, <1>6, <1>7

\* What StructureInv says of one active child.
LEMMA ChildStructure ==
    ASSUME StructureInv, NEW p \in Procs, pc[p] \in Active
    PROVE  /\ slot[p] \in Slots
           /\ me(p) \in ClientRecord /\ me(p).inuse /\ me(p).ip4addr \in Ips
           /\ client = [client EXCEPT ![slot[p]] = me(p)]
           /\ newuser[p] \in Users \cup {NULL}
           /\ newprf[p] \in Profiles \cup {NoProfile}
           /\ newuser = [newuser EXCEPT ![p] = newuser[p]]
           /\ newprf = [newprf EXCEPT ![p] = newprf[p]]
           /\ me(p).user # NULL => me(p).profile \in Profiles
           /\ pc[p] \in Profiled \ {"close"} => me(p).profile \in Profiles
           /\ pc[p] \in {"start", "init", "reg_lock", "reg_cs"} =>
                 me(p).user = NULL
           /\ pc[p] \in Serving \cup {"admit_profile"} => me(p).user \in Users
           /\ pc[p] \in Pending => newprf[p] \in Profiles
<1> USE DEF StructureInv
<1>1. slot[p] \in Slots /\ me(p).inuse /\ me(p).ip4addr \in Ips
  BY DEF OwnsSlot
<1>2. me(p) \in ClientRecord /\ client = [client EXCEPT ![slot[p]] = me(p)]
  BY <1>1 DEF TypeOK, ClientRecord, me
<1>3. /\ newuser[p] \in Users \cup {NULL}
      /\ newprf[p] \in Profiles \cup {NoProfile}
      /\ newuser = [newuser EXCEPT ![p] = newuser[p]]
      /\ newprf = [newprf EXCEPT ![p] = newprf[p]]
  BY DEF TypeOK
<1> QED BY <1>1, <1>2, <1>3 DEF ClientFacts, me

\* The tables a step leaves alone keep their types.
LEMMA TypedTables ==
    ASSUME TypeOK
    PROVE  /\ TablesTyped
           /\ UNCHANGED table =>
                /\ user' \in [Users -> [key : Keys \cup {NoKey},
                                        connections : UInt]]
                /\ numusers' \in [Profiles -> UInt]
                /\ master_numusers' \in Int
BY DEF TypeOK, TablesTyped, table

LEMMA DropConnectionType ==
    ASSUME TypeOK, NEW f \in Profiles
    PROVE  DropConnection(f) \in [Profiles -> UInt]
<1>1. \A n \in UInt : (IF n = 0 THEN 0 ELSE n - 1) \in UInt
  BY SizeAssumption DEF UInt
<1> QED BY <1>1 DEF DropConnection, TypeOK

LEMMA StartSteps ==
    ASSUME StructureInv, NEW p \in Procs,
           ReadCount(p) \/ InitClient(p) \/ Register(p)
    PROVE  StructureInv'
<1> USE DEF Points, Registered, Serving, Holding, Waiting, Profiled, Pending
<1>1. TypeOK /\ TablesTyped
  BY TypedTables DEF StructureInv
<1>2. CASE ReadCount(p)
  <2>1. pc[p] = "start" /\ pc[p] \in Active
    BY <1>2 DEF ReadCount, Active
  <2>2. Updates(p, "init", me(p), newuser[p], newprf[p])
    BY <1>2, <2>1, ChildStructure DEF ReadCount, Updates, locals
  <2>3. Fits("init", me(p), newuser[p], newprf[p])
    BY <2>1, ChildStructure DEF Fits, Active
  <2>4. TablesTyped'
    BY <1>1, <1>2 DEF ReadCount, TablesTyped, table
  <2> QED BY <2>1, <2>2, <2>3, <2>4, UpdateStep
<1>3. CASE InitClient(p)
  <2>1. pc[p] = "init" /\ pc[p] \in Active
    BY <1>3 DEF InitClient, Active
  <2> DEFINE f == IpLookup(AclProfile[me(p).ip4addr], me(p).ip4addr)
             c == [me(p) EXCEPT !.profile = f]
  <2>2. f \in Profiles
    BY <2>1, ChildStructure, IpLookupType, ConfigAssumption
  <2>3. Updates(p, "reg_lock", c, newuser[p], newprf[p])
    BY <1>3, <2>1, ChildStructure DEF InitClient, Updates, me
  <2> HIDE DEF f
  <2>4. Fits("reg_lock", c, newuser[p], newprf[p])
    BY <2>1, <2>2, ChildStructure DEF Fits, Active, ClientRecord
  <2>5. TablesTyped'
    BY <1>1, <1>3 DEF InitClient, StoreCount, TablesTyped, TypeOK, table
  <2> QED BY <2>1, <2>3, <2>4, <2>5, UpdateStep
<1>4. CASE Register(p)
  <2>1. pc[p] = "reg_cs" /\ pc[p] \in Active
    BY <1>4 DEF Register, Active
  <2>2. PICK u \in Users \cup {NULL} :
          /\ find_user(HostKey[me(p).ip4addr], me(p).profile, u)
          /\ client' = [client EXCEPT ![slot[p]].user = u]
    BY <1>4 DEF Register
  <2>3. me(p).profile \in Profiles /\ HostKey[me(p).ip4addr] \in Keys
    BY <2>1, ChildStructure, ConfigAssumption
  <2> DEFINE c == [me(p) EXCEPT !.user = u]
  <2>4. Updates(p, "admit_user", c, newuser[p], newprf[p])
    BY <1>4, <2>1, <2>2, ChildStructure DEF Register, Updates, me, locals
  <2>5. Fits("admit_user", c, newuser[p], newprf[p])
    BY <2>1, <2>3, ChildStructure DEF Fits, Active, ClientRecord
  <2>6. TablesTyped'
    <3>1. connections' \in [Profiles -> UInt]
      BY <1>1, <1>4, <2>3, UIntFacts DEF Register, TypeOK
    <3> QED BY <1>1, <1>4, <2>2, <2>3, <3>1, FindUserType
            DEF Register, TablesTyped, locals
  <2> QED BY <2>1, <2>4, <2>5, <2>6, UpdateStep
<1> QED BY <1>2, <1>3, <1>4

\* AUTHINFO calls find_user with a user name and the profile it resolves to.
LEMMA AuthFindCall ==
    ASSUME StructureInv, NEW p \in Procs, AuthFind(p)
    PROVE  \E k, f, u, point :
              /\ k \in Keys \cap AuthUsers /\ f \in Profiles \ Disabled
              /\ u \in Users \cup {NULL}
              /\ find_user(k, f, u)
              /\ newuser' = [newuser EXCEPT ![p] = u]
              /\ newprf' = [newprf EXCEPT ![p] = f]
              /\ point \in {"undo_cs", "as_check", "switch_cs"}
              /\ Goto(p, point)
              /\ sem' \in {sem, NoOwner}
<1>1. pc[p] \in Active
  BY DEF AuthFind, Active, Points, Holding
<1>2. PICK k, a, f, u :
        /\ k \in AuthUsers /\ a \in ModuleProfile[k]
        /\ f \in NewProfile(k, a, me(p).ip4addr)
        /\ u \in Users \cup {NULL}
        /\ f \notin Disabled
        /\ find_user(k, f, u)
        /\ newuser' = [newuser EXCEPT ![p] = u]
        /\ newprf' = [newprf EXCEPT ![p] = f]
        /\ \/ Goto(p, "undo_cs") /\ UNCHANGED sem
           \/ Goto(p, "as_check") /\ sem' = NoOwner
           \/ Goto(p, "switch_cs") /\ UNCHANGED sem
  BY DEF AuthFind, Acceptable
<1>3. AuthProfile[k] \in Profiles /\ k \in Keys
        /\ a \in Profiles \cup {NoProfile, UnknownProfile}
  BY <1>2, ConfigAssumption
<1>4. UserProfile(k) \subseteq Profiles
  BY <1>3, ValueAssumption
  DEF UserProfile, Least, Known, StructureInv, ClientFacts, Users, NULL
<1>5. f \in Profiles
  BY <1>1, <1>2, <1>3, <1>4, ChildStructure, IpLookupType, ConfigAssumption
  DEF NewProfile
<1> QED BY <1>2, <1>3, <1>5

LEMMA AuthSteps ==
    ASSUME StructureInv, NEW p \in Procs,
           AuthFind(p) \/ AuthUndo(p) \/ AuthSwitch(p)
    PROVE  StructureInv'
<1> USE DEF Points, Registered, Serving, Holding, Waiting, Profiled, Pending
<1>1. TypeOK /\ TablesTyped
  BY TypedTables DEF StructureInv
<1>2. CASE AuthFind(p)
  <2>1. pc[p] = "auth_cs" /\ pc[p] \in Active
    BY <1>2 DEF AuthFind, Active
  <2>2. PICK k, f, u, point :
          /\ k \in Keys /\ f \in Profiles /\ u \in Users \cup {NULL}
          /\ find_user(k, f, u)
          /\ newuser' = [newuser EXCEPT ![p] = u]
          /\ newprf' = [newprf EXCEPT ![p] = f]
          /\ point \in {"undo_cs", "as_check", "switch_cs"}
          /\ Goto(p, point)
          /\ sem' \in {sem, NoOwner}
    BY <1>2, AuthFindCall
  <2> DEFINE c == [me(p) EXCEPT !.authenticated = TRUE]
  <2>3. Updates(p, point, c, u, f)
    BY <1>2, <2>2 DEF AuthFind, Updates, me
  <2>4. Fits(point, c, u, f)
    BY <2>1, <2>2, ChildStructure DEF Fits, Active, ClientRecord
  <2>5. TablesTyped'
    BY <1>1, <1>2, <2>2, FindUserType DEF AuthFind, TablesTyped
  <2> QED BY <2>1, <2>3, <2>4, <2>5, UpdateStep
<1>3. CASE AuthUndo(p)
  <2>1. pc[p] = "undo_cs" /\ pc[p] \in Active
    BY <1>3 DEF AuthUndo, Active
  <2> DEFINE c == [me(p) EXCEPT !.authenticated = FALSE]
  <2>2. PICK point \in {"loop", "close"} : Goto(p, point)
    BY <1>3 DEF AuthUndo
  <2>3. Updates(p, point, c, NULL, NoProfile)
    BY <1>3, <2>2 DEF AuthUndo, Updates, me
  <2>4. Fits(point, c, NULL, NoProfile)
    BY <2>1, <2>2, ChildStructure DEF Fits, Active, ClientRecord
  <2>5. TablesTyped'
    <3>1. CASE /\ newuser[p] # NULL
               /\ drop_user(newuser[p], newprf[p])
               /\ sem' = NoOwner
      BY <1>1, <1>3, <2>1, <3>1, ChildStructure, DropUserType
      DEF AuthUndo, TablesTyped
    <3>2. CASE UNCHANGED <<sem, table>>
      BY <1>1, <1>3, <3>2, TypedTables DEF AuthUndo, TablesTyped
    <3> QED BY <1>3, <3>1, <3>2 DEF AuthUndo
  <2> QED BY <2>1, <2>3, <2>4, <2>5, UpdateStep
<1>4. CASE AuthSwitch(p)
  <2>1. pc[p] = "switch_cs" /\ pc[p] \in Active
    BY <1>4 DEF AuthSwitch, Active
  <2>2. newprf[p] \in Profiles /\ me(p).profile \in Profiles
        /\ me(p).user \in Users
    BY <2>1, ChildStructure
  <2> DEFINE c == [me(p) EXCEPT !.profile = newprf[p], !.user = newuser[p]]
  <2>3. PICK point \in {"loop", "close"} :
          Goto(p, point) /\ (point = "loop" => newuser[p] # NULL)
    BY <1>4 DEF AuthSwitch
  <2>4. client' = [client EXCEPT ![slot[p]] = c]
    <3>1. slot[p] \in Slots /\ client \in [Slots -> ClientRecord]
      BY <1>1, <2>1, ChildStructure DEF TypeOK, ClientRecord
    <3> QED BY <1>4, <3>1 DEF AuthSwitch, me, ClientRecord
  <2>5. Updates(p, point, c, NULL, NoProfile)
    BY <1>4, <2>3, <2>4 DEF AuthSwitch, Updates
  <2>6. Fits(point, c, NULL, NoProfile)
    BY <2>1, <2>2, <2>3, ChildStructure DEF Fits, Active, ClientRecord
  <2>7. TablesTyped'
    <3>1. connections' \in [Profiles -> UInt]
      BY <1>1, <1>4, <2>2, DropConnectionType, UIntFacts DEF AuthSwitch, TypeOK
    <3> QED BY <1>1, <1>4, <2>2, <3>1, DropUserType DEF AuthSwitch, TablesTyped
  <2> QED BY <2>1, <2>5, <2>6, <2>7, UpdateStep
<1> QED BY <1>2, <1>3, <1>4

LEMMA ExitFacts ==
    ASSUME TypeOK, NEW p \in Procs, Exit(p)
    PROVE  /\ pc' \in [Procs -> Points] /\ pc'[p] = "none"
           /\ slot' \in [Procs -> Slots \cup {NULL}]
           /\ tmp' \in [Procs -> Int]
           /\ newuser' \in [Procs -> Users \cup {NULL}] /\ newuser'[p] = NULL
           /\ newprf' \in [Procs -> Profiles \cup {NoProfile}]
           /\ sem' \in Procs \cup {NoOwner}
           /\ \A q \in Procs \ {p} : /\ pc'[q] = pc[q] /\ slot'[q] = slot[q]
                                     /\ newuser'[q] = newuser[q]
                                     /\ newprf'[q] = newprf[q]
BY DEF Exit, Goto, TypeOK, Points

LEMMA EndSteps ==
    ASSUME StructureInv, NEW p \in Procs,
           AffinityFails(p) \/ close_child(p) \/ Crash(p) \/ ExitChild(p)
    PROVE  StructureInv'
<1>1. TypeOK /\ pc[p] \in Points
  BY DEF StructureInv, TypeOK
<1>2. CASE AffinityFails(p)
  <2>1. pc[p] \in Active
    BY <1>2 DEF AffinityFails, Active, Points
  <2>2. AclProfile[me(p).ip4addr] \in Profiles
    BY <2>1, ChildStructure, ConfigAssumption
  <2> DEFINE c == [me(p) EXCEPT !.profile = AclProfile[me(p).ip4addr]]
  <2>3. client' = [client EXCEPT ![slot[p]] = c] /\ c \in ClientRecord
    BY <1>2, <2>1, <2>2, ChildStructure DEF AffinityFails, me, ClientRecord
  <2>4. Exit(p) /\ UNCHANGED <<table, connections, listener>>
    BY <1>2 DEF AffinityFails
  <2>5. TypeOK'
    <3>1. client' \in [Slots -> ClientRecord]
      BY <1>1, <2>3 DEF TypeOK, ClientRecord
    <3>2. master_connections' \in Int
      BY <1>1, <1>2 DEF AffinityFails, StoreCount, TypeOK
    <3> QED BY <1>1, <2>4, <3>1, <3>2, ExitFacts DEF TypeOK, ClientRecord,
        table
  <2> QED BY <1>1, <2>1, <2>2, <2>3, <2>4, <2>5, ExitFacts,
      LeaveStep DEF Active
<1>3. CASE close_child(p)
  <2>1. pc[p] = "close_cs" /\ pc[p] \in Active
    BY <1>3 DEF close_child, Active, Points, Holding
  <2>2. me(p).profile \in Profiles /\ me(p).user \in Users \cup {NULL}
    BY <2>1, ChildStructure DEF Profiled, Registered, ClientRecord
  <2>3. /\ pc' = [pc EXCEPT ![p] = "exit"]
        /\ client' = [client EXCEPT ![slot[p]] = FreeClient]
        /\ UNCHANGED <<listener, slot, tmp, newuser, newprf>>
    BY <1>3 DEF close_child, Goto, locals
  <2>4. "exit" \in Points /\ "exit" \notin Active
    BY DEF Points, Active
  <2>5. TypeOK'
    <3>1. connections' \in [Profiles -> UInt]
      BY <1>1, <1>3, <2>2, DropConnectionType DEF close_child
    <3>2. /\ user' \in [Users -> [key : Keys \cup {NoKey}, connections : UInt]]
          /\ numusers' \in [Profiles -> UInt]
          /\ master_numusers' \in Int
      <4>1. \/ drop_user(me(p).user, me(p).profile) /\ me(p).user \in Users
            \/ UNCHANGED table
        BY <1>3, <2>2 DEF close_child
      <4> QED BY <1>1, <2>2, <4>1, DropUserType, TypedTables
    <3>3. client' \in [Slots -> ClientRecord]
      BY <1>1, <2>3 DEF TypeOK, ClientRecord, FreeClient
    <3>4. master_connections' \in Int /\ sem' = NoOwner
      BY <1>1, <1>3 DEF close_child, TypeOK
    <3> QED BY <1>1, <2>3, <2>4, <3>1, <3>2, <3>3, <3>4 DEF TypeOK,
        ClientRecord
  <2>6. pc' \in [Procs -> Points] /\ pc'[p] \notin Active
    BY <1>1, <2>3, <2>4 DEF TypeOK
  <2>7. \A q \in Procs \ {p} : /\ pc'[q] = pc[q] /\ slot'[q] = slot[q]
                               /\ newuser'[q] = newuser[q]
                               /\ newprf'[q] = newprf[q]
    BY <1>1, <2>3 DEF TypeOK
  <2> QED BY <1>1, <2>1, <2>3, <2>5, <2>6, <2>7, LeaveStep
<1>4. CASE Crash(p) \/ ExitChild(p)
  <2>1. Exit(p) /\ UNCHANGED <<client, table, connections, master_connections,
                               listener>>
    BY <1>4 DEF Crash, ExitChild
  <2>2. TypeOK'
    BY <1>1, <2>1, ExitFacts DEF TypeOK, table
  <2> QED BY <1>1, <2>1, <2>2, ExitFacts, LeaveStep DEF Active
<1> QED BY <1>2, <1>3, <1>4

LEMMA InitStructure == Init => StructureInv
<1> SUFFICES ASSUME Init PROVE StructureInv
  OBVIOUS
<1>1. TypeOK
  BY SizeAssumption DEF Init, TypeOK, FreeClient, EmptyUser, Idle, Points, UInt
<1>2. OwnsSlot /\ ListenerOwns
  BY DEF Init, OwnsSlot, ListenerOwns, Active, Idle
<1>3. ClientFacts
  BY DEF Init, ClientFacts, FreeClient, Profiled, Serving, Pending, Registered
<1> QED BY <1>1, <1>2, <1>3 DEF StructureInv

LEMMA NextStructure ==
    ASSUME NoLateSignal, StructureInv, [Next]_vars
    PROVE  StructureInv'
<1>1. CASE Listen
  BY <1>1, ListenerSteps DEF Listen
<1>2. ASSUME NEW p \in Procs, Child(p)
      PROVE  StructureInv'
  BY <1>2, MovingSteps, StartSteps, AuthSteps, EndSteps DEF Child, Advance
<1>3. CASE UNCHANGED vars
  BY <1>3 DEF vars, table, locals, StructureInv, TypeOK, OwnsSlot,
              ListenerOwns, ClientFacts, me
<1> QED BY <1>1, <1>2, <1>3 DEF Next

LEMMA StructureInvariant ==
    ASSUME NoLateSignal
    PROVE  Spec => []StructureInv
<1>1. Init => StructureInv
  BY InitStructure
<1>2. StructureInv /\ [Next]_vars => StructureInv'
  BY NextStructure
<1> QED BY <1>1, <1>2, PTL DEF Spec

\* The variables keep their types: no operation leaves a dangling slot, USER or
\* PROFILE where a later one follows it (close_child, drop_user, cmdauthinfo).
THEOREM SessionTypes ==
    ASSUME NoLateSignal
    PROVE  Spec => []TypeOK
<1>1. StructureInv => TypeOK
  BY DEF StructureInv
<1> QED BY <1>1, StructureInvariant, PTL

\* A slot belongs to one child at most (find_slot, the fork in daemon_accept,
\* close_child), however many children there are and wherever signals strike
\* up to the unlock of close_child.
THEOREM SlotsOwned ==
    ASSUME NoLateSignal
    PROVE  Spec => []SlotOwnership
<1>1. StructureInv => SlotOwnership
  BY DEF StructureInv, TypeOK, OwnsSlot, ListenerOwns, SlotOwnership, Live,
         Active, me
<1> QED BY <1>1, StructureInvariant, PTL

-----------------------------------------------------------------------------
(* The semaphore.                                                          *)

LockInv == /\ pc \in [Procs -> Points]
           /\ MutualExclusion

\* At most one process is in a critical section, and it owns the semaphore
\* (semlock_lock, semlock_unlock, SEM_UNDO at exit), wherever signals strike.
THEOREM SemaphoreExcludes == Spec => []MutualExclusion
<1> USE DEF LockInv, MutualExclusion
<1>1. Init => LockInv
  BY DEF Init, Points, Holding
<1>2. LockInv /\ [Next]_vars => LockInv'
  <2> SUFFICES ASSUME LockInv, [Next]_vars PROVE LockInv'
    OBVIOUS
  <2>1. CASE UNCHANGED <<sem, pc>>
    BY <2>1
  <2>2. ASSUME NEW p \in Procs, NEW point \in Points \ Holding, Goto(p, point),
               \/ UNCHANGED sem
               \/ sem = p /\ sem' = NoOwner
        PROVE  LockInv'
    BY <2>2 DEF Goto
  <2>3. ASSUME NEW p \in Procs, NEW point \in Points, Goto(p, point),
               sem' = p /\ sem \in {p, NoOwner}
        PROVE  LockInv'
    BY <2>3, ValueAssumption DEF Goto
  <2> HIDE DEF LockInv, MutualExclusion
  <2>4. /\ {"none", "start", "init", "reg_lock", "admit_user", "admit_profile",
            "loop", "auth_lock", "as_check", "as_lock", "undo_lock",
            "stat_lock", "close", "exit"} \subseteq Points \ Holding
        /\ {"auth_cs", "switch_cs", "undo_cs"} \subseteq Points \cap Holding
    BY DEF Points, Holding, Registered, Serving, Waiting
  <2>5. CASE Listen
    <3>1. ASSUME NEW p \in Procs, Fork(p)
          PROVE  LockInv'
      <4>1. Goto(p, "start") /\ UNCHANGED sem
        BY <3>1 DEF Fork, Goto
      <4> QED BY <2>2, <2>4, <4>1
    <3> QED BY <2>1, <2>5, <3>1 DEF Listen, access_check, access_refused,
                                    find_slot, ForkFails, vars
  <2>6. ASSUME NEW p \in Procs, Child(p)
        PROVE  LockInv'
    <3>1. CASE semlock_lock(p)
      <4>1. /\ LockNext[pc[p]] \in Points /\ Goto(p, LockNext[pc[p]])
            /\ sem' = p /\ sem = NoOwner
        BY <3>1 DEF semlock_lock, LockNext, Waiting, Points, Holding
      <4> QED BY <2>3, <4>1
    <3>2. CASE \/ ReadCount(p) \/ InitClient(p) \/ Refuse(p) \/ AdmitUser(p)
               \/ AdmitProfile(p) \/ Quit(p) \/ Authenticate(p)
               \/ Statistics(p)
               \/ AccountSharingCheck(p) \/ Signal(p)
      <4>1. PICK point \in {"init", "reg_lock", "close", "admit_profile",
                            "loop",
                            "auth_lock", "stat_lock", "as_lock", "undo_lock"} :
               Goto(p, point) /\ UNCHANGED sem
        BY <3>2 DEF ReadCount, InitClient, Refuse, AdmitUser, AdmitProfile,
                    Quit, Authenticate, Statistics,
                    AccountSharingCheck, Signal
      <4>2. point \in Points \ Holding
        BY <2>4, <4>1
      <4> QED BY <2>2, <4>1, <4>2
    <3>3. CASE \/ Register(p) \/ AuthReject(p) \/ StatisticsEnds(p)
               \/ close_child(p)
      <4>1. \E point \in {"admit_user", "loop", "exit"} :
               Goto(p, point) /\ sem = p /\ sem' = NoOwner
        BY <3>3, AuthRejectReturns DEF Register, AuthReturn, StatisticsEnds,
           close_child, Holding, LockInv, MutualExclusion
      <4> QED BY <2>2, <2>4, <4>1
    <3>4. CASE AuthFind(p) \/ AuthUndo(p) \/ AuthSwitch(p)
      <4>1. /\ sem = p
            /\ \/ sem' = NoOwner /\ (Goto(p, "as_check") \/ Goto(p, "loop"))
               \/ UNCHANGED sem /\ (Goto(p, "undo_cs") \/ Goto(p, "switch_cs"))
               \/ UNCHANGED sem /\ Goto(p, "close")
        <5>1. sem = p
          BY <3>4 DEF AuthFind, AuthUndo, AuthSwitch, Holding, LockInv,
                      MutualExclusion
        <5>2. CASE AuthFind(p)
          BY <5>1, <5>2 DEF AuthFind
        <5>3. CASE AuthUndo(p) \/ AuthSwitch(p)
          BY <5>1, <5>3 DEF AuthUndo, AuthSwitch
        <5> QED BY <3>4, <5>2, <5>3
      <4>2. /\ {"as_check", "loop", "close"} \subseteq Points \ Holding
            /\ "undo_cs" \in Points /\ "switch_cs" \in Points
        BY <2>4
      <4> QED BY <2>2, <2>3, <4>1, <4>2
    <3>5. CASE AffinityFails(p) \/ Crash(p) \/ ExitChild(p)
      <4>1. Goto(p, "none") /\ sem' = IF sem = p THEN NoOwner ELSE sem
        BY <3>5 DEF AffinityFails, Crash, ExitChild, Exit
      <4> QED BY <2>2, <2>4, <4>1
    <3> QED BY <2>6, <3>1, <3>2, <3>3, <3>4, <3>5 DEF Child, Advance
  <2> QED BY <2>1, <2>5, <2>6 DEF Next, vars
<1> QED BY <1>1, <1>2, PTL DEF Spec

-----------------------------------------------------------------------------
(* The limit of sessions per address.                                      *)

\* A child never gives a slot an address.
LEMMA ChildKeepsAddress ==
    ASSUME StructureInv, NEW p \in Procs, Child(p), NEW s \in Slots
    PROVE  client'[s].ip4addr \in {client[s].ip4addr, NoIp}
<1>1. client \in [Slots -> ClientRecord]
  BY DEF StructureInv, TypeOK, ClientRecord
<1>2. CASE UNCHANGED client
  BY <1>2
<1>3. CASE client' = [client EXCEPT ![slot[p]] = FreeClient]
  BY <1>1, <1>3 DEF FreeClient
<1>4. CASE \E x : client' = [client EXCEPT ![slot[p]].profile = x]
  BY <1>1, <1>4 DEF ClientRecord
<1>5. CASE \E x : \/ client' = [client EXCEPT ![slot[p]].user = x]
                  \/ client' = [client EXCEPT ![slot[p]].authenticated = x]
  BY <1>1, <1>5 DEF ClientRecord
<1>6. CASE \E x, y : client' = [client EXCEPT ![slot[p]].profile = x,
                                              ![slot[p]].user = y]
  BY <1>1, <1>6 DEF ClientRecord
<1>7. CASE AffinityFails(p) \/ InitClient(p)
  BY <1>4, <1>7 DEF AffinityFails, InitClient
<1>8. CASE AuthFind(p) \/ AuthUndo(p)
  BY <1>5, <1>8 DEF AuthFind, AuthUndo
<1>9. CASE Register(p)
  BY <1>5, <1>9 DEF Register
<1>10. CASE AuthSwitch(p)
  BY <1>6, <1>10 DEF AuthSwitch
<1>11. CASE close_child(p)
  BY <1>3, <1>11 DEF close_child
<1>12. CASE ReadCount(p) \/ Refuse(p) \/ AdmitUser(p) \/ AdmitProfile(p)
            \/ AuthReject(p) \/ AccountSharingCheck(p) \/ Crash(p)
            \/ ExitChild(p) \/ semlock_lock(p) \/ Quit(p)
            \/ Authenticate(p) \/ Statistics(p) \/ StatisticsEnds(p)
            \/ Signal(p)
  BY <1>2, <1>12, AuthRejectReturns DEF ReadCount, Refuse, AdmitUser,
     AdmitProfile, AuthReturn, AccountSharingCheck, Crash, ExitChild,
     semlock_lock, Quit, Authenticate, Statistics, StatisticsEnds, Signal
<1> QED BY <1>7, <1>8, <1>9, <1>10, <1>11, <1>12 DEF Child, Advance

LEMMA SlotsFinite == IsFiniteSet(Slots) /\ Cardinality(Slots) = MAX_PROC
<1>1. 0 \in Int /\ MAX_PROC - 1 \in Int /\ MAX_PROC \in Nat
  BY SizeAssumption
<1>2. /\ IsFiniteSet(0 .. MAX_PROC - 1)
      /\ Cardinality(0 .. MAX_PROC - 1) =
            IF 0 > MAX_PROC - 1 THEN 0 ELSE MAX_PROC - 1 - 0 + 1
  BY <1>1, FS_Interval
<1> QED BY <1>1, <1>2 DEF Slots

\* No address has more sessions than its ACL's MaxHostConcurrent allows
\* (find_slot counts and reserves under the semaphore), slots leaked by a
\* failed fork or a dead child included.
THEOREM HostsLimited ==
    ASSUME NoLateSignal
    PROVE  Spec => []HostLimit
<1>1. Init => HostLimit
  <2> SUFFICES ASSUME Init, NEW ip \in Ips, HostMax(ip) > 0
               PROVE  Cardinality(HostSessions(ip)) <= HostMax(ip)
    BY DEF HostLimit
  <2>1. HostSessions(ip) = {}
    BY ValueAssumption DEF Init, HostSessions, FreeClient
  <2>2. HostMax(ip) \in Nat
    BY ConfigAssumption DEF HostMax
  <2> QED BY <2>1, <2>2, FS_EmptySet
<1>2. StructureInv /\ HostLimit /\ [Next]_vars => HostLimit'
  <2> SUFFICES ASSUME StructureInv, HostLimit, [Next]_vars,
                      NEW ip \in Ips \ Unlimit, HostMax(ip) > 0
               PROVE  Cardinality(HostSessions(ip)') <= HostMax(ip)
    BY DEF HostLimit, HostMax
  <2>1. /\ IsFiniteSet(HostSessions(ip)) /\ HostMax(ip) \in Nat
        /\ Cardinality(HostSessions(ip)) \in Nat
        /\ Cardinality(HostSessions(ip)) <= HostMax(ip)
    BY SlotsFinite, FS_Subset, FS_CardinalityType, ConfigAssumption
    DEF HostSessions, HostLimit, HostMax
  <2>2. ASSUME HostSessions(ip)' \subseteq HostSessions(ip)
        PROVE  Cardinality(HostSessions(ip)') <= HostMax(ip)
    BY <2>1, <2>2, FS_Subset, FS_CardinalityType
  <2>3. CASE UNCHANGED client
    BY <2>2, <2>3 DEF HostSessions
  <2>4. ASSUME NEW p \in Procs, Child(p)
        PROVE  Cardinality(HostSessions(ip)') <= HostMax(ip)
    BY <2>2, <2>4, ChildKeepsAddress, ValueAssumption DEF HostSessions
  <2>5. CASE find_slot
    <3>1. SUFFICES ASSUME ~HostFull(listener.ip), NEW s \in Least(FreeSlots),
                          client' = [client EXCEPT ![s] =
                            [FreeClient EXCEPT !.inuse = TRUE,
                                               !.ip4addr = listener.ip]]
                   PROVE  Cardinality(HostSessions(ip)') <= HostMax(ip)
      BY <2>3, <2>5 DEF find_slot
    <3>2. /\ s \in Slots /\ client \in [Slots -> ClientRecord]
      BY DEF StructureInv, TypeOK, ClientRecord, Least, FreeSlots
    <3>3. client'[s].ip4addr = listener.ip
      BY <3>1, <3>2 DEF FreeClient
    <3>4. \A t \in Slots \ {s} : client'[t] = client[t]
      BY <3>1, <3>2
    <3>5. CASE ip # listener.ip
      BY <2>2, <3>3, <3>4, <3>5 DEF HostSessions
    <3>6. CASE ip = listener.ip
      <4>1. HostSessions(ip)' \subseteq HostSessions(ip) \cup {s}
        BY <3>4 DEF HostSessions
      <4>2. Cardinality(HostSessions(ip)) + 1 <= HostMax(ip)
        BY <2>1, <3>1, <3>6 DEF HostFull
      <4>3. /\ IsFiniteSet(HostSessions(ip) \cup {s})
            /\ Cardinality(HostSessions(ip) \cup {s})
                 <= Cardinality(HostSessions(ip)) + 1
        <5>1. /\ IsFiniteSet(HostSessions(ip) \cup {s})
              /\ Cardinality(HostSessions(ip) \cup {s}) =
                   IF s \in HostSessions(ip) THEN Cardinality(HostSessions(ip))
                   ELSE Cardinality(HostSessions(ip)) + 1
          BY <2>1, FS_AddElement
        <5> QED BY <2>1, <5>1
      <4>4. Cardinality(HostSessions(ip)')
              <= Cardinality(HostSessions(ip) \cup {s})
        BY <4>1, <4>3, FS_Subset
      <4> QED BY <2>1, <4>1, <4>2, <4>3, <4>4, FS_Subset, FS_CardinalityType
    <3> QED BY <3>5, <3>6
  <2>6. CASE Listen
    BY <2>3, <2>5, <2>6 DEF Listen, access_check, access_refused, Fork,
                            ForkFails, vars
  <2> QED BY <2>3, <2>4, <2>6 DEF Next, vars
<1> QED BY <1>1, <1>2, StructureInvariant, PTL DEF Spec

-----------------------------------------------------------------------------
(* SessionInv is inductive where signals strike at SafePoints.             *)

LEMMA SessionStructure == SessionInv => StructureInv
BY DEF SessionInv, StructureInv

\* What SessionInv says of one active child.
LEMMA ChildFacts ==
    ASSUME SessionInv, NEW p \in Procs, pc[p] \in Active
    PROVE  /\ slot[p] \in Slots
           /\ me(p) \in ClientRecord /\ me(p).inuse /\ me(p).ip4addr \in Ips
           /\ client = [client EXCEPT ![slot[p]] = me(p)]
           /\ newuser[p] \in Users \cup {NULL}
           /\ newprf[p] \in Profiles \cup {NoProfile}
           /\ newuser = [newuser EXCEPT ![p] = newuser[p]]
           /\ newprf = [newprf EXCEPT ![p] = newprf[p]]
           /\ me(p).user # NULL => me(p).profile \in Profiles
           /\ pc[p] \in Profiled => me(p).profile \in Profiles
           /\ pc[p] \in {"start", "init", "reg_lock", "reg_cs"} =>
                 me(p).user = NULL
           /\ pc[p] \in Serving \cup {"admit_profile"} => me(p).user \in Users
           /\ pc[p] \in Pending => newprf[p] \in Profiles
           /\ newuser[p] # NULL => pc[p] \in Pending
<1>1. StructureInv /\ ClosesWhole
  BY SessionStructure DEF SessionInv
<1> QED BY <1>1, ChildStructure DEF ClosesWhole

\* A child that moves to another point keeps ClosesWhole, the other children
\* too, if it writes to its own slot and locals only.
LEMMA ClosesStep ==
    ASSUME SessionInv, NEW p \in Procs, NEW point,
           pc[p] \in Active \cup {"exit"}, Goto(p, point),
           UNCHANGED slot \/ point # "close",
           \A q \in Procs \ {p} : /\ slot'[q] = slot[q]
                                  /\ newuser'[q] = newuser[q],
           \A s \in Slots : \/ client'[s] = client[s]
                            \/ pc[p] \in Active /\ s = slot[p],
           point = "close" => client'[slot[p]].profile \in Profiles,
           newuser'[p] # NULL => point \in Pending
    PROVE  ClosesWhole'
<1>1. pc'[p] = point /\ \A q \in Procs \ {p} : pc'[q] = pc[q]
  BY DEF Goto, SessionInv, TypeOK
<1>2. ASSUME NEW q \in Procs, q # p, pc[q] = "close"
      PROVE  me(q)' = me(q)
  <2>1. pc[q] \in Active
    BY <1>2 DEF Active, Points, Waiting
  <2> QED BY <1>2, <2>1 DEF SessionInv, OwnsSlot, me
<1> QED BY <1>1, <1>2 DEF ClosesWhole, SessionInv, me

LEMMA NextCloses ==
    ASSUME SafeSignals, SessionInv, [Next]_vars
    PROVE  ClosesWhole'
<1> USE DEF Points, Registered, Serving, Holding, Waiting, Profiled, Pending
<1>1. /\ TypeOK /\ OwnsSlot /\ ClosesWhole
      /\ client \in [Slots -> ClientRecord]
  BY DEF SessionInv, TypeOK, ClientRecord
<1>2. CASE UNCHANGED <<client, pc, slot, newuser>>
  BY <1>1, <1>2 DEF ClosesWhole, me
<1>3. CASE find_slot
  <2>1. UNCHANGED <<pc, slot, newuser>>
    BY <1>3 DEF find_slot, locals
  <2>2. \A s \in Slots : client[s].inuse => client'[s] = client[s]
    BY <1>1, <1>3 DEF find_slot, Least, FreeSlots
  <2>3. \A p \in Procs : pc[p] = "close" => slot[p] \in Slots /\ me(p).inuse
    BY <1>1 DEF OwnsSlot, Active
  <2> QED BY <1>1, <2>1, <2>2, <2>3 DEF ClosesWhole, me
<1>4. ASSUME NEW p \in Procs, Fork(p)
      PROVE  ClosesWhole'
  <2>1. /\ pc[p] = "none" /\ pc' = [pc EXCEPT ![p] = "start"]
        /\ slot' = [slot EXCEPT ![p] = listener.slot]
        /\ UNCHANGED <<client, newuser>>
    BY <1>4 DEF Fork
  <2>2. /\ pc'[p] = "start"
        /\ \A q \in Procs \ {p} : pc'[q] = pc[q] /\ slot'[q] = slot[q]
    BY <1>1, <2>1 DEF TypeOK
  <2> QED BY <1>1, <2>1, <2>2 DEF ClosesWhole, me
<1>5. CASE Listen
  BY <1>2, <1>3, <1>4, <1>5 DEF Listen, access_check, access_refused,
     ForkFails, vars, locals
<1>6. ASSUME NEW p \in Procs, Child(p)
      PROVE  ClosesWhole'
  <2>1. ASSUME UNCHANGED <<client, slot, newuser>>, pc[p] \in Active,
               newuser[p] = NULL,
               NEW point, Goto(p, point),
               point = "close" => pc[p] \in Profiled
        PROVE  ClosesWhole'
    <3>1. point = "close" => me(p).profile \in Profiles
      BY <2>1, ChildFacts
    <3> QED BY <2>1, <3>1, ClosesStep DEF me
  <2>2. pc[p] \notin Pending => newuser[p] = NULL
    BY <1>1 DEF ClosesWhole
  <2>3. CASE ReadCount(p) \/ Refuse(p) \/ AdmitUser(p) \/ AdmitProfile(p)
             \/ Quit(p) \/ Authenticate(p) \/ AuthReject(p) \/ Statistics(p)
             \/ StatisticsEnds(p) \/ Signal(p)
    <3>1. /\ pc[p] \in {"start"} \cup (Profiled \ Pending)
          /\ UNCHANGED <<client, slot, newuser>>
      BY <2>3, ValueAssumption, AuthRejectReturns DEF ReadCount, Refuse,
         AdmitUser, AdmitProfile, Quit, Authenticate, AuthReturn, Statistics,
         StatisticsEnds, Signal, SafeSignals, SafePoints, locals
    <3>2. pc[p] \in Active /\ newuser[p] = NULL
      BY <2>2, <3>1 DEF Active
    <3>3. \/ Goto(p, "init") \/ Goto(p, "admit_profile") \/ Goto(p, "loop")
          \/ Goto(p, "auth_lock") \/ Goto(p, "stat_lock")
          \/ Goto(p, "close") /\ pc[p] \in Profiled
      BY <2>3, <3>1, AuthRejectReturns DEF ReadCount, Refuse, AdmitUser,
         AdmitProfile, Quit, Authenticate, AuthReturn, Statistics,
         StatisticsEnds, Signal, SafeSignals, SafePoints
    <3> QED BY <2>1, <3>1, <3>2, <3>3
  <2>4. CASE semlock_lock(p) \/ AccountSharingCheck(p)
    <3>1. /\ pc[p] \in Active /\ UNCHANGED <<client, slot, newuser>>
          /\ \E point : /\ Goto(p, point) /\ point # "close"
                        /\ pc[p] \in Pending => point \in Pending
      BY <2>4 DEF semlock_lock, AccountSharingCheck, LockNext, locals, Active
    <3> QED BY <2>2, <3>1, ClosesStep
  <2>5. CASE InitClient(p) \/ Register(p)
    <3>1. /\ pc[p] \in Active /\ newuser[p] = NULL
      BY <2>2, <2>5 DEF InitClient, Register, Active
    <3>2. /\ UNCHANGED <<slot, newuser>>
          /\ Goto(p, "reg_lock") \/ Goto(p, "admit_user")
      BY <2>5 DEF InitClient, Register, locals
    <3>3. \A s \in Slots : client'[s] = client[s] \/ s = slot[p]
      BY <1>1, <2>5 DEF InitClient, Register
    <3> QED BY <3>1, <3>2, <3>3, ClosesStep
  <2>6. CASE AuthFind(p)
    <3>1. /\ pc[p] \in Active /\ UNCHANGED slot
          /\ \A s \in Slots : client'[s] = client[s] \/ s = slot[p]
      BY <1>1, <2>6 DEF AuthFind, Active
    <3>2. PICK u, point : /\ newuser' = [newuser EXCEPT ![p] = u]
                          /\ point \in Pending /\ Goto(p, point)
      BY <2>6 DEF AuthFind
    <3>3. \A q \in Procs \ {p} : newuser'[q] = newuser[q]
      BY <1>1, <3>2 DEF TypeOK
    <3> QED BY <3>1, <3>2, <3>3, ClosesStep
  <2>7. CASE AuthUndo(p) \/ AuthSwitch(p)
    <3>1. /\ pc[p] \in {"undo_cs", "switch_cs"} /\ pc[p] \in Active
          /\ newuser' = [newuser EXCEPT ![p] = NULL] /\ UNCHANGED slot
          /\ \E point : Goto(p, point)
      BY <2>7 DEF AuthUndo, AuthSwitch, Active
    <3>2. /\ slot[p] \in Slots /\ client[slot[p]].profile \in Profiles
          /\ newprf[p] \in Profiles
      BY <3>1, ChildFacts DEF me
    <3>3. /\ \A s \in Slots : client'[s] = client[s] \/ s = slot[p]
          /\ client'[slot[p]].profile \in Profiles
      <4>1. CASE client' = [client EXCEPT ![slot[p]].authenticated = FALSE]
        BY <1>1, <3>2, <4>1 DEF ClientRecord
      <4>2. CASE client' = [client EXCEPT ![slot[p]].profile = newprf[p],
                                          ![slot[p]].user = newuser[p]]
        BY <1>1, <3>2, <4>2 DEF ClientRecord
      <4> QED BY <2>7, <4>1, <4>2 DEF AuthUndo, AuthSwitch
    <3>4. /\ newuser'[p] = NULL
          /\ \A q \in Procs \ {p} : newuser'[q] = newuser[q]
      BY <1>1, <3>1 DEF TypeOK
    <3> QED BY <3>1, <3>3, <3>4, ClosesStep
  <2>8. CASE close_child(p)
    <3>1. /\ pc[p] \in Active /\ newuser[p] = NULL /\ Goto(p, "exit")
          /\ UNCHANGED <<slot, newuser>>
          /\ \A s \in Slots : client'[s] = client[s] \/ s = slot[p]
      BY <1>1, <2>2, <2>8 DEF close_child, Active, locals
    <3> QED BY <3>1, ClosesStep
  <2>9. CASE AffinityFails(p) \/ Crash(p) \/ ExitChild(p)
    <3>1. Exit(p) /\ pc[p] \in Active \cup {"exit"}
      BY <2>9 DEF AffinityFails, Crash, ExitChild, Active
    <3>2. Goto(p, "none") /\ newuser'[p] = NULL
      BY <1>1, <3>1 DEF Exit, TypeOK
    <3>3. \A q \in Procs \ {p} : slot'[q] = slot[q] /\ newuser'[q] = newuser[q]
      BY <1>1, <3>1 DEF Exit, TypeOK
    <3>4. \A s \in Slots : \/ client'[s] = client[s]
                           \/ pc[p] \in Active /\ s = slot[p]
      BY <1>1, <2>9 DEF AffinityFails, Crash, ExitChild, Active
    <3> QED BY <3>1, <3>2, <3>3, <3>4, ClosesStep
  <2> QED BY <1>6, <2>3, <2>4, <2>5, <2>6, <2>7, <2>8, <2>9 DEF Child, Advance
<1>7. CASE UNCHANGED vars
  BY <1>2, <1>7 DEF vars, locals
<1> QED BY <1>5, <1>6, <1>7 DEF Next

LEMMA NextSession ==
    ASSUME SafeSignals, SessionInv, [Next]_vars
    PROVE  SessionInv'
BY SafeIsNotLate, SessionStructure, NextStructure, NextCloses
DEF SessionInv, StructureInv

LEMMA SessionInvariant ==
    ASSUME SafeSignals
    PROVE  Spec => []SessionInv
<1>1. Init => SessionInv
  BY InitStructure DEF SessionInv, StructureInv, Init, ClosesWhole
<1>2. SessionInv /\ [Next]_vars => SessionInv'
  BY NextSession
<1> QED BY <1>1, <1>2, PTL DEF Spec

-----------------------------------------------------------------------------
(* The shared counters never drift: USER.connections counts the sessions   *)
(* that refer to the entry and PROFILE.connections the sessions of the     *)
(* profile, for every number of children and slots and every history of    *)
(* forks, failures, authentications and signals at SafePoints.             *)

\* An entry of the USER table is empty or counts somebody.
EntriesUsed == \A u \in Users : user[u].key = NoKey <=> user[u].connections = 0

-----------------------------------------------------------------------------
(* Counting.                                                               *)

LEMMA SlotSubset ==
    ASSUME NEW S \in SUBSET Slots
    PROVE  IsFiniteSet(S) /\ Cardinality(S) \in Nat /\ Cardinality(S) <= MAX_PROC
BY SlotsFinite, FS_Subset, FS_CardinalityType

LEMMA ProcSubset ==
    ASSUME NEW S \in SUBSET Procs
    PROVE  /\ IsFiniteSet(S) /\ Cardinality(S) \in Nat
           /\ Cardinality(S) <= Cardinality(Procs)
           /\ Cardinality(Procs) \in Nat
BY SizeAssumption, FS_Subset, FS_CardinalityType

Same(x, y) == IF x = y THEN 1 ELSE 0
In(x, S) == IF x \in S THEN 1 ELSE 0

\* A set that differs from another in x at most.
LEMMA CountChange ==
    ASSUME NEW S, NEW T, NEW x, IsFiniteSet(S), Cardinality(S) \in Nat,
           \A y : y # x => (y \in S <=> y \in T)
    PROVE  Cardinality(T) = Cardinality(S) + In(x, T) - In(x, S)
<1>1. CASE x \in T
  <2>1. T = S \cup {x}
    BY <1>1
  <2>2. Cardinality(T) =
          IF x \in S THEN Cardinality(S) ELSE Cardinality(S) + 1
    BY <2>1, FS_AddElement
  <2> QED BY <1>1, <2>2 DEF In
<1>2. CASE x \notin T
  <2>1. T = S \ {x}
    BY <1>2
  <2>2. Cardinality(T) =
          IF x \in S THEN Cardinality(S) - 1 ELSE Cardinality(S)
    BY <2>1, FS_RemoveElement
  <2> QED BY <1>2, <2>2 DEF In
<1> QED BY <1>1, <1>2

\* Replacing one client by c moves one reference.
LEMMA RefsChange ==
    ASSUME TypeOK, NEW s \in Slots, NEW c,
           client' = [client EXCEPT ![s] = c], NEW v \in Users
    PROVE  Cardinality(UserRefs(v))' =
             Cardinality(UserRefs(v)) + Same(c.user, v) - Same(client[s].user,
             v)
<1>1. /\ client'[s] = c
      /\ \A t \in Slots : t # s => client'[t] = client[t]
  BY DEF TypeOK
<1>2. \A t : t # s => (t \in UserRefs(v) <=> t \in UserRefs(v)')
  BY <1>1 DEF UserRefs
<1>3. /\ s \in UserRefs(v)' <=> c.user = v
      /\ s \in UserRefs(v) <=> client[s].user = v
  BY <1>1 DEF UserRefs
<1>4. IsFiniteSet(UserRefs(v)) /\ Cardinality(UserRefs(v)) \in Nat
  BY SlotSubset DEF UserRefs
<1>5. Cardinality(UserRefs(v)') = Cardinality(UserRefs(v))
         + In(s, UserRefs(v)') - In(s, UserRefs(v))
  BY <1>2, <1>4, CountChange
<1> QED BY <1>3, <1>5 DEF Same, In

\* Changing the local newuser of one child moves one pending reference.
LEMMA PendingChange ==
    ASSUME TypeOK, NEW p \in Procs, NEW n,
           newuser' = [newuser EXCEPT ![p] = n], NEW v \in Users
    PROVE  Cardinality(UserPending(v))' =
             Cardinality(UserPending(v)) + Same(n, v) - Same(newuser[p], v)
<1>1. /\ newuser'[p] = n
      /\ \A q \in Procs : q # p => newuser'[q] = newuser[q]
  BY DEF TypeOK
<1>2. \A q : q # p => (q \in UserPending(v) <=> q \in UserPending(v)')
  BY <1>1 DEF UserPending
<1>3. /\ p \in UserPending(v)' <=> n = v
      /\ p \in UserPending(v) <=> newuser[p] = v
  BY <1>1 DEF UserPending
<1>4. IsFiniteSet(UserPending(v)) /\ Cardinality(UserPending(v)) \in Nat
  BY ProcSubset DEF UserPending
<1>5. Cardinality(UserPending(v)') = Cardinality(UserPending(v))
         + In(p, UserPending(v)') - In(p, UserPending(v))
  BY <1>2, <1>4, CountChange
<1> QED BY <1>3, <1>5 DEF Same, In

\* find_user adds one connection to the entry it returns.
LEMMA FindUserCounts ==
    ASSUME TypeOK, EntriesUsed, NEW k \in Keys, NEW f \in Profiles,
           NEW u \in Users \cup {NULL}, find_user(k, f, u),
           u \in Users => user[u].connections < UIntMax
    PROVE  /\ EntriesUsed'
           /\ \A v \in Users : user'[v].connections =
                                  user[v].connections + Same(u, v)
<1> USE DEF TypeOK, EntriesUsed, Same
<1>1. CASE /\ u \in Least(Known(k))
           /\ user' = [user EXCEPT ![u].connections = Inc(@)]
  <2>1. u \in Users /\ user[u].key = k /\ k # NoKey
    BY <1>1, ValueAssumption DEF Least, Known
  <2>2. Inc(user[u].connections) = user[u].connections + 1
    BY <2>1, UIntFacts
  <2>3. /\ user'[u].connections = user[u].connections + 1
        /\ user'[u].key = k
        /\ \A v \in Users : v # u => user'[v] = user[v]
    BY <1>1, <2>1, <2>2
  <2>4. user[u].connections \in Nat /\ \A v \in Users : user[v].connections \in Nat
    BY <2>1, SizeAssumption DEF UInt
  <2> QED BY <2>1, <2>3, <2>4
<1>2. CASE /\ u \in Least(Known(NoKey))
           /\ user' = [user EXCEPT ![u] = [key |-> k, connections |-> 1]]
  <2>1. u \in Users /\ user[u].key = NoKey /\ k # NoKey
    BY <1>2, ValueAssumption DEF Least, Known
  <2>2. /\ user'[u] = [key |-> k, connections |-> 1]
        /\ \A v \in Users : v # u => user'[v] = user[v]
    BY <1>2, <2>1
  <2>3. user[u].connections = 0 /\ \A v \in Users : user[v].connections \in Nat
    BY <2>1, SizeAssumption DEF UInt
  <2>4. ASSUME NEW v \in Users
        PROVE  /\ user'[v].key = NoKey <=> user'[v].connections = 0
               /\ user'[v].connections = user[v].connections + Same(u, v)
    <3>1. CASE v = u
      BY <2>1, <2>2, <2>3, <3>1
    <3>2. CASE v # u
      BY <2>2, <2>3, <3>2
    <3> QED BY <3>1, <3>2
  <2> QED BY <2>4
<1>3. CASE u = NULL /\ UNCHANGED table
  <2>1. \A v \in Users : user[v].connections \in Nat /\ u # v
    BY <1>3, SizeAssumption DEF UInt, NULL, Users
  <2> QED BY <1>3, <2>1 DEF table
<1> QED BY <1>1, <1>2, <1>3 DEF find_user

\* drop_user takes one connection off an entry that has one.
LEMMA DropUserCounts ==
    ASSUME TypeOK, EntriesUsed, NEW u \in Users, NEW f, drop_user(u, f),
           user[u].connections > 0
    PROVE  /\ EntriesUsed'
           /\ \A v \in Users : user'[v].connections =
                                  user[v].connections - Same(u, v)
<1> USE DEF TypeOK, EntriesUsed, Same
<1>1. /\ \A v \in Users : user[v].connections \in Nat
      /\ Dec(user[u].connections) = user[u].connections - 1
  BY UIntFacts, SizeAssumption DEF UInt
<1>2. CASE /\ Dec(user[u].connections) = 0
           /\ user' = [user EXCEPT ![u] = EmptyUser]
  <2>1. /\ user'[u] = [key |-> NoKey, connections |-> 0]
        /\ \A v \in Users : v # u => user'[v] = user[v]
    BY <1>2 DEF EmptyUser
  <2> QED BY <1>1, <1>2, <2>1
<1>3. CASE /\ Dec(user[u].connections) # 0
           /\ user' = [user EXCEPT ![u].connections = Dec(@)]
  <2>1. /\ user'[u].connections = user[u].connections - 1
        /\ user'[u].key = user[u].key
        /\ \A v \in Users : v # u => user'[v] = user[v]
    BY <1>1, <1>3
  <2> QED BY <1>1, <1>3, <2>1
<1> QED BY <1>2, <1>3 DEF drop_user

-----------------------------------------------------------------------------
(* USER.connections.                                                       *)

UserInv == SessionInv /\ EntriesUsed /\ UserConnections

\* A step that touches neither the USER table nor a reference to it.
LEMMA UserKept ==
    ASSUME UserInv, UNCHANGED <<user, newuser>>,
           \A s \in Slots : client'[s].user = client[s].user
    PROVE  EntriesUsed' /\ UserConnections'
<1>1. \A u : UserRefs(u)' = UserRefs(u) /\ UserPending(u)' = UserPending(u)
  BY DEF UserRefs, UserPending
<1>2. EntriesUsed'
  BY DEF UserInv, EntriesUsed
<1>3. UserConnections'
  BY <1>1 DEF UserInv, UserConnections
<1> QED BY <1>2, <1>3

\* A child replaces its client by c and its newuser by n, and each entry gains
\* as many connections as references.
Moves(p, c, n) ==
    /\ client' = [client EXCEPT ![slot[p]] = c]
    /\ newuser' = [newuser EXCEPT ![p] = n]
    /\ \A v \in Users :
          user'[v].connections =
             user[v].connections + Same(c.user, v) - Same(me(p).user, v)
                                 + Same(n, v) - Same(newuser[p], v)

LEMMA UserMoved ==
    ASSUME UserInv, NEW p \in Procs, pc[p] \in Active, NEW c, NEW n,
           Moves(p, c, n)
    PROVE  UserConnections'
<1> USE DEF Moves
<1>1. TypeOK /\ slot[p] \in Slots /\ UserConnections
  BY DEF UserInv, SessionInv, OwnsSlot
<1>2. SUFFICES ASSUME NEW v \in Users
               PROVE  user'[v].connections = Cardinality(UserRefs(v))'
                                             + Cardinality(UserPending(v))'
  BY DEF UserConnections
<1>3. Cardinality(UserRefs(v))' =
        Cardinality(UserRefs(v)) + Same(c.user, v) - Same(me(p).user, v)
  <2>1. Cardinality(UserRefs(v))' = Cardinality(UserRefs(v))
           + Same(c.user, v) - Same(client[slot[p]].user, v)
    BY <1>1, RefsChange
  <2> QED BY <2>1 DEF me
<1>4. Cardinality(UserPending(v))' =
        Cardinality(UserPending(v)) + Same(n, v) - Same(newuser[p], v)
  BY <1>1, PendingChange DEF Same
<1>5. Cardinality(UserRefs(v)) \in Nat /\ Cardinality(UserPending(v)) \in Nat
  BY SlotSubset, ProcSubset DEF UserRefs, UserPending
<1>6. user[v].connections = Cardinality(UserRefs(v)) + Cardinality(UserPending(v))
  BY <1>1 DEF UserConnections
<1>7. Same(c.user, v) \in Int /\ Same(me(p).user, v) \in Int
        /\ Same(n, v) \in Int /\ Same(newuser[p], v) \in Int
  BY DEF Same
<1> QED BY <1>3, <1>4, <1>5, <1>6, <1>7

\* An entry can be referred to once more without its counter wrapping: there
\* are no more references than slots and children.
LEMMA UserBounds ==
    ASSUME UserInv, NEW u \in Users, NEW p \in Procs, pc[p] \in Active
    PROVE  /\ user[u].connections \in Nat
           /\ me(p).user # u => user[u].connections < UIntMax
           /\ newuser[p] # u => user[u].connections < UIntMax
           /\ me(p).user = u => user[u].connections > 0
           /\ newuser[p] = u => user[u].connections > 0
<1> DEFINE R == UserRefs(u)
           Q == UserPending(u)
<1>1. /\ slot[p] \in Slots
      /\ user[u].connections = Cardinality(R) + Cardinality(Q)
  BY DEF UserInv, SessionInv, OwnsSlot, UserConnections
<1>2. R \subseteq Slots /\ Q \subseteq Procs
  BY DEF UserRefs, UserPending
<1>3. slot[p] \in R <=> me(p).user = u
  BY <1>1 DEF UserRefs, me
<1>4. p \in Q <=> newuser[p] = u
  BY DEF UserPending
<1> HIDE DEF R, Q
<1>5. /\ IsFiniteSet(R) /\ Cardinality(R) \in Nat /\ Cardinality(R) <= MAX_PROC
      /\ IsFiniteSet(Q) /\ Cardinality(Q) \in Nat
      /\ Cardinality(Q) <= Cardinality(Procs) /\ Cardinality(Procs) \in Nat
  BY <1>2, SlotSubset, ProcSubset
<1>6. slot[p] \notin R => Cardinality(R) + 1 <= MAX_PROC
  <2>1. R \cup {slot[p]} \subseteq Slots
    BY <1>1, <1>2
  <2>2. Cardinality(R \cup {slot[p]}) <= MAX_PROC
    BY <2>1, SlotSubset
  <2>3. Cardinality(R \cup {slot[p]}) =
          IF slot[p] \in R THEN Cardinality(R) ELSE Cardinality(R) + 1
    BY <1>5, FS_AddElement
  <2> QED BY <2>2, <2>3
<1>7. p \notin Q => Cardinality(Q) + 1 <= Cardinality(Procs)
  <2>1. Q \cup {p} \subseteq Procs
    BY <1>2
  <2>2. Cardinality(Q \cup {p}) <= Cardinality(Procs)
    BY <2>1, ProcSubset
  <2>3. Cardinality(Q \cup {p}) =
          IF p \in Q THEN Cardinality(Q) ELSE Cardinality(Q) + 1
    BY <1>5, FS_AddElement
  <2> QED BY <2>2, <2>3
<1>8. (R # {} => Cardinality(R) > 0) /\ (Q # {} => Cardinality(Q) > 0)
  BY <1>5, FS_EmptySet
<1> QED BY <1>1, <1>3, <1>4, <1>5, <1>6, <1>7, <1>8, SizeAssumption

LEMMA NextUsers ==
    ASSUME SafeSignals, UserInv, [Next]_vars
    PROVE  EntriesUsed' /\ UserConnections'
<1>1. /\ SessionInv /\ TypeOK /\ EntriesUsed
      /\ client \in [Slots -> ClientRecord]
  BY DEF UserInv, SessionInv, TypeOK, ClientRecord
<1>2. CASE UNCHANGED <<client, user, newuser>>
  BY <1>2, UserKept
<1>3. CASE Listen
  <2>1. ASSUME NEW s \in Slots, ~client[s].inuse, NEW ip,
               client' = [client EXCEPT ![s] =
                  [FreeClient EXCEPT !.inuse = TRUE, !.ip4addr = ip]]
        PROVE  \A t \in Slots : client'[t].user = client[t].user
    BY <1>1, <2>1 DEF SessionInv, ClientFacts, FreeClient
  <2>2. CASE find_slot
    BY <1>2, <2>1, <2>2, UserKept DEF find_slot, table, locals, Least,
        FreeSlots
  <2> QED BY <1>2, <1>3, <2>2 DEF Listen, access_check, access_refused, Fork,
                                  ForkFails, vars, table, locals
<1>4. ASSUME NEW p \in Procs, Child(p)
      PROVE  EntriesUsed' /\ UserConnections'
  <2> USE DEF Points, Registered, Serving, Holding, Waiting, Profiled, Pending
  <2>1. CASE ReadCount(p) \/ Refuse(p) \/ AdmitUser(p) \/ AdmitProfile(p)
             \/ AuthReject(p) \/ AccountSharingCheck(p) \/ semlock_lock(p)
             \/ Quit(p) \/ Authenticate(p) \/ Statistics(p)
             \/ StatisticsEnds(p) \/ Signal(p)
    BY <1>2, <2>1, AuthRejectReturns DEF ReadCount, Refuse, AdmitUser,
       AdmitProfile, AuthReturn, AccountSharingCheck, semlock_lock, Quit,
       Authenticate, Statistics, StatisticsEnds, Signal, table, locals
  <2>2. CASE InitClient(p)
    <3>1. \A s \in Slots : client'[s].user = client[s].user
      BY <1>1, <2>2 DEF InitClient, ClientRecord
    <3> QED BY <2>2, <3>1, UserKept DEF InitClient, table
  <2>3. CASE AffinityFails(p)
    <3>1. \A s \in Slots : client'[s].user = client[s].user
      BY <1>1, <2>3 DEF AffinityFails, ClientRecord
    <3>2. newuser[p] = NULL /\ newuser' = newuser
      BY <1>1, <2>3 DEF AffinityFails, Exit, SessionInv, ClosesWhole, TypeOK
    <3> QED BY <2>3, <3>1, <3>2, UserKept DEF AffinityFails, table
  <2>4. CASE Crash(p) \/ ExitChild(p)
    <3>1. newuser[p] = NULL /\ newuser' = newuser
      BY <1>1, <2>4 DEF Crash, ExitChild, Exit, SessionInv, ClosesWhole, TypeOK
    <3> QED BY <1>2, <2>4, <3>1 DEF Crash, ExitChild, table
  <2>5. CASE Register(p)
    <3>1. /\ pc[p] \in Active /\ me(p).user = NULL
          /\ me(p).profile \in Profiles /\ HostKey[me(p).ip4addr] \in Keys
          /\ newuser' = [newuser EXCEPT ![p] = newuser[p]]
      BY <1>1, <2>5, ChildFacts, ConfigAssumption DEF Register, Active, locals
    <3>2. PICK u \in Users \cup {NULL} :
            /\ find_user(HostKey[me(p).ip4addr], me(p).profile, u)
            /\ client' = [client EXCEPT ![slot[p]].user = u]
      BY <2>5 DEF Register
    <3> DEFINE c == [me(p) EXCEPT !.user = u]
    <3>3. client' = [client EXCEPT ![slot[p]] = c] /\ c.user = u
      BY <1>1, <3>1, <3>2, ChildFacts DEF me, ClientRecord
    <3>4. u \in Users => user[u].connections < UIntMax
      BY <3>1, UserBounds DEF Users, NULL
    <3>5. /\ EntriesUsed'
          /\ \A v \in Users : user'[v].connections =
                                 user[v].connections + Same(u, v)
      BY <1>1, <3>1, <3>2, <3>4, FindUserCounts
    <3>6. Moves(p, c, newuser[p])
      BY <1>1, <3>1, <3>3, <3>5, UserBounds DEF Moves, Same, NULL, Users
    <3> HIDE DEF c
    <3> QED BY <3>1, <3>5, <3>6, UserMoved
  <2>6. CASE AuthFind(p)
    <3>1. pc[p] \in Active /\ newuser[p] = NULL
      BY <1>1, <2>6, ChildFacts DEF AuthFind, Active
    <3>2. PICK k, f, u : /\ k \in Keys /\ f \in Profiles
                         /\ u \in Users \cup {NULL}
                         /\ find_user(k, f, u)
                         /\ newuser' = [newuser EXCEPT ![p] = u]
      BY <1>1, <2>6, AuthFindCall, SessionStructure
    <3> DEFINE c == [me(p) EXCEPT !.authenticated = TRUE]
    <3>3. client' = [client EXCEPT ![slot[p]] = c] /\ c.user = me(p).user
      BY <1>1, <2>6, <3>1, ChildFacts DEF AuthFind, me, ClientRecord
    <3>4. u \in Users => user[u].connections < UIntMax
      BY <3>1, UserBounds DEF Users, NULL
    <3>5. /\ EntriesUsed'
          /\ \A v \in Users : user'[v].connections =
                                 user[v].connections + Same(u, v)
      BY <1>1, <3>2, <3>4, FindUserCounts
    <3>6. Moves(p, c, u)
      BY <3>1, <3>2, <3>3, <3>5, UserBounds DEF Moves, Same, NULL, Users
    <3> HIDE DEF c
    <3> QED BY <3>1, <3>5, <3>6, UserMoved
  <2>7. CASE AuthUndo(p)
    <3>1. pc[p] \in Active /\ newprf[p] \in Profiles
          /\ newuser[p] \in Users \cup {NULL}
      BY <1>1, <2>7, ChildFacts DEF AuthUndo, Active
    <3> DEFINE c == [me(p) EXCEPT !.authenticated = FALSE]
    <3>2. client' = [client EXCEPT ![slot[p]] = c] /\ c.user = me(p).user
      BY <1>1, <2>7, <3>1, ChildFacts DEF AuthUndo, me, ClientRecord
    <3>3. newuser' = [newuser EXCEPT ![p] = NULL]
      BY <2>7 DEF AuthUndo
    <3>4. /\ EntriesUsed'
          /\ \A v \in Users : user'[v].connections =
                                 user[v].connections - Same(newuser[p], v)
      <4>1. CASE newuser[p] # NULL /\ drop_user(newuser[p], newprf[p])
        BY <1>1, <3>1, <4>1, UserBounds, DropUserCounts
      <4>2. CASE newuser[p] = NULL /\ UNCHANGED table
        BY <1>1, <3>1, <4>2, UserBounds DEF EntriesUsed, table, Same, NULL,
            Users
      <4> QED BY <2>7, <4>1, <4>2 DEF AuthUndo
    <3>5. Moves(p, c, NULL)
      BY <3>1, <3>2, <3>3, <3>4, UserBounds DEF Moves, Same, NULL, Users
    <3> HIDE DEF c
    <3> QED BY <3>1, <3>4, <3>5, UserMoved
  <2>8. CASE AuthSwitch(p)
    <3>1. pc[p] \in Active /\ me(p).user \in Users
      BY <1>1, <2>8, ChildFacts DEF AuthSwitch, Active
    <3> DEFINE c == [me(p) EXCEPT !.profile = newprf[p], !.user = newuser[p]]
    <3>2. client' = [client EXCEPT ![slot[p]] = c] /\ c.user = newuser[p]
      <4>1. slot[p] \in Slots /\ me(p) \in ClientRecord
        BY <1>1, <3>1, ChildFacts
      <4>2. c.user = newuser[p]
        BY <4>1 DEF ClientRecord
      <4>3. client' = [client EXCEPT ![slot[p]] = c]
        BY <1>1, <2>8, <4>1 DEF AuthSwitch, me, ClientRecord
      <4> QED BY <4>2, <4>3
    <3>3. newuser' = [newuser EXCEPT ![p] = NULL]
          /\ drop_user(me(p).user, me(p).profile)
      BY <2>8 DEF AuthSwitch
    <3>4. /\ EntriesUsed'
          /\ \A v \in Users : user'[v].connections =
                                 user[v].connections - Same(me(p).user, v)
      BY <1>1, <3>1, <3>3, UserBounds, DropUserCounts
    <3>5. Moves(p, c, NULL)
      BY <3>1, <3>2, <3>3, <3>4, UserBounds DEF Moves, Same, NULL, Users
    <3> HIDE DEF c
    <3> QED BY <3>1, <3>4, <3>5, UserMoved
  <2>9. CASE close_child(p)
    <3>1. pc[p] \in Active /\ me(p).user \in Users \cup {NULL}
          /\ newuser' = [newuser EXCEPT ![p] = newuser[p]]
      BY <1>1, <2>9, ChildFacts DEF close_child, Active, ClientRecord, locals
    <3>2. client' = [client EXCEPT ![slot[p]] = FreeClient]
          /\ FreeClient.user = NULL
      BY <2>9 DEF close_child, FreeClient
    <3>3. /\ EntriesUsed'
          /\ \A v \in Users : user'[v].connections =
                                 user[v].connections - Same(me(p).user, v)
      <4>1. CASE me(p).user # NULL /\ drop_user(me(p).user, me(p).profile)
        BY <1>1, <3>1, <4>1, UserBounds, DropUserCounts
      <4>2. CASE me(p).user = NULL /\ UNCHANGED table
        BY <1>1, <3>1, <4>2, UserBounds DEF EntriesUsed, table, Same, NULL,
            Users
      <4> QED BY <2>9, <4>1, <4>2 DEF close_child
    <3>4. Moves(p, FreeClient, newuser[p])
      BY <3>1, <3>2, <3>3, UserBounds DEF Moves, Same, NULL, Users
    <3> QED BY <3>1, <3>3, <3>4, UserMoved
  <2> QED BY <1>4, <2>1, <2>2, <2>3, <2>4, <2>5, <2>6, <2>7, <2>8, <2>9
          DEF Child, Advance
<1> QED BY <1>2, <1>3, <1>4 DEF Next, vars, table, locals

LEMMA UserInvariant ==
    ASSUME SafeSignals
    PROVE  Spec => []UserInv
<1>1. Init => EntriesUsed /\ UserConnections
  <2> SUFFICES ASSUME Init PROVE EntriesUsed /\ UserConnections
    OBVIOUS
  <2>1. EntriesUsed /\ \A u \in Users : user[u].connections = 0
    BY DEF Init, EntriesUsed, EmptyUser
  <2>2. ASSUME NEW u \in Users
        PROVE  UserRefs(u) = {} /\ UserPending(u) = {}
    BY DEF Init, UserRefs, UserPending, FreeClient, NULL, Users
  <2> QED BY <2>1, <2>2, FS_EmptySet DEF UserConnections
<1>2. SessionInv /\ EntriesUsed /\ UserConnections /\ [Next]_vars
        => EntriesUsed' /\ UserConnections'
  BY NextUsers DEF UserInv
<1> QED BY <1>1, <1>2, SessionInvariant, PTL DEF Spec, UserInv

\* USER.connections counts the references to the entry: no interleaving of
\* registrations, AUTHINFOs, their undoing, closings and signals at SafePoints
\* loses or leaks one (find_user, drop_user, cmdauthinfo, close_child).
THEOREM UsersCounted ==
    ASSUME SafeSignals
    PROVE  Spec => []UserConnections
BY UserInvariant, PTL DEF UserInv

-----------------------------------------------------------------------------
(* PROFILE.connections.                                                    *)

ProfileInv == SessionInv /\ ProfileConnections

\* p is a registered session of profile f.
Member(p, f) == pc[p] \in Registered /\ me(p).profile = f

\* Only p's membership may change.
OthersKept(p) ==
    \A q \in Procs, f \in Profiles :
        q # p => (Member(q, f)' <=> Member(q, f))

LEMMA RegisteredActive == Registered \subseteq Active
BY DEF Active, Points, Registered, Serving

\* A child writes its own client only.
LEMMA OwnSlotOnly ==
    ASSUME SessionInv, NEW p \in Procs, Child(p)
    PROVE  \A s \in Slots : \/ s = slot[p] /\ pc[p] \in Active
                            \/ client'[s] = client[s]
<1> SUFFICES ASSUME NEW s \in Slots, pc[p] \in Active => s # slot[p]
             PROVE  client'[s] = client[s]
  OBVIOUS
<1>0. client \in [Slots -> ClientRecord]
  BY DEF SessionInv, TypeOK, ClientRecord
<1>1. CASE UNCHANGED client
  BY <1>1
<1>2. CASE /\ pc[p] \in Active
           /\ \/ \E x : \/ client' = [client EXCEPT ![slot[p]] = x]
                        \/ client' = [client EXCEPT ![slot[p]].profile = x]
                        \/ client' = [client EXCEPT ![slot[p]].user = x]
                        \/ client' = [client EXCEPT ![slot[p]].authenticated = x]
              \/ \E x, y : client' = [client EXCEPT ![slot[p]].profile = x,
                                                    ![slot[p]].user = y]
  BY <1>0, <1>2
<1>3. CASE AffinityFails(p) \/ InitClient(p) \/ Register(p) \/ AuthFind(p)
           \/ AuthUndo(p) \/ AuthSwitch(p) \/ close_child(p)
  <2>1. pc[p] \in Active
    BY <1>3 DEF AffinityFails, InitClient, Register, AuthFind, AuthUndo,
       AuthSwitch, close_child, Active, Points, Holding
  <2>2. CASE AffinityFails(p) \/ InitClient(p)
    BY <1>2, <2>1, <2>2 DEF AffinityFails, InitClient
  <2>3. CASE Register(p)
    BY <1>2, <2>1, <2>3 DEF Register
  <2>4. CASE AuthFind(p) \/ AuthUndo(p)
    BY <1>2, <2>1, <2>4 DEF AuthFind, AuthUndo
  <2>5. CASE AuthSwitch(p)
    BY <1>2, <2>1, <2>5 DEF AuthSwitch
  <2>6. CASE close_child(p)
    BY <1>2, <2>1, <2>6 DEF close_child
  <2> QED BY <1>3, <2>2, <2>3, <2>4, <2>5, <2>6
<1>4. CASE ReadCount(p) \/ Refuse(p) \/ AdmitUser(p) \/ AdmitProfile(p)
           \/ AuthReject(p) \/ AccountSharingCheck(p) \/ Crash(p)
           \/ ExitChild(p) \/ semlock_lock(p) \/ Quit(p)
           \/ Authenticate(p) \/ Statistics(p) \/ StatisticsEnds(p)
           \/ Signal(p)
  BY <1>1, <1>4, AuthRejectReturns DEF ReadCount, Refuse, AdmitUser,
     AdmitProfile, AuthReturn, AccountSharingCheck, Crash, ExitChild,
     semlock_lock, Quit, Authenticate, Statistics, StatisticsEnds, Signal
<1> QED BY <1>3, <1>4 DEF Child, Advance

\* A child writes its own client and its own locals.
LEMMA OwnClient ==
    ASSUME SessionInv, NEW p \in Procs, Child(p)
    PROVE  \A q \in Procs : q # p =>
              /\ pc'[q] = pc[q] /\ slot'[q] = slot[q]
              /\ newuser'[q] = newuser[q] /\ newprf'[q] = newprf[q]
              /\ pc[q] \in Active => client'[slot[q]] = client[slot[q]]
<1>1. TypeOK /\ OwnsSlot /\ client \in [Slots -> ClientRecord]
  BY DEF SessionInv, TypeOK, ClientRecord
<1>2. ASSUME NEW q \in Procs, q # p
      PROVE  /\ pc'[q] = pc[q] /\ slot'[q] = slot[q]
             /\ newuser'[q] = newuser[q] /\ newprf'[q] = newprf[q]
  BY <1>1, <1>2, AuthRejectReturns DEF TypeOK, Child, Advance, Goto, Exit,
     locals, ReadCount, InitClient, AffinityFails, Register, Refuse, AdmitUser,
     AdmitProfile, AuthReturn, AuthFind, AccountSharingCheck, AuthUndo,
     AuthSwitch, close_child, Crash, ExitChild, semlock_lock, Quit,
     Authenticate, Statistics, StatisticsEnds, Signal
<1>3. \A s \in Slots : \/ s = slot[p] /\ pc[p] \in Active
                       \/ client'[s] = client[s]
  BY OwnSlotOnly
<1>4. ASSUME NEW q \in Procs, q # p, pc[q] \in Active
      PROVE  client'[slot[q]] = client[slot[q]]
  BY <1>1, <1>3, <1>4 DEF OwnsSlot
<1> QED BY <1>2, <1>4

LEMMA ChildKeepsOthers ==
    ASSUME SessionInv, NEW p \in Procs, Child(p)
    PROVE  OthersKept(p)
BY OwnClient, RegisteredActive DEF OthersKept, Member, me

\* The count of a profile changes with p's membership.
LEMMA MemberCount ==
    ASSUME NEW p \in Procs, OthersKept(p), NEW f \in Profiles
    PROVE  /\ Cardinality(InProfile(f)) \in Nat
           /\ Cardinality(InProfile(f)') \in Nat
           /\ Cardinality(InProfile(f)') <= Cardinality(Procs)
           /\ Cardinality(Procs) \in Nat
           /\ Cardinality(InProfile(f)') = Cardinality(InProfile(f))
                 + In(p, InProfile(f)') - In(p, InProfile(f))
           /\ p \in InProfile(f) <=> Member(p, f)
           /\ p \in InProfile(f)' <=> Member(p, f)'
           /\ Member(p, f) => Cardinality(InProfile(f)) > 0
<1>1. \A q \in Procs : /\ q \in InProfile(f) <=> Member(q, f)
                       /\ q \in InProfile(f)' <=> Member(q, f)'
  BY DEF InProfile, Member, me
<1>2. InProfile(f) \subseteq Procs /\ InProfile(f)' \subseteq Procs
  BY DEF InProfile
<1>3. \A q : q # p => (q \in InProfile(f) <=> q \in InProfile(f)')
  BY <1>1, <1>2 DEF OthersKept
<1>4. /\ IsFiniteSet(InProfile(f)) /\ Cardinality(InProfile(f)) \in Nat
      /\ Cardinality(InProfile(f)') \in Nat
      /\ Cardinality(InProfile(f)') <= Cardinality(Procs)
      /\ Cardinality(Procs) \in Nat
  BY <1>2, ProcSubset
<1>5. Cardinality(InProfile(f)') = Cardinality(InProfile(f))
         + In(p, InProfile(f)') - In(p, InProfile(f))
  BY <1>3, <1>4, CountChange
<1>6. p \in InProfile(f) => Cardinality(InProfile(f)) > 0
  BY <1>4, FS_EmptySet
<1> QED BY <1>1, <1>4, <1>5, <1>6

\* A step after which p is a member of the profiles it was a member of.
LEMMA ProfileKept ==
    ASSUME ProfileInv, NEW p \in Procs, OthersKept(p), UNCHANGED connections,
           \A f \in Profiles : Member(p, f)' <=> Member(p, f)
    PROVE  ProfileConnections'
<1> SUFFICES ASSUME NEW f \in Profiles
             PROVE  connections'[f] = Cardinality(InProfile(f)')
  BY DEF ProfileConnections
<1>1. connections[f] = Cardinality(InProfile(f))
  BY DEF ProfileInv, ProfileConnections
<1> QED BY <1>1, MemberCount DEF In

LEMMA NextProfiles ==
    ASSUME SafeSignals, ProfileInv, [Next]_vars
    PROVE  ProfileConnections'
<1>1. /\ SessionInv /\ TypeOK /\ ProfileConnections
      /\ client \in [Slots -> ClientRecord]
  BY DEF ProfileInv, SessionInv, TypeOK, ClientRecord
<1>2. ASSUME UNCHANGED connections,
             \A p \in Procs, f \in Profiles : Member(p, f)' <=> Member(p, f)
      PROVE  ProfileConnections'
  <2>1. \A f \in Profiles : InProfile(f)' = InProfile(f)
    BY <1>2 DEF InProfile, Member, me
  <2> QED BY <1>1, <1>2, <2>1 DEF ProfileConnections
<1>3. CASE Listen
  <2>1. UNCHANGED connections
    BY <1>3 DEF Listen, access_check, access_refused, find_slot, Fork,
        ForkFails,
                vars
  <2>2. CASE UNCHANGED <<client, pc, slot>>
    BY <1>2, <2>1, <2>2 DEF Member, me
  <2>3. CASE find_slot
    <3>1. /\ pc' = pc /\ slot' = slot
          /\ \A s \in Slots : client'[s] = client[s] \/ ~client[s].inuse
      BY <1>1, <2>3 DEF find_slot, locals, Least, FreeSlots
    <3>2. \A q \in Procs : pc[q] \in Active => client'[slot[q]] = client[slot[q]]
      BY <1>1, <3>1 DEF SessionInv, OwnsSlot, me
    <3> QED BY <1>2, <2>1, <3>1, <3>2, RegisteredActive DEF Member, me
  <2>4. CASE \E p \in Procs : Fork(p)
    <3>1. PICK p \in Procs : Fork(p)
      BY <2>4
    <3>2. /\ pc' = [pc EXCEPT ![p] = "start"] /\ pc[p] = "none"
          /\ \A q \in Procs : q # p => slot'[q] = slot[q]
          /\ UNCHANGED client
      BY <1>1, <3>1 DEF Fork, TypeOK
    <3>3. "start" \notin Registered /\ "none" \notin Registered
      BY DEF Registered, Serving
    <3> QED BY <1>1, <1>2, <2>1, <3>2, <3>3 DEF Member, me, TypeOK
  <2> QED BY <1>3, <2>2, <2>3, <2>4 DEF Listen, access_check, access_refused,
                                        ForkFails, vars, locals
<1>4. ASSUME NEW p \in Procs, Child(p)
      PROVE  ProfileConnections'
  <2>1. OthersKept(p)
    BY <1>1, <1>4, ChildKeepsOthers
  <2>2. ASSUME UNCHANGED connections, pc'[p] \notin Registered,
               pc[p] \notin Registered
        PROVE  ProfileConnections'
    BY <2>1, <2>2, ProfileKept DEF Member
  <2>3. ASSUME UNCHANGED connections,
               pc'[p] \in Registered, pc[p] \in Registered,
               me(p).profile' = me(p).profile
        PROVE  ProfileConnections'
    BY <2>1, <2>3, ProfileKept DEF Member
  <2>4. ASSUME NEW point, Goto(p, point)
        PROVE  pc'[p] = point
    BY <1>1, <2>4 DEF Goto, TypeOK
  <2>5. CASE ReadCount(p) \/ InitClient(p)
    <3>1. UNCHANGED connections /\ pc'[p] \in {"init", "reg_lock"}
            /\ pc[p] \in {"start", "init"}
      BY <2>4, <2>5 DEF ReadCount, InitClient
    <3> QED BY <2>2, <3>1 DEF Registered, Serving
  <2>6. CASE AffinityFails(p) \/ Crash(p) \/ ExitChild(p)
    <3>1. UNCHANGED connections /\ pc'[p] = "none"
      BY <2>4, <2>6 DEF AffinityFails, Crash, ExitChild, Exit
    <3>2. pc[p] \in {"close", "close_cs"} => me(p).profile # NoProfile
      BY <1>1, ChildFacts, RegisteredActive, ValueAssumption
      DEF Registered, Profiled
    <3>3. pc[p] \in {"init", "exit"}
      BY <2>6, <3>2 DEF AffinityFails, Crash, ExitChild
    <3> QED BY <2>2, <3>1, <3>3 DEF Registered, Serving
  <2>7. CASE Refuse(p) \/ AdmitUser(p) \/ AdmitProfile(p) \/ Quit(p)
             \/ Authenticate(p) \/ Statistics(p) \/ StatisticsEnds(p)
             \/ AuthReject(p) \/ AccountSharingCheck(p)
             \/ Signal(p)
    <3>1. UNCHANGED <<connections, client, slot>>
      BY <2>7, AuthRejectReturns DEF Refuse, AdmitUser, AdmitProfile, Quit,
         Authenticate, Statistics, StatisticsEnds, AuthReturn,
         AccountSharingCheck, Signal, locals
    <3>2. pc[p] \in Registered
      BY <1>4, <2>7, AuthRejectReturns DEF Refuse, AdmitUser, AdmitProfile,
         Quit, Authenticate, Statistics, StatisticsEnds, AuthReturn,
         AccountSharingCheck, Signal, SafeSignals, SafePoints, Registered,
         Serving
    <3>3. \E point \in {"close", "admit_profile", "loop", "auth_lock",
                        "as_lock", "undo_lock", "stat_lock"} : Goto(p, point)
      BY <2>7, AuthRejectReturns DEF Refuse, AdmitUser, AdmitProfile, Quit,
         Authenticate, Statistics, StatisticsEnds, AuthReturn,
         AccountSharingCheck, Signal
    <3>4. pc'[p] \in Registered
      BY <2>4, <3>3 DEF Registered, Serving
    <3> QED BY <2>3, <3>1, <3>2, <3>4 DEF me
  <2>8. CASE semlock_lock(p)
    <3>1. UNCHANGED <<connections, client, slot>> /\ pc'[p] = LockNext[pc[p]]
            /\ pc[p] \in Waiting
      BY <2>4, <2>8 DEF semlock_lock, locals
    <3>2. pc'[p] \in Registered <=> pc[p] \in Registered
      BY <3>1 DEF LockNext, Waiting, Registered, Serving
    <3> QED BY <2>2, <2>3, <3>1, <3>2 DEF me
  <2>9. CASE AuthFind(p) \/ AuthUndo(p)
    <3>1. UNCHANGED <<connections, slot>> /\ pc[p] \in {"auth_cs", "undo_cs"}
      BY <2>9 DEF AuthFind, AuthUndo
    <3>2. pc[p] \in Registered /\ pc[p] \in Active
      BY <3>1, RegisteredActive DEF Registered, Serving
    <3>3. me(p).profile' = me(p).profile
      BY <1>1, <2>9, <3>1, <3>2, ChildFacts
      DEF AuthFind, AuthUndo, me, ClientRecord
    <3>4. \E point \in {"undo_cs", "as_check", "switch_cs", "loop", "close"} :
             Goto(p, point)
      <4>1. CASE AuthFind(p)
        BY <1>1, <4>1, AuthFindCall, SessionStructure
      <4>2. CASE AuthUndo(p)
        BY <4>2 DEF AuthUndo
      <4> QED BY <2>9, <4>1, <4>2
    <3>5. pc'[p] \in Registered
      BY <2>4, <3>4 DEF Registered, Serving
    <3> QED BY <2>3, <3>1, <3>2, <3>3, <3>5
  <2>10. CASE Register(p)
    <3>1. /\ pc[p] = "reg_cs" /\ pc'[p] = "admit_user" /\ UNCHANGED slot
          /\ connections' = [connections EXCEPT ![me(p).profile] = Inc(@)]
      BY <2>4, <2>10 DEF Register, locals
    <3>2. pc[p] \in Active /\ pc[p] \notin Registered /\ pc'[p] \in Registered
      BY <3>1 DEF Registered, Serving, Active, Points, Holding
    <3>3. me(p).profile' = me(p).profile /\ me(p).profile \in Profiles
      <4>1. slot[p] \in Slots /\ me(p).profile \in Profiles
        BY <1>1, <3>1, <3>2, ChildFacts DEF Profiled
      <4>2. \E u : client' = [client EXCEPT ![slot[p]].user = u]
        BY <2>10 DEF Register
      <4> QED BY <1>1, <3>1, <4>1, <4>2 DEF me, ClientRecord
    <3> SUFFICES ASSUME NEW f \in Profiles
                 PROVE  connections'[f] = Cardinality(InProfile(f)')
      BY DEF ProfileConnections
    <3>4. connections[f] = Cardinality(InProfile(f)) /\ connections[f] \in UInt
      BY <1>1 DEF ProfileConnections, TypeOK
    <3>5. ~Member(p, f) /\ (Member(p, f)' <=> me(p).profile = f)
      BY <3>2, <3>3 DEF Member
    <3>6. connections'[f] = IF me(p).profile = f THEN Inc(connections[f])
                            ELSE connections[f]
      BY <1>1, <3>1, <3>3 DEF TypeOK
    <3>7. me(p).profile = f => connections[f] < UIntMax
      BY <2>1, <3>4, <3>5, MemberCount, SizeAssumption DEF In
    <3> QED BY <2>1, <3>4, <3>5, <3>6, <3>7, MemberCount, UIntFacts DEF In
  <2>11. CASE close_child(p)
    <3>1. /\ pc[p] = "close_cs" /\ pc'[p] = "exit"
          /\ connections' = DropConnection(me(p).profile)
      BY <2>4, <2>11 DEF close_child
    <3>2. pc[p] \in Active /\ pc[p] \in Registered /\ pc'[p] \notin Registered
      BY <3>1 DEF Registered, Serving, Active, Points
    <3>3. me(p).profile \in Profiles
      BY <1>1, <3>2, ChildFacts DEF Profiled
    <3> SUFFICES ASSUME NEW f \in Profiles
                 PROVE  connections'[f] = Cardinality(InProfile(f)')
      BY DEF ProfileConnections
    <3>4. connections[f] = Cardinality(InProfile(f))
      BY <1>1 DEF ProfileConnections
    <3>5. ~Member(p, f)' /\ (Member(p, f) <=> me(p).profile = f)
      BY <3>2 DEF Member
    <3>6. connections'[f] =
            IF me(p).profile # f THEN connections[f]
            ELSE IF connections[f] = 0 THEN 0 ELSE connections[f] - 1
      BY <1>1, <3>1, <3>3 DEF TypeOK, DropConnection
    <3> QED BY <2>1, <3>4, <3>5, <3>6, MemberCount DEF In
  <2>12. CASE AuthSwitch(p)
    <3>1. /\ pc[p] = "switch_cs" /\ UNCHANGED slot
          /\ connections' =
               IF newprf[p] = me(p).profile THEN connections
               ELSE [DropConnection(me(p).profile) EXCEPT ![newprf[p]] = Inc(@)]
          /\ client' = [client EXCEPT ![slot[p]].profile = newprf[p],
                                      ![slot[p]].user = newuser[p]]
      BY <2>12 DEF AuthSwitch
    <3>2. pc[p] \in Active /\ pc[p] \in Registered
      BY <3>1 DEF Registered, Serving, Active, Points
    <3>3. pc'[p] \in Registered
      BY <2>4, <2>12 DEF AuthSwitch, Registered, Serving
    <3>4. /\ me(p).profile \in Profiles /\ newprf[p] \in Profiles
          /\ slot[p] \in Slots
      BY <1>1, <3>1, <3>2, ChildFacts DEF Profiled, Pending
    <3>5. me(p).profile' = newprf[p]
      BY <1>1, <3>1, <3>4 DEF me, ClientRecord
    <3> SUFFICES ASSUME NEW f \in Profiles
                 PROVE  connections'[f] = Cardinality(InProfile(f)')
      BY DEF ProfileConnections
    <3>6. connections[f] = Cardinality(InProfile(f)) /\ connections[f] \in UInt
      BY <1>1 DEF ProfileConnections, TypeOK
    <3>7. /\ Member(p, f) <=> me(p).profile = f
          /\ Member(p, f)' <=> newprf[p] = f
      BY <3>2, <3>3, <3>5 DEF Member
    <3>8. CASE newprf[p] = me(p).profile
      BY <2>1, <3>1, <3>6, <3>7, <3>8, MemberCount DEF In
    <3>9. CASE newprf[p] # me(p).profile
      <4> DEFINE d == DropConnection(me(p).profile)
      <4>1. /\ d \in [Profiles -> UInt]
            /\ d[f] = IF me(p).profile # f THEN connections[f]
                      ELSE IF connections[f] = 0 THEN 0 ELSE connections[f] - 1
        BY <1>1, <3>4, DropConnectionType DEF DropConnection, TypeOK
      <4> HIDE DEF d
      <4>2. connections' = [d EXCEPT ![newprf[p]] = Inc(@)]
        BY <3>1, <3>9 DEF d
      <4>3. connections'[f] = IF newprf[p] = f THEN Inc(d[f]) ELSE d[f]
        BY <3>4, <4>1, <4>2
      <4>4. newprf[p] = f => d[f] = connections[f] /\ connections[f] < UIntMax
        BY <2>1, <3>6, <3>7, <3>9, <4>1, MemberCount, SizeAssumption DEF In
      <4> QED BY <2>1, <3>6, <3>7, <3>9, <4>1, <4>3, <4>4, MemberCount,
          UIntFacts
              DEF In
    <3> QED BY <3>8, <3>9
  <2> QED BY <1>4, <2>5, <2>6, <2>7, <2>8, <2>9, <2>10, <2>11, <2>12
          DEF Child, Advance
<1>5. CASE UNCHANGED vars
  BY <1>2, <1>5 DEF vars, locals, Member, me
<1> QED BY <1>3, <1>4, <1>5 DEF Next

\* PROFILE.connections counts the registered sessions of the profile through
\* every registration, change of profile by AUTHINFO and close_child.
THEOREM ProfilesCounted ==
    ASSUME SafeSignals
    PROVE  Spec => []ProfileConnections
<1>1. Init => ProfileConnections
  <2> SUFFICES ASSUME Init, NEW f \in Profiles
               PROVE  connections[f] = Cardinality(InProfile(f))
    BY DEF ProfileConnections
  <2>1. InProfile(f) = {}
    BY DEF Init, InProfile, Registered, Serving
  <2> QED BY <2>1, FS_EmptySet DEF Init
<1>2. SessionInv /\ ProfileConnections /\ [Next]_vars => ProfileConnections'
  BY NextProfiles DEF ProfileInv
<1> QED BY <1>1, <1>2, SessionInvariant, PTL DEF Spec
=============================================================================
