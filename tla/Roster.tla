------------------------------- MODULE Roster -------------------------------
(***************************************************************************)
(* What the session table promises: every client that has been let in      *)
(* stands in the roster once, under a name and in a profile it is entitled *)
(* to, no address has more clients in it than its limit, and the counter   *)
(* of a profile moves in the same step as the client.                      *)
(*                                                                         *)
(* There are no slots here, no USER entries that appear and disappear, no  *)
(* semaphore and no program points; Sessions implements this (see          *)
(* SessionRoster).                                                         *)
(***************************************************************************)
EXTENDS Integers, FiniteSets

CONSTANTS
    Clients,
    Addresses,
    HostName,       \* per address: the name its clients come in under
    Accepted,       \* the names the auth modules accept
    NoName,         \* the name of a client the USER table had no room for
    Profiles,
    StartProfile,   \* per address: the profile its clients come in with
    Open,           \* the profiles a client may move to
    Limit,          \* per address: the most clients it may have; 0 is no limit
    Outside         \* stands for a client that is not in the roster

VARIABLES
    roster,         \* the entry of each client, or Outside
    connections     \* per profile: the number of its clients

vars == <<roster, connections>>

In(c) == roster[c] # Outside

From(a) == {c \in Clients : In(c) /\ roster[c].address = a}

Init ==
    /\ roster = [c \in Clients |-> Outside]
    /\ connections = [f \in Profiles |-> 0]

\* A client comes in.
Enter(c) ==
    /\ ~In(c)
    /\ \E a \in Addresses :
       \E n \in {HostName[a], NoName} :
          /\ roster' = [roster EXCEPT ![c] =
                [address |-> a, name |-> n, profile |-> StartProfile[a]]]
          /\ connections' = [connections EXCEPT ![StartProfile[a]] = @ + 1]
          /\ Limit[a] > 0 => Cardinality(From(a)) < Limit[a]

\* AUTHINFO gives it another name and maybe another profile.
Move(c) ==
    /\ In(c)
    /\ \E n \in Accepted \cup {NoName}, f \in Open :
          /\ roster' = [roster EXCEPT ![c] =
                [address |-> roster[c].address, name |-> n, profile |-> f]]
          /\ connections' =
                [g \in Profiles |->
                    connections[g] + (IF g = f THEN 1 ELSE 0)
                        - (IF g = roster[c].profile THEN 1 ELSE 0)]

Leave(c) ==
    /\ In(c)
    /\ roster' = [roster EXCEPT ![c] = Outside]
    /\ connections' = [connections EXCEPT ![roster[c].profile] = @ - 1]

Next == \E c \in Clients : Enter(c) \/ Move(c) \/ Leave(c)

Spec == Init /\ [][Next]_vars
=============================================================================
