--------------------------- MODULE SessionRoster ----------------------------
(***************************************************************************)
(* Sessions implements Roster: a child stands in the roster from the end   *)
(* of its registration to the end of close_child, under the key of its     *)
(* USER entry.                                                             *)
(***************************************************************************)
EXTENDS Sessions

NotIn == [address |-> NoIp, name |-> NoKey, profile |-> NoProfile]

\* The name of a client: the key of its USER entry, if it has one.
Name(c) == IF c.user = NULL THEN NoKey ELSE user[c.user].key

Entered(p) ==
    IF pc[p] \in Registered
    THEN [address |-> me(p).ip4addr, name |-> Name(me(p)),
          profile |-> me(p).profile]
    ELSE NotIn

Table == INSTANCE Roster WITH
    Clients <- Procs,
    Addresses <- Ips,
    HostName <- HostKey,
    Accepted <- AuthUsers,
    NoName <- NoKey,
    StartProfile <- [ip \in Ips |-> IpLookup(AclProfile[ip], ip)],
    Open <- Profiles \ Disabled,
    Limit <- [ip \in Ips |-> IF ip \in Unlimit THEN 0 ELSE HostMax(ip)],
    Outside <- NotIn,
    roster <- [p \in Procs |-> Entered(p)],
    connections <- connections

\* Whatever the children do to slots, entries and counters in between, what
\* others see is a roster: a client comes in once, keeps its name and profile
\* until its own AUTHINFO moves it, is never renamed or counted off by
\* another session's steps, and takes its count with it (client.c, reader.c).
ImplementsRoster == Table!Spec
=============================================================================
