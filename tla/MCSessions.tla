----------------------------- MODULE MCSessions -----------------------------
(***************************************************************************)
(* Small instances of Sessions for TLC.  Every configuration has two       *)
(* addresses or fewer, a profile "A" for the ACLs, a profile "B" for       *)
(* authenticated users and perhaps a disabled one, "C"; the counters wrap  *)
(* after UIntMax.                                                          *)
(***************************************************************************)
EXTENDS SessionRoster, TLC

CONSTANTS A, B, C, i1, i2, h1, h2, bob, eve

One  == [f \in Profiles |-> 1]
Two  == [f \in Profiles |-> 2]
Many == [f \in Profiles |-> 9]
NoneInB == [f \in Profiles |-> IF f = A THEN 9 ELSE 0]
OneInB == [f \in Profiles |-> IF f = A THEN 9 ELSE 1]
ThreeInA == [f \in Profiles |-> IF f = A THEN 3 ELSE 1]
TwoInA == [f \in Profiles |-> IF f = A THEN 2 ELSE 1]

NoMap  == [f \in Profiles |-> Ips]
NoFail == [f \in Profiles |-> NoProfile]

\* Every address starts in A under a host name of its own.
AllInA   == [i \in Ips |-> A]
OwnNames == [i \in Ips |-> IF i = i1 THEN h1 ELSE h2]
OneName  == [i \in Ips |-> h1]

\* Authenticated users belong to B, by the auth line or by the module's answer.
AuthInB  == [k \in AuthUsers |-> B]
NoAnswer == [k \in AuthUsers |-> {NoProfile}]
Answers  == [k \in AuthUsers |-> {NoProfile, B, UnknownProfile}]
\* ... or to the disabled profile.
MoreAnswers == [k \in AuthUsers |-> {NoProfile, B, C, UnknownProfile}]

\* B serves only i1; everyone else falls to A.
MapOfB  == [f \in Profiles |-> IF f = B THEN {i1} ELSE Ips]
FailOfB == [f \in Profiles |-> IF f = B THEN A ELSE NoProfile]

Children == Permutations(Procs)
=============================================================================
