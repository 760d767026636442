----------------------------- MODULE MCBackend ------------------------------
(***************************************************************************)
(* Small instances of Backend for TLC: servers 1 and 2 share a level, the  *)
(* servers after them have one of their own.                               *)
(***************************************************************************)
EXTENDS Backend, TLC

CONSTANTS g1, g2

\* g1 is listed by server 1, every other group by the last server.
Listed == [g \in Newsgroups |-> IF g = g1 THEN 1 ELSE NumServers]

Pattern == [s \in Servers |-> IF s < 3 THEN 1 ELSE s]

Balance == [s \in Servers |-> IF s < 3 THEN "balance" ELSE "single"]
Single  == [s \in Servers |-> "single"]
Backup  == [s \in Servers |-> IF s < 3 THEN "backup" ELSE "single"]

NoLimit == [s \in Servers |-> 0]
OneEach == [s \in Servers |-> 1]
OneOnSecond == [s \in Servers |-> IF s = 2 THEN 1 ELSE 0]

Up        == [s \in Servers |-> {"up"}]
UpOrDown  == [s \in Servers |-> {"up", "down"}]
AllDown   == [s \in Servers |-> {"down"}]
Rejecting == [s \in Servers |-> {"up", "reject", "mute"}]

\* Server 1 is down and its backup up; anything may happen to the others.
SecondUp == [s \in Servers |-> IF s = 1 THEN {"down"} ELSE IF s = 2 THEN {"up"}
                               ELSE {"up", "down", "reject", "mute"}]

\* A signal anywhere, and anywhere but between the increment and the reset of a
\* balancer's position.
Anywhere == Points \ {"gone"}
NotRolling == Points \ {"gone", "wrap"}

Children == Permutations(Sessions)
=============================================================================
