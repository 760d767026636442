------------------------------ MODULE MCReload ------------------------------
(***************************************************************************)
(* Small instances of Reload for TLC.                                      *)
(***************************************************************************)
EXTENDS Reload

CONSTANTS s1, s2

\* Lists that are not sorted, that repeat a group, that share groups.
Answers == [l \in Levels |-> IF l = 1 THEN {<<3, 1>>, <<2>>}
                             ELSE {<<4, 2, 4, 1>>}]

\* The server of the first level is asked for two patterns.
Split == [l \in Levels |-> IF l = 1 THEN 2 ELSE 1]

Waiting == {"top", "select"}
Reloading == Waiting \cup {"rest"}
=============================================================================
