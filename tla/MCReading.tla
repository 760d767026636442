----------------------------- MODULE MCReading ------------------------------
(***************************************************************************)
(* Instances of Reading for TLC.                                           *)
(***************************************************************************)
EXTENDS Reading, TLC

CONSTANTS s1, s2        \* two sessions of one user, from one host

MCHost == [s \in {s1, s2} |-> "host"]

\* An empty article, and one whose only line is a dot, which the server
\* doubles.
Empty   == <<".", "CR", "LF">>
DotLine == <<".", ".", "CR", "LF", ".", "CR", "LF">>

MCArticles   == {Empty, DotLine}
MCArticlesOf == s1 :> {DotLine} @@ s2 :> {Empty}
MCPieces     == s1 :> {1, 3, 5, 6} @@ s2 :> {3}
MCCommands   == s1 :> 2 @@ s2 :> 3

\* The points of the serving part: TERM in close_child is another matter.
ServingOnly == Serving
=============================================================================
