--------------------------- MODULE Backend_proofs ---------------------------
(***************************************************************************)
(* Proofs about Backend, for every number of sessions, servers and levels, *)
(* whatever the servers answer: what is known of a session while it picks  *)
(* a server, connects and fails; that who pushed the balancer's position   *)
(* past the end of its level resets it; that SERVER.connections is the     *)
(* number of sessions connected to the server; that a session with a group *)
(* is on a server that carries it.                                         *)
(***************************************************************************)
EXTENDS Backend, Finite_proofs

-----------------------------------------------------------------------------
(* Types.                                                                  *)

ClientRec ==
    [at : Points, connected : BOOLEAN, groupserver : Servers \cup {NULL},
     currserver : Servers \cup {NULL}, group : Newsgroups \cup {NoGroup},
     error : BOOLEAN, sock : {"none", "open", "closed", "post"},
     open : Nat, postsock : BOOLEAN]

ReqRec ==
    [cmd : {"none", "group", "listgroup", "xover", "article", "stat"},
     new : Newsgroups \cup {NoGroup}, target : Servers \cup {NULL},
     cand : Servers \cup {NULL}, primary : Servers \cup {NULL},
     next : 1 .. NumServers + 1, oldlev : Levels \cup {0},
     olds : Servers \cup {NULL}]

Stores ==
    {NoStore}
    \cup [what : {"connections"}, of : Servers, val : 0 .. UIntMax]
    \cup [what : {"balance_pos"}, of : Levels, val : Nat]

SharedTypes ==
    /\ connections \in [Servers -> 0 .. UIntMax]
    /\ balance_pos \in [Levels -> Nat]
    /\ loaded \in BOOLEAN
    /\ pend \in [Sessions -> Stores]

ClientTypes ==
    /\ cl \in [Sessions -> ClientRec]
    /\ req \in [Sessions -> ReqRec]

LEMMA LevelFacts ==
    /\ 1 \in Servers /\ NULL \notin Servers
    /\ Servers \subseteq Nat
    /\ \A s \in Servers : Level[s] \in Levels
    /\ \A l \in Levels : /\ IsFiniteSet(OfLevel(l))
                         /\ Cardinality(OfLevel(l)) \in Nat \ {0}
<1>1. 1 \in Servers /\ NULL \notin Servers /\ Servers \subseteq Nat
  BY ServerAssumption DEF Servers, NULL
<1>2. \A s \in Servers : Level[s] \in Levels
  BY DEF Levels
<1>3. ASSUME NEW l \in Levels
      PROVE  IsFiniteSet(OfLevel(l)) /\ Cardinality(OfLevel(l)) \in Nat \ {0}
  <2>1. IsFiniteSet(Servers)
    BY ServerAssumption, FS_Interval DEF Servers
  <2>2. IsFiniteSet(OfLevel(l))
    BY <2>1, FS_Subset DEF OfLevel
  <2>3. OfLevel(l) # {}
    BY DEF OfLevel, Levels
  <2>4. Cardinality(OfLevel(l)) \in Nat /\ Cardinality(OfLevel(l)) # 0
    BY <2>2, <2>3, FS_CardinalityType, FS_EmptySet
  <2> QED
    BY <2>2, <2>4
<1> QED
  BY <1>1, <1>2, <1>3

LEMMA StartFacts ==
    /\ StartPosition \in [Levels -> Nat]
    /\ \A l \in Levels : StartPosition[l] < Cardinality(OfLevel(l))
<1> SUFFICES ASSUME NEW l \in Levels
             PROVE  /\ StartPosition[l] \in Nat
                    /\ StartPosition[l] < Cardinality(OfLevel(l))
  BY DEF StartPosition
<1>1. \A n \in Nat \ {0} : 2 % n \in Nat /\ 2 % n < n
  OBVIOUS
<1>2. Cardinality(OfLevel(l)) \in Nat \ {0}
  BY LevelFacts
<1> QED
  BY <1>1, <1>2 DEF StartPosition

\* A counter that is stored now or later keeps its type.
LEMMA CountTypes ==
    ASSUME SharedTypes, NEW p \in Sessions, NEW S \in SUBSET Servers,
           NEW d \in {-1, 1}, Count(p, S, d)
    PROVE  /\ connections' \in [Servers -> 0 .. UIntMax]
           /\ pend' \in [Sessions -> Stores]
<1>1. ASSUME NEW s \in Servers
      PROVE  (connections[s] + d) % (UIntMax + 1) \in 0 .. UIntMax
  <2>1. connections[s] + d \in Int /\ UIntMax + 1 \in Nat \ {0}
    BY ServerAssumption DEF SharedTypes
  <2>2. \A x \in Int, n \in Nat \ {0} : x % n \in 0 .. n - 1
    OBVIOUS
  <2> QED
    <3>1. UIntMax \in Nat /\ (UIntMax + 1) - 1 = UIntMax
      BY ServerAssumption
    <3> QED
      BY <2>1, <2>2, <3>1
<1>2. CASE "race" \notin Faults \/ S = {}
  <2>1. pend' = pend
    BY <1>2 DEF Count
  <2>2. connections' = [s \in Servers |->
                          IF s \in S THEN (connections[s] + d) % (UIntMax + 1)
                          ELSE connections[s]]
    BY <1>2 DEF Count
  <2> QED
    BY <1>1, <2>1, <2>2 DEF SharedTypes
<1>3. ASSUME NEW s \in S, connections' = connections,
             pend' = [pend EXCEPT ![p] =
                        [what |-> "connections", of |-> s,
                         val |-> (connections[s] + d) % (UIntMax + 1)]]
      PROVE  /\ connections' \in [Servers -> 0 .. UIntMax]
             /\ pend' \in [Sessions -> Stores]
  <2>1. [what |-> "connections", of |-> s,
         val |-> (connections[s] + d) % (UIntMax + 1)] \in Stores
    BY <1>1 DEF Stores
  <2> QED
    BY <1>3, <2>1 DEF SharedTypes
<1> QED
  BY <1>2, <1>3 DEF Count

-----------------------------------------------------------------------------
(* What is known of a session.                                             *)

\* The points of get_next_server and what it calls, where no connection is
\* open, and all of connect_groupserver.
Picking  == {"pick", "roll", "wrap", "room", "connect", "retry"}
Choosing == {"select", "primary", "login"} \cup Picking

\* A connected session has a server, its name for the log, and an open socket.
\* POST forgets open connections: the count is kept without it.
Sound(c) ==
    /\ c.connected => /\ c.groupserver # NULL
                      /\ c.currserver = c.groupserver
                      /\ c.sock = "open"
    /\ c.sock = "open" => c.open > 0
    /\ "post" \notin Commands /\ ~ c.error =>
          c.open = (IF c.connected THEN 1 ELSE 0)

Settled(c) == ~ c.connected => c.groupserver = NULL

\* While a server is chosen: a server that was tried and failed is in
\* groupserver, and primary then is not NULL, so that Down clears it.
Placed(c, r) ==
    /\ c.at \notin Picking => Settled(c)
    /\ c.at \in Picking \cup {"primary"} => ~ c.connected
    /\ c.at = "login" => c.connected
    /\ c.at \in Choosing => r.target \in Servers
    /\ c.at \in {"roll", "wrap", "room", "connect", "login"} =>
          r.cand \in Servers
    /\ c.at \in {"connect", "login", "retry"} => r.primary # NULL
    /\ c.at \in Picking /\ c.groupserver # NULL => r.primary # NULL

Good(c, r) == Sound(c) /\ Placed(c, r)

\* The two functions that may have to give up a connection.
Idle(c) == c \in ClientRec /\ Sound(c) /\ Settled(c)

LEMMA SetError ==
    ASSUME NEW c \in ClientRec, Idle(c)
    PROVE  /\ Idle(set_errormsg(c)) /\ set_errormsg(c).error
           /\ set_errormsg(c).at = c.at
<1>1. CASE c.error
  BY <1>1 DEF set_errormsg
<1>2. CASE ~ c.error
  <2> DEFINE d == [at |-> c.at, connected |-> FALSE,
                   groupserver |-> IF c.connected THEN NULL ELSE c.groupserver,
                   currserver |-> c.currserver, group |-> c.group,
                   error |-> TRUE, sock |-> c.sock, open |-> c.open,
                   postsock |-> c.postsock]
  <2>1. set_errormsg(c) = d
    BY <1>2 DEF set_errormsg, ClientRec
  <2>2. d \in ClientRec
    BY DEF ClientRec
  <2> HIDE DEF d
  <2>3. Sound(d) /\ Settled(d) /\ d.error /\ d.at = c.at
    BY DEF d, Idle, Sound, Settled
  <2> QED
    BY <2>1, <2>2, <2>3 DEF Idle
<1> QED
  BY <1>1, <1>2

LEMMA Disconnect ==
    ASSUME NEW c \in ClientRec, Idle(c), NEW e \in BOOLEAN
    PROVE  /\ Idle(disconnect_server(c, e))
           /\ ~ disconnect_server(c, e).connected
           /\ disconnect_server(c, e).at = c.at
<1>1. CASE ~ c.connected
  BY <1>1 DEF disconnect_server
<1>2. CASE c.connected
  <2> DEFINE d == [at |-> c.at, connected |-> FALSE, groupserver |-> NULL,
                   currserver |-> c.currserver, group |-> NoGroup,
                   error |-> c.error \/ e, sock |-> "closed",
                   open |-> c.open - 1, postsock |-> c.postsock]
  <2>1. disconnect_server(c, e) = d
    BY <1>2 DEF disconnect_server, ClientRec
  <2>2. c.open > 0 /\ c.open \in Nat
    BY <1>2 DEF Idle, Sound, ClientRec
  <2>3. d \in ClientRec
    BY <2>2 DEF ClientRec
  <2>4. Sound(d) /\ Settled(d)
    <3>1. "post" \notin Commands /\ ~ c.error => c.open = 1
      BY <1>2 DEF Idle, Sound
    <3>2. /\ d.connected = FALSE /\ d.groupserver = NULL /\ d.sock = "closed"
          /\ d.open = c.open - 1 /\ (c.error => d.error)
      BY DEF ClientRec
    <3> QED
      BY <3>1, <3>2 DEF Sound, Settled
  <2> QED
    BY <2>1, <2>3, <2>4 DEF Idle
<1> QED
  BY <1>1, <1>2

LEMMA QuietDisconnect ==
    ASSUME NEW c \in ClientRec, Idle(c)
    PROVE  /\ Idle(quiet_disconnect_server(c))
           /\ quiet_disconnect_server(c).at = c.at
<1>1. ASSUME NEW n \in Nat, n = IF c.sock = "open" THEN c.open - 1 ELSE c.open
      PROVE  /\ Idle(quiet_disconnect_server(c))
             /\ quiet_disconnect_server(c).at = c.at
  <2> DEFINE d == [at |-> c.at, connected |-> FALSE, groupserver |-> NULL,
                   currserver |-> c.currserver, group |-> c.group,
                   error |-> c.error, sock |-> "closed",
                   open |-> n, postsock |-> c.postsock]
  <2>1. quiet_disconnect_server(c) = d
    <3>1. quiet_disconnect_server(c) =
              [c EXCEPT !.connected = FALSE, !.groupserver = NULL,
                        !.sock = "closed", !.open = n]
      BY <1>1 DEF quiet_disconnect_server
    <3> QED
      BY <3>1 DEF ClientRec
  <2>2. d \in ClientRec
    BY DEF ClientRec
  <2>3. Sound(d) /\ Settled(d)
    BY <1>1 DEF Idle, Sound, Settled
  <2> QED
    BY <2>1, <2>2, <2>3 DEF Idle
<1>2. (IF c.sock = "open" THEN c.open - 1 ELSE c.open) \in Nat
  BY DEF Idle, Sound, ClientRec
<1> QED
  BY <1>1, <1>2

\* Where a session is says nothing of its connection.
LEMMA GotoFacts ==
    ASSUME NEW c \in ClientRec, NEW x \in Points
    PROVE  /\ Goto(c, x) \in ClientRec /\ Goto(c, x).at = x
           /\ Goto(c, x).connected = c.connected
           /\ Goto(c, x).groupserver = c.groupserver
           /\ Sound(c) => Sound(Goto(c, x))
           /\ Idle(c) => Idle(Goto(c, x))
<1> DEFINE d == [at |-> x, connected |-> c.connected,
                 groupserver |-> c.groupserver,
                 currserver |-> c.currserver, group |-> c.group,
                 error |-> c.error, sock |-> c.sock,
                 open |-> c.open, postsock |-> c.postsock]
<1>1. Goto(c, x) = d
  BY DEF Goto, ClientRec
<1>2. d \in ClientRec
  BY DEF ClientRec
<1>3. Sound(c) => Sound(d)
  BY DEF Sound
<1> QED
  BY <1>1, <1>2, <1>3 DEF Idle, Settled

\* Nor does its group, nor the connection to the post server.
LEMMA GroupFacts ==
    ASSUME NEW c \in ClientRec, Idle(c), NEW g \in Newsgroups \cup {NoGroup}
    PROVE  Idle([c EXCEPT !.group = g]) /\ [c EXCEPT !.group = g].at = c.at
<1> DEFINE d == [at |-> c.at, connected |-> c.connected,
                 groupserver |-> c.groupserver,
                 currserver |-> c.currserver, group |-> g,
                 error |-> c.error, sock |-> c.sock,
                 open |-> c.open, postsock |-> c.postsock]
<1>1. [c EXCEPT !.group = g] = d
  BY DEF ClientRec
<1>2. d \in ClientRec
  BY DEF ClientRec
<1>3. Sound(d) /\ Settled(d)
  BY DEF Idle, Sound, Settled
<1> QED
  BY <1>1, <1>2, <1>3 DEF Idle

LEMMA PostsockFacts ==
    ASSUME NEW c \in ClientRec, Idle(c), NEW b \in BOOLEAN
    PROVE  /\ Idle([c EXCEPT !.postsock = b])
           /\ [c EXCEPT !.postsock = b].at = c.at
           /\ [c EXCEPT !.postsock = b].connected = c.connected
           /\ [c EXCEPT !.postsock = b].groupserver = c.groupserver
<1> DEFINE d == [at |-> c.at, connected |-> c.connected,
                 groupserver |-> c.groupserver,
                 currserver |-> c.currserver, group |-> c.group,
                 error |-> c.error, sock |-> c.sock,
                 open |-> c.open, postsock |-> b]
<1>1. [c EXCEPT !.postsock = b] = d
  BY DEF ClientRec
<1>2. d \in ClientRec
  BY DEF ClientRec
<1>3. Sound(d) /\ Settled(d)
  BY DEF Idle, Sound, Settled
<1> QED
  BY <1>1, <1>2, <1>3 DEF Idle

LEMMA FreshFacts == Idle(Fresh) /\ ~ Fresh.connected /\ Fresh.at = "gone"
<1>1. Fresh \in ClientRec
  BY DEF Fresh, ClientRec, Points
<1>2. Sound(Fresh) /\ Settled(Fresh) /\ ~ Fresh.connected /\ Fresh.at = "gone"
  BY DEF Fresh, Sound, Settled
<1> QED
  BY <1>1, <1>2 DEF Idle

LEMMA RequestFacts ==
    /\ NoReq \in ReqRec /\ NoReq.cmd = "none"
    /\ \A cmd \in {"group", "listgroup", "xover", "article", "stat"},
          g \in Newsgroups \cup {NoGroup}, s \in Servers \cup {NULL} :
          /\ Request(cmd, g, s) \in ReqRec
          /\ Request(cmd, g, s).target = s /\ Request(cmd, g, s).cmd = cmd
<1> DEFINE Q(cmd, g, s) ==
      [cmd |-> cmd, new |-> g, target |-> s, cand |-> NULL,
       primary |-> NULL, next |-> 1, oldlev |-> 0, olds |-> NULL]
<1>1. 1 \in 1 .. NumServers + 1
  BY ServerAssumption
<1>2. \A cmd \in {"none", "group", "listgroup", "xover", "article", "stat"},
         g \in Newsgroups \cup {NoGroup}, s \in Servers \cup {NULL} :
         Q(cmd, g, s) \in ReqRec
  BY <1>1 DEF ReqRec
<1>3. NoReq = Q("none", NoGroup, NULL)
  BY DEF NoReq
<1>4. ASSUME NEW cmd \in {"group", "listgroup", "xover", "article", "stat"},
             NEW g \in Newsgroups \cup {NoGroup}, NEW s \in Servers \cup {NULL}
      PROVE  Request(cmd, g, s) = Q(cmd, g, s)
  <2> DEFINE a == [NoReq EXCEPT !.cmd = cmd]
             b == [a EXCEPT !.new = g]
  <2>1. a = Q(cmd, NoGroup, NULL)
    BY <1>3
  <2> HIDE DEF a
  <2>2. b = Q(cmd, g, NULL)
    BY <2>1
  <2> HIDE DEF b
  <2>3. [b EXCEPT !.target = s] = Q(cmd, g, s)
    BY <2>2
  <2> QED
    BY <2>3 DEF Request, a, b
<1> QED
  BY <1>2, <1>3, <1>4

-----------------------------------------------------------------------------
(* The invariant, and how steps keep it.                                   *)

Inv ==
    /\ SharedTypes /\ ClientTypes
    /\ \A p \in Sessions : Good(cl[p], req[p])

LEMMA IdleIsGood ==
    ASSUME NEW c, Idle(c), c.at \notin Choosing, NEW r
    PROVE  Good(c, r)
  BY DEF Idle, Good, Placed, Choosing, Picking

LEMMA GoodIsIdle ==
    ASSUME Inv, NEW p \in Sessions
    PROVE  /\ cl[p] \in ClientRec /\ req[p] \in ReqRec
           /\ Sound(cl[p]) /\ Placed(cl[p], req[p])
           /\ cl[p].at \notin Picking => Idle(cl[p])
  BY DEF Inv, ClientTypes, Good, Placed, Idle

LEMMA SessionStep ==
    ASSUME Inv, NEW p \in Sessions, NEW d \in ClientRec, NEW r \in ReqRec,
           Good(d, r), SharedTypes',
           cl' = [cl EXCEPT ![p] = d], req' = [req EXCEPT ![p] = r]
    PROVE  Inv'
<1>1. ClientTypes'
  BY DEF Inv, ClientTypes
<1>2. ASSUME NEW q \in Sessions PROVE Good(cl'[q], req'[q])
  <2>1. CASE q = p
    <3>1. cl'[q] = d /\ req'[q] = r
      BY <2>1 DEF Inv, ClientTypes
    <3> QED
      BY <3>1
  <2>2. CASE q # p
    <3>1. cl'[q] = cl[q] /\ req'[q] = req[q]
      BY <2>2 DEF Inv, ClientTypes
    <3> QED
      BY <3>1 DEF Inv
  <2> QED
    BY <2>1, <2>2
<1> QED
  BY <1>1, <1>2 DEF Inv, Good, Sound, Placed, Settled

\* The locals are what they were: req' = [req EXCEPT ![p] = req[p]].
LEMMA SameReq ==
    ASSUME Inv, NEW p \in Sessions, req' = req
    PROVE  req' = [req EXCEPT ![p] = req[p]]
  BY DEF Inv, ClientTypes

LEMMA SharedKept ==
    ASSUME SharedTypes, UNCHANGED <<shared, pend>> PROVE SharedTypes'
  BY DEF SharedTypes, shared

LEMMA BecomeShared ==
    ASSUME Inv, NEW p \in Sessions, NEW d, Become(p, d)
    PROVE  SharedTypes' /\ cl' = [cl EXCEPT ![p] = d]
<1> DEFINE S == IF d.groupserver = NULL THEN {cl[p].groupserver} \ {NULL}
                ELSE {}
<1>1. S \in SUBSET Servers
  BY GoodIsIdle DEF ClientRec
<1>2. Count(p, S, -1)
  BY DEF Become
<1> HIDE DEF S
<1>3. /\ connections' \in [Servers -> 0 .. UIntMax]
      /\ pend' \in [Sessions -> Stores]
  BY <1>1, <1>2, CountTypes DEF Inv
<1> QED
  BY <1>3 DEF Inv, SharedTypes, Become

LEMMA BecomeIdle ==
    ASSUME Inv, NEW p \in Sessions, NEW d, Idle(d), d.at \notin Choosing,
           Become(p, d), req' = req
    PROVE  Inv'
<1>1. d \in ClientRec /\ Good(d, req[p])
  BY IdleIsGood DEF Idle
<1> QED
  BY <1>1, BecomeShared, SameReq, SessionStep, GoodIsIdle

LEMMA LocalIdle ==
    ASSUME Inv, NEW p \in Sessions, NEW d, Idle(d), d.at \notin Choosing,
           NEW r \in ReqRec, Local(p, d, r)
    PROVE  Inv'
<1>1. d \in ClientRec /\ Good(d, r)
  BY IdleIsGood DEF Idle
<1>2. SharedTypes'
  BY SharedKept DEF Local, Inv
<1> QED
  BY <1>1, <1>2, SessionStep DEF Local

LEMMA CrashStep ==
    ASSUME Inv, NEW p \in Sessions, Crash(p) PROVE Inv'
<1>1. Local(p, Fresh, NoReq)
  BY DEF Crash, Local
<1> QED
  BY <1>1, LocalIdle, FreshFacts, RequestFacts DEF Choosing, Picking

-----------------------------------------------------------------------------
(* Commands.                                                               *)

LEMMA ReadFacts ==
    ASSUME Inv, NEW p \in Sessions, cl[p].at = "loop"
    PROVE  /\ Idle(cl[p]) /\ Idle(Read(p)) /\ Read(p).at = "loop"
           /\ Read(p).connected = cl[p].connected
           /\ Read(p).groupserver = cl[p].groupserver
<1>1. cl[p] \in ClientRec /\ Idle(cl[p])
  BY GoodIsIdle DEF Picking
<1>2. Read(p) = [cl[p] EXCEPT !.postsock = FALSE]
  BY DEF Read
<1> QED
  BY <1>1, <1>2, PostsockFacts

\* Where an idle session goes when no server is to be chosen.
Resting == Points \ Choosing

LEMMA GotoIdle ==
    ASSUME NEW c, Idle(c), NEW x \in Resting
    PROVE  /\ Idle(Goto(c, x)) /\ Goto(c, x).at \notin Choosing
  BY GotoFacts DEF Idle, Resting

LEMMA RestingPoints ==
    {"gone", "loop", "ask", "pass", "head", "next", "stat", "end"}
        \subseteq Resting
  BY DEF Resting, Points, Choosing, Picking

LEMMA SelectGood ==
    ASSUME NEW c, Idle(c), c.at = "select", NEW r, r.target \in Servers
    PROVE  Good(c, r)
  BY DEF Idle, Good, Placed, Choosing, Picking

LEMMA GroupStep ==
    ASSUME Inv, NEW p \in Sessions, NEW cmd \in {"group", "listgroup"},
           NEW g \in Newsgroups, group(p, cmd, g)
    PROVE  Inv'
<1> DEFINE s == ServerOf[g]
<1>1. s \in Servers /\ Request(cmd, g, s) \in ReqRec
      /\ Request(cmd, g, s).target = s
  BY ServerAssumption, RequestFacts
<1>2. cl[p].at = "loop"
  BY DEF group, Reads, At
<1>3. Idle(Read(p))
  BY <1>2, ReadFacts
<1> HIDE DEF s
<1>4. ASSUME NEW x \in {"ask", "loop", "pass"},
             Local(p, Goto(Read(p), x), Request(cmd, g, s))
      PROVE  Inv'
  <2>1. x \in Resting
    BY RestingPoints
  <2> QED
    BY <1>1, <1>3, <1>4, <2>1, GotoIdle, LocalIdle
<1>5. ASSUME NEW e \in BOOLEAN, NEW d,
             d = Read(p) \/ d = disconnect_server(Read(p), e),
             Become(p, [Goto(d, "select") EXCEPT !.group = g]),
             req' = [req EXCEPT ![p] = Request(cmd, g, s)]
      PROVE  Inv'
  <2> DEFINE f == [Goto(d, "select") EXCEPT !.group = g]
  <2>1. Idle(d)
    BY <1>3, <1>5, Disconnect DEF Idle
  <2>2. Idle(Goto(d, "select")) /\ Goto(d, "select").at = "select"
    BY <2>1, GotoFacts DEF Idle, Points
  <2>3. Idle(f) /\ f.at = "select"
    BY <2>2, GroupFacts DEF Idle
  <2> HIDE DEF f
  <2>4. Good(f, Request(cmd, g, s))
    BY <1>1, <2>3, SelectGood
  <2>5. SharedTypes' /\ cl' = [cl EXCEPT ![p] = f]
    BY <1>5, BecomeShared DEF f
  <2> QED
    BY <1>1, <1>5, <2>3, <2>4, <2>5, SessionStep DEF Idle
<1>6. QuitFails \subseteq BOOLEAN
  BY DEF QuitFails
<1> QED
  BY <1>4, <1>5, <1>6 DEF group, s

LEMMA BecomeRests ==
    ASSUME Inv, NEW p \in Sessions, NEW c, Idle(c), NEW x \in Resting,
           Become(p, Goto(c, x)), req' = req
    PROVE  Inv'
  BY GotoIdle, BecomeIdle

LEMMA LocalRests ==
    ASSUME Inv, NEW p \in Sessions, NEW c, Idle(c), NEW x \in Resting,
           NEW r \in ReqRec, Local(p, Goto(c, x), r)
    PROVE  Inv'
  BY GotoIdle, LocalIdle

LEMMA FailsRests ==
    ASSUME Inv, NEW p \in Sessions, NEW c, Idle(c), NEW x \in Resting,
           Fails(p, Goto(c, x))
    PROVE  Inv'
  BY BecomeRests, CrashStep DEF Fails

\* quit: the server is given up, with a QUIT that may fail.
LEMMA QuitRests ==
    ASSUME Inv, NEW p \in Sessions, NEW c, Idle(c), NEW e \in QuitFails,
           Become(p, Goto(disconnect_server(c, e), "loop")), req' = req
    PROVE  Inv'
<1>1. e \in BOOLEAN
  BY DEF QuitFails
<1>2. Idle(disconnect_server(c, e))
  BY <1>1, Disconnect DEF Idle
<1> QED
  BY <1>2, BecomeRests, RestingPoints

LEMMA IdleAt ==
    ASSUME Inv, NEW p \in Sessions, cl[p].at \in Resting
    PROVE  /\ Idle(cl[p]) /\ Idle(set_errormsg(cl[p]))
           /\ set_errormsg(cl[p]).at = cl[p].at
<1>1. Idle(cl[p])
  BY GoodIsIdle DEF Resting, Choosing
<1> QED
  BY <1>1, SetError DEF Idle

LEMMA SendGroupStep ==
    ASSUME Inv, NEW p \in Sessions, SendGroup(p) PROVE Inv'
<1>1. Idle(cl[p]) /\ Idle(set_errormsg(cl[p]))
  BY IdleAt, RestingPoints DEF SendGroup, At
<1>2. CASE Become(p, Goto(cl[p], IF req[p].cmd = "group" THEN "loop"
                                                         ELSE "pass"))
           /\ req' = req
  BY <1>1, <1>2, BecomeRests, RestingPoints
<1>3. CASE Fails(p, Goto(set_errormsg(cl[p]),
                         IF req[p].cmd = "xover" THEN "pass" ELSE "loop"))
  BY <1>1, <1>3, FailsRests, RestingPoints
<1> QED
  BY <1>2, <1>3 DEF SendGroup

LEMMA NumberSteps ==
    ASSUME Inv, NEW p \in Sessions,
           PassNumber(p) \/ XOver(p) \/ StatNumber(p)
    PROVE  Inv'
<1>1. cl[p].at = "loop"
  BY DEF PassNumber, XOver, StatNumber, Reads, At
<1>2. Idle(Read(p))
  BY <1>1, ReadFacts
<1>3. cl[p].group \in Newsgroups \cup {NoGroup}
  BY GoodIsIdle DEF ClientRec
<1>4. CASE PassNumber(p)
  <2>1. Local(p, Goto(Read(p), "pass"), Request("article", NoGroup, NULL))
    BY <1>4 DEF PassNumber
  <2> QED
    BY <1>2, <2>1, LocalRests, RequestFacts, RestingPoints
<1>5. CASE XOver(p)
  <2>1. Local(p, Goto(Read(p), IF cl[p].groupserver = NULL THEN "ask"
                                                           ELSE "pass"),
              Request("xover", cl[p].group, NULL))
    BY <1>5 DEF XOver
  <2> QED
    BY <1>2, <1>3, <2>1, LocalRests, RequestFacts, RestingPoints
<1>6. CASE StatNumber(p)
  <2>1. Local(p, Goto(Read(p), "stat"), Request("stat", NoGroup, NULL))
    BY <1>6 DEF StatNumber
  <2> QED
    BY <1>2, <2>1, LocalRests, RequestFacts, RestingPoints
<1> QED
  BY <1>4, <1>5, <1>6

LEMMA PassStep ==
    ASSUME Inv, NEW p \in Sessions, passcmd(p) PROVE Inv'
<1>1. Idle(cl[p]) /\ Idle(set_errormsg(cl[p]))
  BY IdleAt, RestingPoints DEF passcmd, At
<1>2. ASSUME NEW c \in {cl[p], set_errormsg(cl[p])}, req' = req,
             \/ Become(p, Goto(c, "loop"))
             \/ \E e \in QuitFails :
                   Become(p, Goto(disconnect_server(c, e), "loop"))
      PROVE  Inv'
  BY <1>1, <1>2, BecomeRests, QuitRests, RestingPoints
<1> QED
  BY <1>2, CrashStep DEF passcmd

LEMMA FindStep ==
    ASSUME Inv, NEW p \in Sessions, NEW cmd \in {"article", "stat"},
           find_article_server(p, cmd)
    PROVE  Inv'
<1> DEFINE s == Read(p).groupserver
           q == Request(cmd, NoGroup, NULL)
<1>1. Idle(Read(p)) /\ s \in Servers \cup {NULL}
  BY ReadFacts DEF find_article_server, Reads, At, Idle, ClientRec
<1>2. q \in ReqRec
  BY RequestFacts
<1> HIDE DEF q, s
<1>3. s # NULL => [q EXCEPT !.oldlev = Level[s], !.olds = s] \in ReqRec
  BY <1>1, <1>2, LevelFacts DEF ReqRec
<1>4. \/ Local(p, Goto(Read(p), "next"), q)
      \/ s # NULL /\ Local(p, Goto(Read(p), "head"),
                           [q EXCEPT !.oldlev = Level[s], !.olds = s])
  BY DEF find_article_server, s, q
<1> QED
  BY <1>1, <1>2, <1>3, <1>4, LocalRests, RestingPoints

LEMMA HeadStep ==
    ASSUME Inv, NEW p \in Sessions, check_headperm(p) PROVE Inv'
<1>1. Idle(cl[p]) /\ Idle(set_errormsg(cl[p]))
  BY IdleAt, RestingPoints DEF check_headperm, At
<1>2. ASSUME NEW x \in {"stat", "pass", "loop", "next"},
             Become(p, Goto(cl[p], x)), req' = req
      PROVE  Inv'
  BY <1>1, <1>2, BecomeRests, RestingPoints
<1>3. CASE Fails(p, Goto(set_errormsg(cl[p]), "next"))
  BY <1>1, <1>3, FailsRests, RestingPoints
<1> QED
  BY <1>2, <1>3 DEF check_headperm

LEMMA NextServerStep ==
    ASSUME Inv, NEW p \in Sessions, NextServer(p) PROVE Inv'
<1>1. Idle(cl[p]) /\ req[p] \in ReqRec
  BY IdleAt, GoodIsIdle, RestingPoints DEF NextServer, At
<1>2. CASE Local(p, Goto(cl[p], "loop"), req[p])
  BY <1>1, <1>2, LocalRests, RestingPoints
<1>3. ASSUME NEW s \in req[p].next .. NumServers,
             Local(p, Goto(cl[p], "select"),
                   [req[p] EXCEPT !.target = s, !.primary = NULL,
                                  !.oldlev = Level[s], !.next = s + 1])
      PROVE  Inv'
  <2> DEFINE r == [req[p] EXCEPT !.target = s, !.primary = NULL,
                                 !.oldlev = Level[s], !.next = s + 1]
             d == Goto(cl[p], "select")
  <2>1. s \in Servers /\ s + 1 \in 1 .. NumServers + 1
    <3>1. req[p].next \in 1 .. NumServers + 1
      BY <1>1 DEF ReqRec
    <3> QED
      BY <1>3, <3>1, ServerAssumption DEF Servers
  <2>2. r \in ReqRec /\ r.target = s
    BY <1>1, <2>1, LevelFacts DEF ReqRec
  <2>3. Idle(d) /\ d.at = "select"
    BY <1>1, GotoFacts DEF Idle, Points
  <2> HIDE DEF r, d
  <2>4. Good(d, r)
    BY <2>1, <2>2, <2>3, SelectGood
  <2>5. SharedTypes'
    BY <1>3, SharedKept DEF Local, Inv
  <2> QED
    BY <1>3, <2>2, <2>3, <2>4, <2>5, SessionStep DEF Local, Idle, r, d
<1> QED
  BY <1>2, <1>3 DEF NextServer

LEMMA CountShared ==
    ASSUME Inv, NEW p \in Sessions, NEW S \in SUBSET Servers,
           NEW d \in {-1, 1}, Count(p, S, d),
           UNCHANGED <<balance_pos, loaded>>
    PROVE  SharedTypes'
<1>1. /\ connections' \in [Servers -> 0 .. UIntMax]
      /\ pend' \in [Sessions -> Stores]
  BY CountTypes DEF Inv
<1> QED
  BY <1>1 DEF Inv, SharedTypes

\* The child is gone, whatever it was doing.
LEMMA EndStep ==
    ASSUME Inv, NEW p \in Sessions, NEW S \in SUBSET Servers,
           Count(p, S, -1), UNCHANGED <<balance_pos, loaded>>,
           cl' = [cl EXCEPT ![p] = Fresh], req' = [req EXCEPT ![p] = NoReq]
    PROVE  Inv'
<1>1. Idle(Fresh) /\ Fresh.at \notin Choosing /\ NoReq \in ReqRec
  BY FreshFacts, RequestFacts DEF Choosing, Picking
<1>2. Fresh \in ClientRec /\ Good(Fresh, NoReq)
  BY <1>1, IdleIsGood DEF Idle
<1>3. SharedTypes'
  BY CountShared
<1> QED
  BY <1>1, <1>2, <1>3, SessionStep

LEMMA StatStep ==
    ASSUME Inv, NEW p \in Sessions, Stat(p) PROVE Inv'
<1>1. Idle(cl[p]) /\ Idle(set_errormsg(cl[p]))
  BY IdleAt, RestingPoints DEF Stat, At
<1>2. ASSUME NEW c \in {cl[p], set_errormsg(cl[p])}, req' = req,
             \/ Become(p, Goto(c, "loop"))
             \/ Become(p, Goto(quiet_disconnect_server(c), "loop"))
      PROVE  Inv'
  <2>1. Idle(c) /\ Idle(quiet_disconnect_server(c))
    BY <1>1, QuietDisconnect DEF Idle
  <2> QED
    BY <1>2, <2>1, BecomeRests, RestingPoints
<1>3. CASE /\ Count(p, {cl[p].groupserver} \ {set_errormsg(cl[p]).groupserver},
                    -1)
           /\ cl' = [cl EXCEPT ![p] = Fresh]
           /\ req' = [req EXCEPT ![p] = NoReq]
           /\ UNCHANGED <<balance_pos, loaded>>
  <2>1. cl[p].groupserver = NULL => set_errormsg(cl[p]).groupserver = NULL
    <3>1. CASE cl[p].error
      BY <3>1 DEF set_errormsg
    <3>2. CASE ~ cl[p].error
      BY <1>1, <3>2 DEF set_errormsg, Idle, ClientRec
    <3> QED
      BY <3>1, <3>2
  <2>2. {cl[p].groupserver} \ {set_errormsg(cl[p]).groupserver}
            \in SUBSET Servers
    BY <1>1, <2>1 DEF Idle, ClientRec
  <2> QED
    BY <1>3, <2>2, EndStep
<1> QED
  BY <1>2, <1>3, CrashStep DEF Stat

LEMMA ModeStep ==
    ASSUME Inv, NEW p \in Sessions, ModeReader(p) PROVE Inv'
<1>1. Idle(Read(p)) /\ Read(p).at = "loop"
  BY ReadFacts DEF ModeReader, Reads, At
<1>2. Idle(set_errormsg(Read(p)))
  BY <1>1, SetError DEF Idle
<1>3. CASE Become(p, Read(p)) /\ req' = req
  BY <1>1, <1>3, BecomeIdle DEF Choosing, Picking
<1>4. CASE Become(p, Goto(set_errormsg(Read(p)), "end")) /\ req' = req
  BY <1>2, <1>4, BecomeRests, RestingPoints
<1> QED
  BY <1>3, <1>4 DEF ModeReader

\* What POST leaves of a session: its open connections are not known.
LEMMA PostFacts ==
    ASSUME "post" \in Commands, NEW c \in ClientRec, ~ c.connected,
           c.groupserver = NULL, NEW k \in {"none", "post"}, NEW b \in BOOLEAN
    PROVE  /\ Idle([c EXCEPT !.sock = k, !.postsock = b])
           /\ [c EXCEPT !.sock = k, !.postsock = b].at = c.at
           /\ [c EXCEPT !.sock = k, !.postsock = b].groupserver = NULL
<1> DEFINE d == [c EXCEPT !.sock = k, !.postsock = b]
<1>1. d \in ClientRec
  BY DEF ClientRec
<1>2. /\ d.connected = c.connected /\ d.groupserver = c.groupserver
      /\ d.sock = k /\ d.at = c.at
  BY DEF ClientRec
<1> HIDE DEF d
<1>3. Sound(d) /\ Settled(d)
  BY <1>2 DEF Sound, Settled
<1> QED
  BY <1>1, <1>2, <1>3 DEF Idle, d

LEMMA PostStep ==
    ASSUME Inv, NEW p \in Sessions, post(p) PROVE Inv'
<1>1. "post" \in Commands /\ cl[p].at = "loop"
  BY DEF post, Reads, At
<1>2. Idle(cl[p]) /\ Idle(set_errormsg(cl[p]))
      /\ set_errormsg(cl[p]).error
  BY <1>1, IdleAt, RestingPoints, SetError DEF Idle
<1>3. CASE Become(p, [cl[p] EXCEPT !.postsock = TRUE]) /\ req' = req
  <2>1. /\ Idle([cl[p] EXCEPT !.postsock = TRUE])
        /\ [cl[p] EXCEPT !.postsock = TRUE].at = "loop"
    BY <1>1, <1>2, PostsockFacts DEF Idle
  <2> QED
    BY <1>3, <2>1, BecomeIdle DEF Choosing, Picking
<1>4. ASSUME NEW e \in BOOLEAN, NEW d,
             d = IF cl[p].connected
                 THEN [cl[p] EXCEPT !.connected = FALSE, !.groupserver = NULL,
                                    !.group = NoGroup, !.error = e]
                 ELSE cl[p],
             Become(p, [d EXCEPT !.sock = "none", !.postsock = FALSE]),
             req' = req
      PROVE  Inv'
  <2>1. /\ d \in ClientRec /\ ~ d.connected /\ d.groupserver = NULL
        /\ d.at = "loop"
    BY <1>1, <1>2, <1>4 DEF Idle, Settled, ClientRec
  <2>2. /\ Idle([d EXCEPT !.sock = "none", !.postsock = FALSE])
        /\ [d EXCEPT !.sock = "none", !.postsock = FALSE].at = "loop"
    BY <1>1, <2>1, PostFacts
  <2> QED
    BY <1>4, <2>2, BecomeIdle DEF Choosing, Picking
<1>5. CASE Fails(p, [Goto(set_errormsg(cl[p]), "end") EXCEPT
                        !.sock = "post", !.postsock = TRUE])
  <2> DEFINE c == Goto(set_errormsg(cl[p]), "end")
  <2>1. /\ Idle(c) /\ c.at = "end"
        /\ c.connected = set_errormsg(cl[p]).connected
    BY <1>2, GotoFacts DEF Idle, Points
  <2>2. ~ set_errormsg(cl[p]).connected
    <3>1. CASE cl[p].error
      BY <1>1, <3>1 DEF post, Reads
    <3>2. CASE ~ cl[p].error
      BY <1>2, <3>2 DEF set_errormsg, Idle, ClientRec
    <3> QED
      BY <3>1, <3>2
  <2>3. /\ Idle([c EXCEPT !.sock = "post", !.postsock = TRUE])
        /\ [c EXCEPT !.sock = "post", !.postsock = TRUE].at = "end"
    <3> HIDE DEF c
    <3>1. c \in ClientRec /\ ~ c.connected /\ c.groupserver = NULL
      BY <2>1, <2>2 DEF Idle, Settled
    <3> QED
      BY <1>1, <2>1, <3>1, PostFacts
  <2>4. CASE Crash(p)
    BY <2>4, CrashStep
  <2>5. CASE Become(p, [c EXCEPT !.sock = "post", !.postsock = TRUE])
             /\ req' = req
    BY <2>3, <2>5, BecomeIdle DEF Choosing, Picking
  <2> QED
    BY <1>5, <2>4, <2>5 DEF Fails
<1>6. ASSUME NEW c \in Unposted(cl[p]), Become(p, c), req' = req
      PROVE  Inv'
  <2>1. CASE c = cl[p]
    BY <1>1, <1>2, <1>6, <2>1, BecomeIdle DEF Choosing, Picking
  <2>2. CASE c = Goto(cl[p], "end")
    BY <1>2, <1>6, <2>2, BecomeRests, RestingPoints
  <2> QED
    BY <2>1, <2>2 DEF Unposted
<1>7. QuitFails \subseteq BOOLEAN
  BY DEF QuitFails
<1>8. CASE send_ihave(p)
  BY <1>3, <1>4, <1>5, <1>7, <1>8 DEF send_ihave
<1> QED
  BY <1>6, <1>8 DEF post

LEMMA IhaveStep ==
    ASSUME Inv, NEW p \in Sessions, ihave(p) PROVE Inv'
<1>1. Idle(Read(p)) /\ Read(p).at = "loop"
  BY ReadFacts DEF ihave, Reads, At
<1>2. PICK e \in BOOLEAN : Become(p, disconnect_server(Read(p), e))
  BY DEF ihave, QuitFails
<1>3. /\ Idle(disconnect_server(Read(p), e))
      /\ disconnect_server(Read(p), e).at = "loop"
  BY <1>1, Disconnect DEF Idle
<1> QED
  BY <1>2, <1>3, BecomeIdle DEF ihave, Choosing, Picking

LEMMA QuitStep ==
    ASSUME Inv, NEW p \in Sessions, client_quit(p) PROVE Inv'
<1> DEFINE S == IF cl[p].connected THEN {cl[p].groupserver} ELSE {}
<1>1. S \in SUBSET Servers
  BY GoodIsIdle DEF Sound, ClientRec
<1> QED
  BY <1>1, EndStep DEF client_quit

LEMMA OtherSteps ==
    ASSUME Inv, NEW p \in Sessions,
           WriteFails(p) \/ Leave(p) \/ Signal(p) \/ Connect(p)
    PROVE  Inv'
<1>1. CASE WriteFails(p)
  <2>1. /\ Idle(set_errormsg(cl[p]))
        /\ set_errormsg(cl[p]).at = "loop"
    BY <1>1, IdleAt, RestingPoints DEF WriteFails, At
  <2> QED
    BY <1>1, <2>1, BecomeIdle DEF WriteFails, Choosing, Picking
<1>2. CASE Leave(p) \/ Signal(p)
  BY <1>2, QuitStep, CrashStep DEF Leave, Signal
<1>3. CASE Connect(p)
  BY <1>3, FreshFacts, RequestFacts, LocalRests, RestingPoints DEF Connect
<1> QED
  BY <1>1, <1>2, <1>3

-----------------------------------------------------------------------------
(* Server selection.                                                       *)

LEMMA ReturnFacts ==
    ASSUME Inv, NEW p \in Sessions, NEW c, Idle(c), NEW ok \in BOOLEAN
    PROVE  Idle(Return(p, ok, c)) /\ Return(p, ok, c).at \in Resting
<1> DEFINE grouping == req[p].cmd \in {"group", "listgroup"}
           d == IF ok /\ grouping THEN [c EXCEPT !.group = req[p].new] ELSE c
           x == IF ~grouping THEN (IF ok THEN "head" ELSE "next")
                ELSE IF ok THEN "ask"
                ELSE IF req[p].cmd = "group" THEN "loop" ELSE "pass"
<1>1. req[p].new \in Newsgroups \cup {NoGroup}
  BY GoodIsIdle DEF ReqRec
<1>2. Idle(d)
  BY <1>1, GroupFacts DEF Idle
<1>3. x \in Resting
  BY RestingPoints
<1>4. Return(p, ok, c) = Goto(d, x)
  BY DEF Return
<1> HIDE DEF d, x
<1> QED
  BY <1>2, <1>3, <1>4, GotoFacts DEF Idle, Resting

\* A session between two choices keeps its locals but for at.
LEMMA ChoosingStep ==
    ASSUME Inv, NEW p \in Sessions, cl[p].at \in Choosing, NEW x \in Choosing,
           NEW r \in ReqRec, Good(Goto(cl[p], x), r), SharedTypes',
           cl' = [cl EXCEPT ![p].at = x], req' = [req EXCEPT ![p] = r]
    PROVE  Inv'
<1>1. cl' = [cl EXCEPT ![p] = Goto(cl[p], x)]
  BY DEF Goto
<1>2. x \in Points
  BY DEF Choosing, Picking, Points
<1> QED
  BY <1>1, <1>2, GotoFacts, GoodIsIdle, SessionStep

\* How Good reads once a session has been moved.
LEMMA MovedGood ==
    ASSUME Inv, NEW p \in Sessions, NEW x \in Choosing, NEW r,
           LET c == cl[p]
           IN /\ x \notin Picking => Settled(c)
              /\ x \in Picking \cup {"primary"} => ~ c.connected
              /\ x = "login" => c.connected
              /\ r.target \in Servers
              /\ x \in {"roll", "wrap", "room", "connect", "login"} =>
                    r.cand \in Servers
              /\ x \in {"connect", "login", "retry"} => r.primary # NULL
              /\ x \in Picking /\ c.groupserver # NULL => r.primary # NULL
    PROVE  Good(Goto(cl[p], x), r)
<1>1. x \in Points
  BY DEF Choosing, Picking, Points
<1>2. cl[p] \in ClientRec /\ Sound(cl[p])
  BY GoodIsIdle
<1>3. /\ Goto(cl[p], x).at = x /\ Sound(Goto(cl[p], x))
      /\ Goto(cl[p], x).connected = cl[p].connected
      /\ Goto(cl[p], x).groupserver = cl[p].groupserver
  BY <1>1, <1>2, GotoFacts
<1> QED
  BY <1>3 DEF Good, Placed, Settled

LEMMA SelectStep ==
    ASSUME Inv, NEW p \in Sessions, connect_groupserver(p) PROVE Inv'
<1>1. cl[p].at = "select"
  BY DEF connect_groupserver, At
<1>2. Idle(cl[p]) /\ req[p] \in ReqRec /\ req[p].target \in Servers
  BY <1>1, GoodIsIdle DEF Placed, Choosing, Picking
<1>3. CASE Become(p, Return(p, TRUE, cl[p])) /\ req' = req
  <2>1. /\ Idle(Return(p, TRUE, cl[p]))
        /\ Return(p, TRUE, cl[p]).at \notin Choosing
    BY <1>2, ReturnFacts DEF Resting
  <2> QED
    BY <1>3, <2>1, BecomeIdle
<1>4. ASSUME NEW e \in BOOLEAN, req' = req,
             Become(p, Goto(disconnect_server(cl[p], e), "primary"))
      PROVE  Inv'
  <2> DEFINE d == Goto(disconnect_server(cl[p], e), "primary")
  <2>1. Idle(d) /\ d.at = "primary" /\ ~ d.connected
    BY <1>2, Disconnect, GotoFacts DEF Idle, Points
  <2> HIDE DEF d
  <2>2. Good(d, req[p])
    BY <1>2, <2>1 DEF Good, Placed, Idle, Choosing, Picking
  <2>3. SharedTypes' /\ cl' = [cl EXCEPT ![p] = d]
    BY <1>4, BecomeShared DEF d
  <2> QED
    BY <1>2, <1>4, <2>1, <2>2, <2>3, SameReq, SessionStep DEF Idle
<1>5. QuitFails \subseteq BOOLEAN
  BY DEF QuitFails
<1> QED
  BY <1>3, <1>4, <1>5, CrashStep DEF connect_groupserver

LEMMA PrimaryStep ==
    ASSUME Inv, NEW p \in Sessions, selectserver_primary(p) PROVE Inv'
<1> DEFINE t == req[p].target
<1>1. cl[p].at = "primary"
  BY DEF selectserver_primary, At
<1>2. /\ Idle(cl[p]) /\ req[p] \in ReqRec /\ t \in Servers
      /\ ~ cl[p].connected /\ cl[p].groupserver = NULL
  BY <1>1, GoodIsIdle DEF Placed, Settled, Choosing, Picking
<1>3. CASE /\ cl' = [cl EXCEPT ![p].at = "pick"]
           /\ UNCHANGED <<shared, req, pend>>
  <2>1. Good(Goto(cl[p], "pick"), req[p])
    BY <1>2, MovedGood DEF Choosing, Picking
  <2>2. SharedTypes'
    BY <1>3, SharedKept DEF Inv
  <2> QED
    BY <1>1, <1>2, <1>3, <2>1, <2>2, SameReq, ChoosingStep
    DEF Choosing, Picking
<1>4. CASE /\ cl' = [cl EXCEPT ![p].at = "connect"]
           /\ req' = [req EXCEPT ![p].cand = t, ![p].primary = t]
           /\ UNCHANGED <<shared, pend>>
  <2> DEFINE r == [req[p] EXCEPT !.cand = t, !.primary = t]
  <2>1. /\ r \in ReqRec /\ r.target = t /\ r.cand = t /\ r.primary = t
    BY <1>2 DEF ReqRec
  <2>2. req' = [req EXCEPT ![p] = r]
    BY <1>4 DEF Inv, ClientTypes
  <2> HIDE DEF r
  <2>3. t # NULL
    BY <1>2, LevelFacts
  <2>4. Good(Goto(cl[p], "connect"), r)
    BY <1>2, <2>1, <2>3, MovedGood DEF Choosing, Picking
  <2>5. SharedTypes'
    BY <1>4, SharedKept DEF Inv
  <2> QED
    BY <1>1, <1>4, <2>1, <2>2, <2>4, <2>5, ChoosingStep
    DEF Choosing, Picking
<1> QED
  BY <1>3, <1>4, CrashStep DEF selectserver_primary

\* A failed choice clears the server it tried last.
LEMMA DownStep ==
    ASSUME Inv, NEW p \in Sessions, cl[p].at \in Picking, Down(p),
           UNCHANGED <<shared, req, pend>>
    PROVE  Inv'
<1> DEFINE d == IF req[p].primary = NULL THEN cl[p]
                ELSE [cl[p] EXCEPT !.group = NoGroup, !.groupserver = NULL]
<1>1. /\ cl[p] \in ClientRec /\ Sound(cl[p]) /\ ~ cl[p].connected
      /\ cl[p].groupserver # NULL => req[p].primary # NULL
  BY GoodIsIdle DEF Placed
<1>2. Idle(d)
  <2>1. CASE req[p].primary = NULL
    BY <1>1, <2>1 DEF Idle, Settled
  <2>2. CASE req[p].primary # NULL
    <3> DEFINE f == [cl[p] EXCEPT !.group = NoGroup, !.groupserver = NULL]
    <3>1. /\ f \in ClientRec /\ f.connected = cl[p].connected
          /\ f.groupserver = NULL /\ f.sock = cl[p].sock
          /\ f.open = cl[p].open /\ f.error = cl[p].error
      BY <1>1 DEF ClientRec
    <3> HIDE DEF f
    <3>2. Idle(f)
      BY <1>1, <3>1 DEF Idle, Sound, Settled
    <3> QED
      BY <2>2, <3>2 DEF f
  <2> QED
    BY <2>1, <2>2
<1>3. cl' = [cl EXCEPT ![p] = Return(p, FALSE, d)]
  BY DEF Down
<1> HIDE DEF d
<1>4. /\ Idle(Return(p, FALSE, d)) /\ Return(p, FALSE, d).at \notin Choosing
  BY <1>2, ReturnFacts DEF Resting
<1>5. SharedTypes' /\ req[p] \in ReqRec
  BY SharedKept, GoodIsIdle DEF Inv
<1>6. Good(Return(p, FALSE, d), req[p])
  BY <1>4, IdleIsGood
<1> QED
  BY <1>3, <1>4, <1>5, <1>6, SameReq, SessionStep DEF Idle

LEMMA NextServerFound ==
    ASSUME Inv, NEW p \in Sessions, get_next_server(p) PROVE Inv'
<1> DEFINE l == TargetLevel(p)
<1>1. cl[p].at = "pick"
  BY DEF get_next_server, At
<1>2. /\ req[p] \in ReqRec /\ req[p].target \in Servers
      /\ ~ cl[p].connected
      /\ cl[p].groupserver # NULL => req[p].primary # NULL
  BY <1>1, GoodIsIdle DEF Placed, Choosing, Picking
<1>3. CASE Down(p) /\ req' = req /\ UNCHANGED <<shared, pend>>
  BY <1>1, <1>3, DownStep DEF Picking
<1>4. ASSUME NEW s \in Nth(l, balance_pos[l]),
             req' = [req EXCEPT ![p].cand = s],
             cl' = [cl EXCEPT ![p].at = "roll"], UNCHANGED <<shared, pend>>
      PROVE  Inv'
  <2> DEFINE r == [req[p] EXCEPT !.cand = s]
  <2>1. s \in Servers
    BY DEF Nth, OfLevel
  <2>2. /\ r \in ReqRec /\ r.target = req[p].target /\ r.cand = s
        /\ r.primary = req[p].primary
    BY <1>2, <2>1 DEF ReqRec
  <2>3. req' = [req EXCEPT ![p] = r]
    BY <1>4 DEF Inv, ClientTypes
  <2> HIDE DEF r
  <2>4. Good(Goto(cl[p], "roll"), r)
    BY <1>2, <2>1, <2>2, MovedGood DEF Choosing, Picking
  <2>5. SharedTypes'
    BY <1>4, SharedKept DEF Inv
  <2> QED
    BY <1>1, <1>4, <2>2, <2>3, <2>4, <2>5, ChoosingStep DEF Choosing, Picking
<1> QED
  BY <1>3, <1>4 DEF get_next_server

\* From roll to wrap, from wrap to room: only the shared position changes.
LEMMA PositionMoves ==
    ASSUME Inv, NEW p \in Sessions, NEW x \in {"wrap", "room"},
           cl[p].at \in {"roll", "wrap"}, SharedTypes',
           cl' = [cl EXCEPT ![p].at = x], req' = req
    PROVE  Inv'
<1>1. /\ req[p] \in ReqRec /\ req[p].target \in Servers
      /\ req[p].cand \in Servers /\ ~ cl[p].connected
      /\ cl[p].groupserver # NULL => req[p].primary # NULL
  BY GoodIsIdle DEF Placed, Choosing, Picking
<1>2. Good(Goto(cl[p], x), req[p])
  BY <1>1, MovedGood DEF Choosing, Picking
<1> QED
  BY <1>1, <1>2, SameReq, ChoosingStep DEF Choosing, Picking

LEMMA TargetIsLevel ==
    ASSUME Inv, NEW p \in Sessions, cl[p].at \in Choosing
    PROVE  TargetLevel(p) \in Levels
<1>1. req[p].target \in Servers
  BY GoodIsIdle DEF Placed
<1> QED
  BY <1>1, LevelFacts DEF TargetLevel

LEMMA RollStep ==
    ASSUME Inv, NEW p \in Sessions, RollLevel(p) \/ WrapLevel(p) PROVE Inv'
<1> DEFINE l == TargetLevel(p)
<1>1. cl[p].at \in {"roll", "wrap"} /\ l \in Levels
  BY TargetIsLevel DEF RollLevel, WrapLevel, At, Choosing, Picking
<1>2. SharedTypes /\ balance_pos[l] \in Nat
  BY <1>1 DEF Inv, SharedTypes
<1> HIDE DEF l
<1>3. ASSUME NEW n \in Nat, balance_pos' = [balance_pos EXCEPT ![l] = n],
             UNCHANGED <<connections, loaded, pend>>
      PROVE  SharedTypes'
  BY <1>2, <1>3 DEF SharedTypes
<1>4. ASSUME NEW n \in Nat, UNCHANGED <<connections, balance_pos, loaded>>,
             pend' = [pend EXCEPT ![p] = [what |-> "balance_pos", of |-> l,
                                          val |-> n]]
      PROVE  SharedTypes'
  <2>1. [what |-> "balance_pos", of |-> l, val |-> n] \in Stores
    BY <1>1 DEF Stores
  <2> QED
    BY <1>2, <1>4, <2>1 DEF SharedTypes
<1>5. balance_pos[l] + 1 \in Nat
  BY <1>2
<1>6. CASE RollLevel(p)
  <2>1. SharedTypes'
    BY <1>3, <1>4, <1>5, <1>6 DEF RollLevel, l
  <2> QED
    BY <1>1, <1>6, <2>1, PositionMoves DEF RollLevel
<1>7. CASE WrapLevel(p)
  <2>1. PICK n : /\ n \in {0, balance_pos[l]}
                 /\ balance_pos' = [balance_pos EXCEPT ![l] = n]
    BY <1>7 DEF WrapLevel, l
  <2>2. SharedTypes'
    BY <1>2, <1>3, <1>7, <2>1 DEF WrapLevel
  <2> QED
    BY <1>1, <1>7, <2>2, PositionMoves DEF WrapLevel
<1> QED
  BY <1>6, <1>7

LEMMA RoomStep ==
    ASSUME Inv, NEW p \in Sessions, CheckRoom(p) PROVE Inv'
<1>1. cl[p].at = "room"
  BY DEF CheckRoom, At
<1>2. /\ req[p] \in ReqRec /\ req[p].target \in Servers
      /\ req[p].cand \in Servers /\ ~ cl[p].connected
      /\ cl[p].groupserver # NULL => req[p].primary # NULL
  BY <1>1, GoodIsIdle DEF Placed, Choosing, Picking
<1>3. SharedTypes'
  BY SharedKept DEF CheckRoom, Inv
<1>4. CASE cl' = [cl EXCEPT ![p].at = "pick"] /\ req' = req
  <2>1. Good(Goto(cl[p], "pick"), req[p])
    BY <1>2, MovedGood DEF Choosing, Picking
  <2> QED
    BY <1>1, <1>2, <1>3, <1>4, <2>1, SameReq, ChoosingStep
    DEF Choosing, Picking
<1>5. CASE /\ cl' = [cl EXCEPT ![p].at = "connect"]
           /\ req' = [req EXCEPT ![p].primary =
                         IF @ = NULL THEN req[p].cand ELSE @]
  <2> DEFINE f == IF req[p].primary = NULL THEN req[p].cand
                                           ELSE req[p].primary
             r == [req[p] EXCEPT !.primary = f]
  <2>1. f \in Servers
    BY <1>2 DEF ReqRec
  <2>2. req' = [req EXCEPT ![p].primary = f]
    BY <1>2, <1>5 DEF Inv, ClientTypes
  <2> HIDE DEF f
  <2>3. /\ r \in ReqRec /\ r.target = req[p].target
        /\ r.cand = req[p].cand /\ r.primary = f /\ f # NULL
    BY <1>2, <2>1, LevelFacts DEF ReqRec
  <2>4. req' = [req EXCEPT ![p] = r]
    BY <2>2 DEF Inv, ClientTypes
  <2> HIDE DEF r
  <2>5. Good(Goto(cl[p], "connect"), r)
    BY <1>2, <2>3, MovedGood DEF Choosing, Picking
  <2> QED
    BY <1>1, <1>3, <1>5, <2>3, <2>4, <2>5, ChoosingStep
    DEF Choosing, Picking
<1> QED
  BY <1>4, <1>5 DEF CheckRoom

\* What is known of a session at "connect", and what the connection makes of
\* it: c has tried the server, d has it.
LEMMA ConnectFacts ==
    ASSUME Inv, NEW p \in Sessions, cl[p].at = "connect",
           NEW c, c = [cl[p] EXCEPT !.groupserver = req[p].cand],
           NEW d, d = [c EXCEPT !.connected = TRUE,
                                !.currserver = req[p].cand,
                                !.sock = "open", !.open = @ + 1]
    PROVE  /\ req[p] \in ReqRec /\ req[p].target \in Servers
           /\ req[p].cand \in Servers /\ req[p].primary # NULL
           /\ c \in ClientRec /\ Sound(c) /\ ~ c.connected
           /\ Idle(d) /\ d.connected
<1> DEFINE s == req[p].cand
<1>1. /\ req[p] \in ReqRec /\ req[p].target \in Servers /\ s \in Servers
      /\ req[p].primary # NULL
      /\ cl[p] \in ClientRec /\ Sound(cl[p]) /\ ~ cl[p].connected
  BY GoodIsIdle DEF Placed, Choosing, Picking
<1>2. s # NULL
  BY <1>1, LevelFacts
<1> HIDE DEF s
<1>3. /\ c \in ClientRec /\ c.connected = cl[p].connected
      /\ c.sock = cl[p].sock /\ c.open = cl[p].open
      /\ c.error = cl[p].error /\ c.groupserver = s
  BY <1>1 DEF ClientRec, s
<1>4. Sound(c)
  BY <1>1, <1>3 DEF Sound
<1>5. c.open \in Nat /\ c.open + 1 \in Nat /\ c.open + 1 > 0
  BY <1>3 DEF ClientRec
<1>6. /\ d \in ClientRec /\ d.connected = TRUE /\ d.groupserver = s
      /\ d.currserver = s /\ d.sock = "open" /\ d.open = c.open + 1
      /\ d.error = c.error
  BY <1>1, <1>3, <1>5 DEF ClientRec, s
<1>7. "post" \notin Commands /\ ~ d.error => d.open = 1
  <2>1. "post" \notin Commands /\ ~ d.error => c.open = 0
    BY <1>1, <1>3, <1>4, <1>6 DEF Sound
  <2> QED
    BY <1>6, <2>1
<1>8. Sound(d) /\ Settled(d)
  BY <1>2, <1>5, <1>6, <1>7 DEF Sound, Settled
<1> QED
  BY <1>1, <1>3, <1>4, <1>6, <1>8 DEF Idle, s

LEMMA ConnectStep ==
    ASSUME Inv, NEW p \in Sessions, connect_server(p) PROVE Inv'
<1> DEFINE s == req[p].cand
           c == [cl[p] EXCEPT !.groupserver = s]
           d == [c EXCEPT !.connected = TRUE, !.currserver = s,
                          !.sock = "open", !.open = @ + 1]
<1>1. cl[p].at = "connect"
  BY DEF connect_server, At
<1>2. /\ req[p] \in ReqRec /\ req[p].target \in Servers
      /\ s \in Servers /\ req[p].primary # NULL
      /\ c \in ClientRec /\ Sound(c) /\ ~ c.connected
      /\ Idle(d) /\ d.connected
  BY <1>1, ConnectFacts
<1>3. \/ /\ cl' = [cl EXCEPT ![p] = Goto(c, "retry")]
         /\ UNCHANGED <<connections, pend>>
      \/ /\ cl' = [cl EXCEPT ![p] = Goto(d, "login")]
         /\ UNCHANGED <<connections, pend>>
      \/ /\ cl' = [cl EXCEPT ![p] = Return(p, TRUE, d)]
         /\ Count(p, {s}, 1)
  BY DEF connect_server
<1> HIDE DEF c, d
<1>4. /\ UNCHANGED <<balance_pos, loaded, req>>
      /\ req' = [req EXCEPT ![p] = req[p]]
  BY SameReq DEF connect_server
<1>5. ASSUME UNCHANGED <<connections, pend>> PROVE SharedTypes'
  BY <1>4, <1>5 DEF Inv, SharedTypes
<1>6. CASE /\ cl' = [cl EXCEPT ![p] = Goto(c, "retry")]
           /\ UNCHANGED <<connections, pend>>
  <2>1. /\ Goto(c, "retry") \in ClientRec /\ Goto(c, "retry").at = "retry"
        /\ Sound(Goto(c, "retry")) /\ ~ Goto(c, "retry").connected
    BY <1>2, GotoFacts DEF Points
  <2>2. Good(Goto(c, "retry"), req[p])
    BY <1>2, <2>1 DEF Good, Placed, Picking
  <2> QED
    BY <1>2, <1>4, <1>5, <1>6, <2>1, <2>2, SessionStep
<1>7. CASE /\ cl' = [cl EXCEPT ![p] = Goto(d, "login")]
           /\ UNCHANGED <<connections, pend>>
  <2>1. /\ Idle(Goto(d, "login")) /\ Goto(d, "login").at = "login"
        /\ Goto(d, "login").connected
    BY <1>2, GotoFacts DEF Points, Idle
  <2>2. Good(Goto(d, "login"), req[p])
    BY <1>2, <2>1 DEF Good, Placed, Picking, Idle
  <2> QED
    BY <1>2, <1>4, <1>5, <1>7, <2>1, <2>2, SessionStep DEF Idle
<1>8. CASE /\ cl' = [cl EXCEPT ![p] = Return(p, TRUE, d)]
           /\ Count(p, {s}, 1)
  <2>1. /\ Idle(Return(p, TRUE, d)) /\ Return(p, TRUE, d).at \notin Choosing
    BY <1>2, ReturnFacts DEF Resting
  <2>2. Good(Return(p, TRUE, d), req[p])
    BY <2>1, IdleIsGood
  <2>3. SharedTypes'
    BY <1>2, <1>4, <1>8, CountShared
  <2> QED
    BY <1>2, <1>4, <1>8, <2>1, <2>2, <2>3, SessionStep DEF Idle
<1> QED
  BY <1>3, <1>6, <1>7, <1>8

LEMMA LoginStep ==
    ASSUME Inv, NEW p \in Sessions, connect_auth_nntp(p) PROVE Inv'
<1> DEFINE s == req[p].cand
           c == [cl[p] EXCEPT !.connected = FALSE, !.currserver = NULL,
                              !.sock = "closed", !.open = @ - 1]
           d == [c EXCEPT !.groupserver = IF c.error THEN @ ELSE NULL,
                          !.error = TRUE]
<1>1. cl[p].at = "login"
  BY DEF connect_auth_nntp, At
<1>2. /\ req[p] \in ReqRec /\ req[p].target \in Servers /\ s \in Servers
      /\ req[p].primary # NULL /\ Idle(cl[p]) /\ cl[p].connected
  BY <1>1, GoodIsIdle DEF Placed, Choosing, Picking
<1>3. cl[p].open \in Nat /\ cl[p].open > 0 /\ cl[p].open - 1 \in Nat
  BY <1>2 DEF Idle, Sound, ClientRec
<1>4. /\ c \in ClientRec /\ ~ c.connected /\ c.sock = "closed"
      /\ c.open = cl[p].open - 1 /\ c.error = cl[p].error
  BY <1>2, <1>3 DEF Idle, ClientRec, NULL
<1>5. Sound(c)
  <2>1. "post" \notin Commands /\ ~ c.error => cl[p].open = 1
    BY <1>2, <1>4 DEF Idle, Sound
  <2>2. "post" \notin Commands /\ ~ c.error => c.open = 0
    BY <1>4, <2>1
  <2> QED
    BY <1>4, <2>2 DEF Sound
<1>6. \/ /\ cl' = [cl EXCEPT ![p] = Return(p, TRUE, cl[p])]
         /\ Count(p, {s}, 1)
      \/ /\ cl' = [cl EXCEPT ![p] = Goto(c, "retry")]
         /\ Count(p, {s}, -1)
      \/ /\ cl' = [cl EXCEPT ![p] = Goto(d, "retry")]
         /\ Count(p, {s}, -1)
  BY DEF connect_auth_nntp
<1> HIDE DEF c
<1>7. /\ d \in ClientRec /\ ~ d.connected /\ d.sock = "closed"
      /\ d.error = TRUE
  BY <1>4 DEF ClientRec
<1> HIDE DEF d
<1>8. Sound(d)
  BY <1>7 DEF Sound
<1>9. /\ UNCHANGED <<balance_pos, loaded, req>>
      /\ req' = [req EXCEPT ![p] = req[p]]
  BY SameReq DEF connect_auth_nntp
<1>10. SharedTypes'
  BY <1>2, <1>6, <1>9, CountShared
<1>11. ASSUME NEW f \in {c, d}, cl' = [cl EXCEPT ![p] = Goto(f, "retry")]
       PROVE  Inv'
  <2>1. f \in ClientRec /\ Sound(f) /\ ~ f.connected
    BY <1>4, <1>5, <1>7, <1>8
  <2>2. /\ Goto(f, "retry") \in ClientRec /\ Goto(f, "retry").at = "retry"
        /\ Sound(Goto(f, "retry")) /\ ~ Goto(f, "retry").connected
    BY <2>1, GotoFacts DEF Points
  <2>3. Good(Goto(f, "retry"), req[p])
    BY <1>2, <2>2 DEF Good, Placed, Picking
  <2> QED
    BY <1>2, <1>9, <1>10, <1>11, <2>2, <2>3, SessionStep
<1>12. CASE cl' = [cl EXCEPT ![p] = Return(p, TRUE, cl[p])]
  <2>1. /\ Idle(Return(p, TRUE, cl[p]))
        /\ Return(p, TRUE, cl[p]).at \notin Choosing
    BY <1>2, ReturnFacts DEF Resting
  <2>2. Good(Return(p, TRUE, cl[p]), req[p])
    BY <2>1, IdleIsGood
  <2> QED
    BY <1>2, <1>9, <1>10, <1>12, <2>1, <2>2, SessionStep DEF Idle
<1> QED
  BY <1>6, <1>11, <1>12

LEMMA BackupStep ==
    ASSUME Inv, NEW p \in Sessions, selectserver_backup(p) PROVE Inv'
<1>1. cl[p].at = "retry" /\ UNCHANGED <<shared, req, pend>>
  BY DEF selectserver_backup, At
<1>2. CASE Down(p)
  BY <1>1, <1>2, DownStep DEF Picking
<1>3. CASE cl' = [cl EXCEPT ![p].at = "pick"]
  <2>1. /\ req[p] \in ReqRec /\ req[p].target \in Servers
        /\ ~ cl[p].connected /\ req[p].primary # NULL
    BY <1>1, GoodIsIdle DEF Placed, Choosing, Picking
  <2>2. Good(Goto(cl[p], "pick"), req[p])
    BY <2>1, MovedGood DEF Choosing, Picking
  <2>3. SharedTypes'
    BY <1>1, SharedKept DEF Inv
  <2> QED
    BY <1>1, <1>3, <2>1, <2>2, <2>3, SameReq, ChoosingStep
    DEF Choosing, Picking
<1> QED
  BY <1>2, <1>3 DEF selectserver_backup

-----------------------------------------------------------------------------
(* Stores, servers.conf, and all steps together.                           *)

LEMMA NoStoreFacts ==
    ASSUME NEW x \in Stores
    PROVE  /\ x.what = "connections" =>
                 x.of \in Servers /\ x.val \in 0 .. UIntMax
           /\ x.what = "balance_pos" => x.of \in Levels /\ x.val \in Nat
<1>1. CASE x = NoStore
  BY <1>1 DEF NoStore
<1>2. CASE x # NoStore
  BY <1>2 DEF Stores
<1> QED
  BY <1>1, <1>2

LEMMA SharedOnly ==
    ASSUME Inv, SharedTypes', UNCHANGED <<cl, req>> PROVE Inv'
  BY DEF Inv, ClientTypes, Good, Sound, Placed, Settled

LEMMA StoreStep ==
    ASSUME Inv, NEW p \in Sessions, Store(p) PROVE Inv'
<1>1. SharedTypes /\ pend[p] \in Stores /\ NoStore \in Stores
  BY DEF Inv, SharedTypes, Stores
<1>2. UNCHANGED <<loaded, cl, req>> /\ pend' = [pend EXCEPT ![p] = NoStore]
  BY DEF Store
<1>3. CASE /\ pend[p].what = "connections"
           /\ connections' = [connections EXCEPT ![pend[p].of] = pend[p].val]
           /\ UNCHANGED balance_pos
  <2>1. pend[p].of \in Servers /\ pend[p].val \in 0 .. UIntMax
    BY <1>1, <1>3, NoStoreFacts
  <2> QED
    BY <1>1, <1>2, <1>3, <2>1, SharedOnly DEF SharedTypes
<1>4. CASE /\ pend[p].what = "balance_pos"
           /\ balance_pos' = [balance_pos EXCEPT ![pend[p].of] = pend[p].val]
           /\ UNCHANGED connections
  <2>1. pend[p].of \in Levels /\ pend[p].val \in Nat
    BY <1>1, <1>4, NoStoreFacts
  <2> QED
    BY <1>1, <1>2, <1>4, <2>1, SharedOnly DEF SharedTypes
<1> QED
  BY <1>3, <1>4 DEF Store

LEMMA ServersStep ==
    ASSUME Inv, clear_servers \/ load_servers PROVE Inv'
<1>1. CASE clear_servers
  BY <1>1, SharedOnly DEF clear_servers, Inv, SharedTypes
<1>2. CASE load_servers
  <2>1. 0 \in 0 .. UIntMax
    BY ServerAssumption
  <2> QED
    BY <1>2, <2>1, SharedOnly, StartFacts DEF load_servers, Inv, SharedTypes
<1> QED
  BY <1>1, <1>2

LEMMA NextInv == Inv /\ [Next]_vars => Inv'
<1> SUFFICES ASSUME Inv, [Next]_vars PROVE Inv'
  OBVIOUS
<1>1. CASE clear_servers \/ load_servers
  BY <1>1, ServersStep
<1>2. ASSUME NEW p \in Sessions, Advance(p) PROVE Inv'
  BY <1>2, SelectStep, PrimaryStep, NextServerFound, RollStep, RoomStep,
     ConnectStep, LoginStep, BackupStep, SendGroupStep, PassStep, HeadStep,
     NextServerStep, StatStep, StoreStep DEF Advance
<1>3. ASSUME NEW p \in Sessions, Command(p) PROVE Inv'
  BY <1>3, GroupStep, FindStep, NumberSteps, ModeStep, PostStep, IhaveStep
  DEF Command
<1>4. CASE UNCHANGED vars
  BY <1>4, SharedOnly DEF vars, Inv, SharedTypes
<1> QED
  BY <1>1, <1>2, <1>3, <1>4, OtherSteps DEF Next, Session

LEMMA InitInv == Init => Inv
<1> SUFFICES ASSUME Init PROVE Inv
  OBVIOUS
<1>1. SharedTypes
  <2>1. 0 \in 0 .. UIntMax /\ NoStore \in Stores
    BY ServerAssumption DEF Stores
  <2> QED
    BY <2>1, StartFacts DEF Init, SharedTypes
<1>2. ClientTypes
  BY FreshFacts, RequestFacts DEF Init, ClientTypes, Idle
<1>3. Good(Fresh, NoReq)
  BY FreshFacts, IdleIsGood DEF Choosing, Picking
<1> QED
  BY <1>1, <1>2, <1>3 DEF Init, Inv

LEMMA InvAlways == Spec => []Inv
  BY InitInv, NextInv, PTL DEF Spec

\* The variables keep their types, with any number of sessions, servers and
\* levels and whatever fails: SERVER and CLIENT of nntpd.h.
THEOREM BackendTypes == Spec => []TypeOK
<1>1. Inv => TypeOK
  BY DEF Inv, SharedTypes, ClientTypes, TypeOK, ClientRec, ReqRec
<1> QED
  BY <1>1, InvAlways, PTL

\* A connected session has a server, logs under its name and writes to an open
\* socket, and without an error holds one connection at most, unless clients
\* post: send_ihave closes the connection of the post server in the place of
\* the group server's (post.c).
THEOREM ServerKnown ==
    ASSUME "post" \notin Commands
    PROVE  Spec => []ConnectedServer
<1>1. Inv => ConnectedServer
  <2> SUFFICES ASSUME Inv, NEW p \in Sessions
               PROVE  /\ cl[p].connected =>
                            /\ cl[p].groupserver # NULL
                            /\ cl[p].currserver = cl[p].groupserver
                            /\ cl[p].sock = "open" /\ cl[p].open > 0
                      /\ cl[p].at = "loop" /\ ~cl[p].connected
                            => cl[p].groupserver = NULL
                      /\ ~cl[p].error => cl[p].open <= 1
    BY DEF ConnectedServer
  <2>1. cl[p] \in ClientRec /\ Sound(cl[p])
        /\ (cl[p].at = "loop" => Settled(cl[p]))
    BY GoodIsIdle DEF Picking, Idle
  <2>2. ~cl[p].error => cl[p].open \in {0, 1}
    BY <2>1 DEF Sound
  <2>3. ~cl[p].error => cl[p].open <= 1
    BY <2>2
  <2> QED
    BY <2>1, <2>3 DEF Sound, Settled
<1> QED
  BY <1>1, InvAlways, PTL

-----------------------------------------------------------------------------
(* The position of the balancer.                                           *)

\* Whoever has still to store a position is on the way to reset it.
Positions ==
    /\ PositionInRange
    /\ \A p \in Sessions :
          pend[p].what = "balance_pos" =>
              cl[p].at = "wrap" /\ TargetLevel(p) = pend[p].of

\* A step of p that has nothing to do with positions.
Others(p) ==
    \A q \in Sessions \ {p} :
        cl'[q] = cl[q] /\ req'[q] = req[q] /\ pend'[q] = pend[q]

Aside(p) ==
    /\ balance_pos' = balance_pos
    /\ Others(p)
    /\ pend'[p].what # "balance_pos"

LEMMA AsideStep ==
    ASSUME Inv, Positions, NEW p \in Sessions, cl[p].at # "wrap", Aside(p)
    PROVE  Positions'
<1>1. ASSUME NEW l \in Levels, balance_pos'[l] >= Cardinality(OfLevel(l))
      PROVE  \E q \in Sessions : cl'[q].at = "wrap" /\ TargetLevel(q)' = l
  <2>1. PICK q \in Sessions : cl[q].at = "wrap" /\ TargetLevel(q) = l
    BY <1>1 DEF Aside, Positions, PositionInRange
  <2>2. q # p /\ cl'[q] = cl[q] /\ TargetLevel(q)' = TargetLevel(q)
    BY <2>1 DEF Aside, Others, TargetLevel
  <2> QED
    BY <2>1, <2>2
<1>2. ASSUME NEW q \in Sessions, pend'[q].what = "balance_pos"
      PROVE  cl'[q].at = "wrap" /\ TargetLevel(q)' = pend'[q].of
  BY <1>2 DEF Aside, Others, Positions, TargetLevel
<1> QED
  BY <1>1, <1>2 DEF Positions, PositionInRange

LEMMA CountAside ==
    ASSUME Inv, NEW p \in Sessions, pend[p] = NoStore, NEW S, NEW d,
           Count(p, S, d)
    PROVE  /\ \A q \in Sessions \ {p} : pend'[q] = pend[q]
           /\ pend'[p].what # "balance_pos"
<1>1. NoStore.what # "balance_pos"
  BY DEF NoStore
<1>2. CASE pend' = pend
  BY <1>1, <1>2
<1>3. ASSUME NEW s, NEW n,
             pend' = [pend EXCEPT ![p] = [what |-> "connections", of |-> s,
                                          val |-> n]]
      PROVE  /\ \A q \in Sessions \ {p} : pend'[q] = pend[q]
             /\ pend'[p].what # "balance_pos"
  BY <1>3 DEF Inv, SharedTypes
<1> QED
  BY <1>2, <1>3 DEF Count

\* How a step changes the records of p, one lemma per form.
LEMMA RecordsAside ==
    ASSUME Inv, NEW p \in Sessions, NEW d, cl' = [cl EXCEPT ![p] = d],
           req' = req \/ \E r : req' = [req EXCEPT ![p] = r]
    PROVE  \A q \in Sessions \ {p} : cl'[q] = cl[q] /\ req'[q] = req[q]
  BY DEF Inv, ClientTypes

LEMMA BecomeAside ==
    ASSUME Inv, NEW p \in Sessions, pend[p] = NoStore, NEW d, Become(p, d),
           req' = req \/ \E r : req' = [req EXCEPT ![p] = r]
    PROVE  Aside(p)
<1>1. balance_pos' = balance_pos /\ cl' = [cl EXCEPT ![p] = d]
  BY DEF Become
<1>2. /\ \A q \in Sessions \ {p} : pend'[q] = pend[q]
      /\ pend'[p].what # "balance_pos"
  BY CountAside DEF Become
<1> QED
  BY <1>1, <1>2, RecordsAside DEF Aside, Others

LEMMA PlainAside ==
    ASSUME Inv, NEW p \in Sessions, pend[p] = NoStore, NEW d,
           cl' = [cl EXCEPT ![p] = d], UNCHANGED <<balance_pos, pend>>,
           req' = req \/ \E r : req' = [req EXCEPT ![p] = r]
    PROVE  Aside(p)
<1>1. pend'[p].what # "balance_pos"
  BY DEF NoStore
<1> QED
  BY <1>1, RecordsAside DEF Aside, Others

LEMMA LocalAside ==
    ASSUME Inv, NEW p \in Sessions, pend[p] = NoStore, NEW d, NEW r,
           Local(p, d, r)
    PROVE  Aside(p)
  BY PlainAside DEF Local, shared

LEMMA CrashAside ==
    ASSUME Inv, NEW p \in Sessions, pend[p] = NoStore, Crash(p)
    PROVE  Aside(p)
  BY PlainAside DEF Crash, shared

LEMMA FailsAside ==
    ASSUME Inv, NEW p \in Sessions, pend[p] = NoStore, NEW d, Fails(p, d)
    PROVE  Aside(p)
  BY BecomeAside, CrashAside DEF Fails

LEMMA QuitAside ==
    ASSUME Inv, NEW p \in Sessions, pend[p] = NoStore, client_quit(p)
    PROVE  Aside(p)
<1>1. /\ \A q \in Sessions \ {p} : pend'[q] = pend[q]
      /\ pend'[p].what # "balance_pos"
  BY CountAside DEF client_quit
<1>2. \A q \in Sessions \ {p} : cl'[q] = cl[q] /\ req'[q] = req[q]
  BY RecordsAside DEF client_quit
<1> QED
  BY <1>1, <1>2 DEF Aside, Others, client_quit

LEMMA CommandAside ==
    ASSUME Inv, NEW p \in Sessions,
           Command(p) \/ WriteFails(p) \/ Leave(p) \/ Connect(p)
    PROVE  Aside(p) /\ cl[p].at # "wrap"
<1>1. CASE \E cmd \in {"group", "listgroup"}, g \in Newsgroups :
               group(p, cmd, g)
  BY <1>1, LocalAside, BecomeAside DEF group, Reads, At
<1>2. CASE \E cmd \in {"article", "stat"} : find_article_server(p, cmd)
  BY <1>2, LocalAside DEF find_article_server, Reads, At
<1>3. CASE PassNumber(p) \/ XOver(p) \/ StatNumber(p)
  BY <1>3, LocalAside DEF PassNumber, XOver, StatNumber, Reads, At
<1>4. CASE ModeReader(p) \/ ihave(p) \/ WriteFails(p)
  BY <1>4, BecomeAside DEF ModeReader, ihave, WriteFails, Reads, At
<1>5. CASE post(p)
  BY <1>5, BecomeAside, FailsAside DEF post, send_ihave, Reads, At
<1>6. CASE Leave(p)
  BY <1>6, QuitAside DEF Leave, At
<1>7. CASE Connect(p)
  BY <1>7, LocalAside DEF Connect, At
<1> QED
  BY <1>1, <1>2, <1>3, <1>4, <1>5, <1>6, <1>7 DEF Command

LEMMA AdvanceAside ==
    ASSUME Inv, NEW p \in Sessions, Advance(p),
           ~ (RollLevel(p) \/ WrapLevel(p) \/ Store(p))
    PROVE  Aside(p) /\ cl[p].at # "wrap"
<1>1. CASE connect_groupserver(p)
  BY <1>1, BecomeAside, CrashAside DEF connect_groupserver, At
<1>2. CASE selectserver_primary(p)
  <2>1. pend[p] = NoStore /\ cl[p].at # "wrap"
    BY <1>2 DEF selectserver_primary, At
  <2>2. CASE /\ cl' = [cl EXCEPT ![p].at = "pick"]
             /\ UNCHANGED <<shared, req, pend>>
    BY <2>1, <2>2, PlainAside DEF shared
  <2>3. CASE /\ cl' = [cl EXCEPT ![p].at = "connect"]
             /\ req' = [req EXCEPT ![p].cand = req[p].target,
                                   ![p].primary = req[p].target]
             /\ UNCHANGED <<shared, pend>>
    <3>1. req' = [req EXCEPT ![p] = [req[p] EXCEPT
                                       !.cand = req[p].target,
                                       !.primary = req[p].target]]
      BY <2>3 DEF Inv, ClientTypes
    <3> QED
      BY <2>1, <2>3, <3>1, PlainAside DEF shared
  <2> QED
    BY <1>2, <2>1, <2>2, <2>3, CrashAside DEF selectserver_primary
<1>3. CASE get_next_server(p)
  <2>1. pend[p] = NoStore /\ cl[p].at # "wrap"
        /\ UNCHANGED <<balance_pos, pend>>
    BY <1>3 DEF get_next_server, At, shared
  <2>2. CASE Down(p) /\ req' = req
    BY <2>1, <2>2, PlainAside DEF Down
  <2>3. ASSUME NEW s, req' = [req EXCEPT ![p].cand = s],
               cl' = [cl EXCEPT ![p].at = "roll"]
        PROVE  Aside(p)
    BY <2>1, <2>3, PlainAside
  <2> QED
    BY <1>3, <2>1, <2>2, <2>3 DEF get_next_server
<1>4. CASE CheckRoom(p)
  <2>1. pend[p] = NoStore /\ cl[p].at # "wrap"
        /\ UNCHANGED <<balance_pos, pend>>
    BY <1>4 DEF CheckRoom, At, shared
  <2> QED
    BY <1>4, <2>1, PlainAside DEF CheckRoom
<1>5. CASE connect_server(p) \/ connect_auth_nntp(p)
  <2>1. /\ pend[p] = NoStore /\ cl[p].at # "wrap"
        /\ req' = req /\ balance_pos' = balance_pos
        /\ \E d : cl' = [cl EXCEPT ![p] = d]
        /\ \/ pend' = pend
           \/ \E S, d : Count(p, S, d)
    BY <1>5 DEF connect_server, connect_auth_nntp, At
  <2>2. CASE pend' = pend
    BY <2>1, <2>2, PlainAside
  <2>3. CASE \E S, d : Count(p, S, d)
    BY <2>1, <2>3, CountAside, RecordsAside DEF Aside, Others
  <2> QED
    BY <2>1, <2>2, <2>3
<1>6. CASE selectserver_backup(p)
  BY <1>6, PlainAside DEF selectserver_backup, At, Down, shared
<1>7. CASE SendGroup(p) \/ check_headperm(p)
  BY <1>7, BecomeAside, FailsAside DEF SendGroup, check_headperm, At
<1>8. CASE passcmd(p)
  BY <1>8, BecomeAside, CrashAside DEF passcmd, At
<1>9. CASE NextServer(p)
  BY <1>9, LocalAside DEF NextServer, At
<1>10. CASE Stat(p)
  <2>1. pend[p] = NoStore /\ cl[p].at # "wrap"
    BY <1>10 DEF Stat, At
  <2>2. CASE \/ Crash(p) \/ \E d : Become(p, d) /\ req' = req
    BY <2>1, <2>2, BecomeAside, CrashAside
  <2>3. CASE /\ \E S : Count(p, S, -1)
             /\ cl' = [cl EXCEPT ![p] = Fresh]
             /\ req' = [req EXCEPT ![p] = NoReq]
             /\ UNCHANGED <<balance_pos, loaded>>
    BY <2>1, <2>3, CountAside, RecordsAside DEF Aside, Others
  <2> QED
    BY <1>10, <2>1, <2>2, <2>3 DEF Stat
<1> QED
  BY <1>1, <1>2, <1>3, <1>4, <1>5, <1>6, <1>7, <1>8, <1>9, <1>10 DEF Advance

LEMMA RollPositions ==
    ASSUME Inv, Positions, NEW p \in Sessions, RollLevel(p) PROVE Positions'
<1> DEFINE l == TargetLevel(p)
<1>1. /\ cl[p].at = "roll" /\ pend[p] = NoStore /\ l \in Levels
      /\ req' = req /\ cl' = [cl EXCEPT ![p].at = "wrap"]
  BY TargetIsLevel DEF RollLevel, At, Choosing, Picking
<1>2. /\ cl'[p].at = "wrap" /\ TargetLevel(p)' = l
      /\ \A q \in Sessions \ {p} : cl'[q] = cl[q]
      /\ \A q \in Sessions : TargetLevel(q)' = TargetLevel(q)
  BY <1>1, GoodIsIdle DEF TargetLevel, Inv, ClientTypes, ClientRec
<1>3. /\ \A k \in Levels \ {l} : balance_pos'[k] = balance_pos[k]
      /\ \A q \in Sessions \ {p} : pend'[q] = pend[q]
      /\ pend'[p].what = "balance_pos" => pend'[p].of = l
  <2>1. /\ pend \in [Sessions -> Stores] /\ balance_pos \in [Levels -> Nat]
        /\ pend[p].what # "balance_pos"
    BY <1>1 DEF Inv, SharedTypes, NoStore
  <2>2. CASE /\ balance_pos' = [balance_pos EXCEPT ![l] = @ + 1]
             /\ pend' = pend
    BY <2>1, <2>2
  <2>3. ASSUME NEW n, balance_pos' = balance_pos,
               pend' = [pend EXCEPT ![p] = [what |-> "balance_pos", of |-> l,
                                            val |-> n]]
        PROVE  /\ \A k \in Levels \ {l} : balance_pos'[k] = balance_pos[k]
               /\ \A q \in Sessions \ {p} : pend'[q] = pend[q]
               /\ pend'[p].what = "balance_pos" => pend'[p].of = l
    BY <2>1, <2>3
  <2> QED
    BY <2>2, <2>3 DEF RollLevel
<1> HIDE DEF l
<1>4. ASSUME NEW k \in Levels, balance_pos'[k] >= Cardinality(OfLevel(k))
      PROVE  \E q \in Sessions : cl'[q].at = "wrap" /\ TargetLevel(q)' = k
  <2>1. CASE k = l
    BY <1>2, <2>1
  <2>2. CASE k # l
    <3>1. PICK q \in Sessions : cl[q].at = "wrap" /\ TargetLevel(q) = k
      BY <1>3, <1>4, <2>2 DEF Positions, PositionInRange
    <3> QED
      BY <1>1, <1>2, <3>1
  <2> QED
    BY <2>1, <2>2
<1>5. ASSUME NEW q \in Sessions, pend'[q].what = "balance_pos"
      PROVE  cl'[q].at = "wrap" /\ TargetLevel(q)' = pend'[q].of
  BY <1>2, <1>3, <1>5 DEF Positions
<1> QED
  BY <1>4, <1>5 DEF Positions, PositionInRange

LEMMA WrapPositions ==
    ASSUME Inv, Positions, NEW p \in Sessions, WrapLevel(p) PROVE Positions'
<1> DEFINE l == TargetLevel(p)
<1>1. /\ cl[p].at = "wrap" /\ pend[p] = NoStore /\ l \in Levels
      /\ UNCHANGED <<req, pend>> /\ cl' = [cl EXCEPT ![p].at = "room"]
  BY TargetIsLevel DEF WrapLevel, At, Choosing, Picking
<1>2. /\ \A q \in Sessions \ {p} : cl'[q] = cl[q]
      /\ \A q \in Sessions : TargetLevel(q)' = TargetLevel(q)
  BY <1>1 DEF TargetLevel, Inv, ClientTypes
<1>3. /\ Cardinality(OfLevel(l)) \in Nat \ {0} /\ balance_pos[l] \in Nat
      /\ balance_pos \in [Levels -> Nat]
  BY <1>1, LevelFacts DEF Inv, SharedTypes
<1> DEFINE max == IF loaded THEN Cardinality(OfLevel(l)) ELSE 0
           n == IF balance_pos[l] >= max THEN 0 ELSE balance_pos[l]
<1>4. balance_pos' = [balance_pos EXCEPT ![l] = n]
  BY <1>1, <1>3 DEF WrapLevel
<1>5. ~ (n >= Cardinality(OfLevel(l)))
  <2>1. max \in Nat /\ max <= Cardinality(OfLevel(l))
    BY <1>3
  <2> HIDE DEF max
  <2> QED
    BY <1>3, <2>1
<1> HIDE DEF n, l
<1>6. ASSUME NEW k \in Levels, balance_pos'[k] >= Cardinality(OfLevel(k))
      PROVE  \E q \in Sessions : cl'[q].at = "wrap" /\ TargetLevel(q)' = k
  <2>1. k # l /\ balance_pos'[k] = balance_pos[k]
    BY <1>3, <1>4, <1>5, <1>6
  <2>2. PICK q \in Sessions : cl[q].at = "wrap" /\ TargetLevel(q) = k
    BY <1>6, <2>1 DEF Positions, PositionInRange
  <2>3. q # p
    BY <2>1, <2>2 DEF l
  <2> QED
    BY <1>2, <2>2, <2>3
<1>7. ASSUME NEW q \in Sessions, pend'[q].what = "balance_pos"
      PROVE  cl'[q].at = "wrap" /\ TargetLevel(q)' = pend'[q].of
  <2>1. q # p /\ pend[q].what = "balance_pos"
    BY <1>1, <1>7 DEF NoStore
  <2> QED
    BY <1>1, <1>2, <2>1 DEF Positions
<1> QED
  BY <1>6, <1>7 DEF Positions, PositionInRange

LEMMA StorePositions ==
    ASSUME Inv, Positions, NEW p \in Sessions, Store(p) PROVE Positions'
<1>1. /\ UNCHANGED <<cl, req>> /\ pend' = [pend EXCEPT ![p] = NoStore]
      /\ pend \in [Sessions -> Stores] /\ balance_pos \in [Levels -> Nat]
      /\ \A q \in Sessions : TargetLevel(q)' = TargetLevel(q)
  BY DEF Store, Inv, SharedTypes, TargetLevel
<1>2. ASSUME NEW k \in Levels, balance_pos'[k] >= Cardinality(OfLevel(k))
      PROVE  \E q \in Sessions : cl'[q].at = "wrap" /\ TargetLevel(q)' = k
  <2>1. CASE balance_pos'[k] = balance_pos[k]
    BY <1>1, <1>2, <2>1 DEF Positions, PositionInRange
  <2>2. CASE balance_pos'[k] # balance_pos[k]
    <3>1. pend[p].what = "balance_pos" /\ pend[p].of = k
      BY <1>1, <2>2 DEF Store
    <3> QED
      BY <1>1, <3>1 DEF Positions
  <2> QED
    BY <2>1, <2>2
<1>3. ASSUME NEW q \in Sessions, pend'[q].what = "balance_pos"
      PROVE  cl'[q].at = "wrap" /\ TargetLevel(q)' = pend'[q].of
  <2>1. q # p /\ pend'[q] = pend[q]
    BY <1>1, <1>3 DEF NoStore
  <2> QED
    BY <1>1, <1>3, <2>1 DEF Positions
<1> QED
  BY <1>2, <1>3 DEF Positions, PositionInRange

LEMMA InitPositions == Init => Positions
<1> SUFFICES ASSUME Init PROVE Positions
  OBVIOUS
<1>1. ASSUME NEW l \in Levels
      PROVE  ~ (balance_pos[l] >= Cardinality(OfLevel(l)))
  <2>1. /\ StartPosition[l] \in Nat /\ Cardinality(OfLevel(l)) \in Nat
        /\ StartPosition[l] < Cardinality(OfLevel(l))
    BY StartFacts, LevelFacts
  <2> QED
    BY <2>1 DEF Init
<1>2. \A p \in Sessions : pend[p].what # "balance_pos"
  BY DEF Init, NoStore
<1> QED
  BY <1>1, <1>2 DEF Positions, PositionInRange

LEMMA ServersPositions ==
    ASSUME Inv, Positions, clear_servers \/ load_servers PROVE Positions'
<1>1. UNCHANGED <<cl, req, pend>>
  BY DEF clear_servers, load_servers
<1>2. \A p \in Sessions : TargetLevel(p)' = TargetLevel(p)
  BY <1>1 DEF TargetLevel
<1>3. ASSUME NEW l \in Levels, balance_pos'[l] >= Cardinality(OfLevel(l))
      PROVE  balance_pos'[l] = balance_pos[l]
  <2>1. /\ StartPosition[l] \in Nat /\ Cardinality(OfLevel(l)) \in Nat
        /\ StartPosition[l] < Cardinality(OfLevel(l))
    BY StartFacts, LevelFacts
  <2>2. ~ (StartPosition[l] >= Cardinality(OfLevel(l)))
    BY <2>1
  <2> QED
    BY <1>3, <2>2 DEF clear_servers, load_servers
<1> QED
  BY <1>1, <1>2, <1>3 DEF Positions, PositionInRange

\* A position past the end of its level is about to be reset, however many
\* sessions roll it and however their updates overlap, unless a signal ends a
\* session between its two steps (add_level_usage in server.c).
THEOREM PositionsReset ==
    ASSUME "wrap" \notin SignalPoints
    PROVE  Spec => []PositionInRange
<1>1. Inv /\ Positions /\ [Next]_vars => Positions'
  <2> SUFFICES ASSUME Inv, Positions, [Next]_vars PROVE Positions'
    OBVIOUS
  <2>1. CASE clear_servers \/ load_servers
    BY <2>1, ServersPositions
  <2>2. ASSUME NEW p \in Sessions, Advance(p) PROVE Positions'
    BY <2>2, RollPositions, WrapPositions, StorePositions, AdvanceAside,
       AsideStep
  <2>3. ASSUME NEW p \in Sessions,
               Command(p) \/ WriteFails(p) \/ Leave(p) \/ Connect(p)
        PROVE  Positions'
    BY <2>3, CommandAside, AsideStep
  <2>4. ASSUME NEW p \in Sessions, Signal(p) PROVE Positions'
    BY <2>4, QuitAside, CrashAside, AsideStep DEF Signal
  <2>5. CASE UNCHANGED vars
    BY <2>5 DEF vars, Positions, PositionInRange, TargetLevel
  <2> QED
    BY <2>1, <2>2, <2>3, <2>4, <2>5 DEF Next, Session
<1>2. Spec => []Positions
  BY <1>1, InitInv, NextInv, InitPositions, PTL DEF Spec
<1>3. Positions => PositionInRange
  BY DEF Positions
<1> QED
  BY <1>2, <1>3, PTL

-----------------------------------------------------------------------------
(* The counters of the servers.                                            *)

\* Without the faults that break them, and with a uint that can count the
\* sessions.
Counting ==
    /\ Faults \cap {"race", "int", "reload"} = {}
    /\ "stat" \notin Commands
    /\ HasAuth = {}
    /\ IsFiniteSet(Sessions) /\ Cardinality(Sessions) <= UIntMax

\* The server a session is counted at.
Conn(c) == IF c.connected THEN c.groupserver ELSE NULL

Counts ==
    /\ ServerConnections
    /\ loaded
    /\ \A p \in Sessions :
          /\ pend[p].what # "connections"
          /\ cl[p].at \notin {"login", "stat"} /\ req[p].cmd # "stat"
          /\ cl[p].at = "gone" => ~ cl[p].connected

\* How the sessions on a server change when p goes from one to another.
LEMMA OnChange ==
    ASSUME Inv, NEW p \in Sessions, NEW d, cl' = [cl EXCEPT ![p] = d],
           NEW s \in Servers
    PROVE  /\ (Conn(cl[p]) = s <=> Conn(d) = s) => On(s)' = On(s)
           /\ Conn(cl[p]) = s /\ Conn(d) # s =>
                  p \in On(s) /\ On(s)' = On(s) \ {p}
           /\ Conn(cl[p]) # s /\ Conn(d) = s =>
                  p \notin On(s) /\ On(s)' = On(s) \cup {p}
<1>1. s # NULL
  BY LevelFacts
<1>2. \A c : Conn(c) = s <=> c.connected /\ c.groupserver = s
  BY <1>1 DEF Conn
<1>3. cl'[p] = d /\ \A q \in Sessions \ {p} : cl'[q] = cl[q]
  BY DEF Inv, ClientTypes
<1>4. On(s)' = {q \in Sessions : cl'[q].connected /\ cl'[q].groupserver = s}
  BY DEF On
<1>5. p \in On(s) <=> Conn(cl[p]) = s
  BY <1>2 DEF On
<1>6. On(s)' = IF Conn(d) = s THEN On(s) \cup {p} ELSE On(s) \ {p}
  BY <1>2, <1>3, <1>4 DEF On
<1> DEFINE A == On(s)
           B == On(s)'
<1>7. (p \in A <=> Conn(cl[p]) = s)
      /\ B = IF Conn(d) = s THEN A \cup {p} ELSE A \ {p}
  BY <1>5, <1>6
<1> HIDE DEF A, B
<1>8. /\ (Conn(cl[p]) = s <=> Conn(d) = s) => B = A
      /\ Conn(cl[p]) = s /\ Conn(d) # s => p \in A /\ B = A \ {p}
      /\ Conn(cl[p]) # s /\ Conn(d) = s => p \notin A /\ B = A \cup {p}
  BY <1>7
<1> QED
  BY <1>8 DEF A, B

LEMMA TallySame ==
    ASSUME Inv, Counts, NEW p \in Sessions, NEW d, cl' = [cl EXCEPT ![p] = d],
           Conn(d) = Conn(cl[p]), connections' = connections
    PROVE  ServerConnections'
<1> SUFFICES ASSUME NEW s \in Servers
             PROVE  connections'[s] = Cardinality(On(s)')
  BY DEF ServerConnections
<1>1. On(s)' = On(s)
  <2>1. Conn(cl[p]) = s <=> Conn(d) = s
    OBVIOUS
  <2> QED
    BY <2>1, OnChange
<1> QED
  BY <1>1 DEF Counts, ServerConnections

LEMMA OnFinite ==
    ASSUME Counting, NEW s \in Servers
    PROVE  /\ IsFiniteSet(On(s)) /\ Cardinality(On(s)) \in Nat
           /\ Cardinality(On(s)) <= UIntMax
           /\ \A p \in Sessions : p \notin On(s) =>
                 Cardinality(On(s)) + 1 <= UIntMax
<1>1. On(s) \subseteq Sessions /\ IsFiniteSet(Sessions)
      /\ UIntMax \in Nat /\ Cardinality(Sessions) \in Nat
  BY ServerAssumption, FS_CardinalityType DEF On, Counting
<1>2. /\ IsFiniteSet(On(s)) /\ Cardinality(On(s)) \in Nat
      /\ Cardinality(On(s)) <= Cardinality(Sessions)
  BY <1>1, FS_Subset, FS_CardinalityType
<1>3. ASSUME NEW p \in Sessions, p \notin On(s)
      PROVE  Cardinality(On(s)) + 1 <= Cardinality(Sessions)
  <2>1. Cardinality(On(s) \cup {p}) = Cardinality(On(s)) + 1
    BY <1>2, <1>3, FS_AddElement
  <2>2. Cardinality(On(s) \cup {p}) <= Cardinality(Sessions)
    BY <1>1, FS_Subset
  <2> QED
    BY <2>1, <2>2
<1> QED
  BY <1>1, <1>2, <1>3 DEF Counting

LEMMA Modulo ==
    ASSUME NEW n \in Nat, NEW x \in Nat, x <= n PROVE x % (n + 1) = x
  OBVIOUS

LEMMA TallyCount ==
    ASSUME Counting, Inv, Counts, NEW p \in Sessions, NEW d,
           cl' = [cl EXCEPT ![p] = d], NEW s \in Servers, NEW n \in {-1, 1},
           connections' = [t \in Servers |->
                             IF t = s THEN (connections[t] + n) % (UIntMax + 1)
                             ELSE connections[t]],
           \/ n = -1 /\ Conn(cl[p]) = s /\ Conn(d) = NULL
           \/ n = 1 /\ Conn(cl[p]) = NULL /\ Conn(d) = s
    PROVE  ServerConnections'
<1> SUFFICES ASSUME NEW t \in Servers
             PROVE  connections'[t] = Cardinality(On(t)')
  BY DEF ServerConnections
<1>1. NULL \notin Servers /\ UIntMax \in Nat
  BY LevelFacts, ServerAssumption
<1>2. connections[t] = Cardinality(On(t))
  BY DEF Counts, ServerConnections
<1>3. CASE t # s
  <2>1. Conn(cl[p]) = t <=> Conn(d) = t
    BY <1>1, <1>3
  <2>2. On(t)' = On(t)
    BY <2>1, OnChange
  <2> QED
    BY <1>2, <1>3, <2>2
<1>4. CASE t = s /\ n = -1
  <2>0. Conn(cl[p]) = t /\ Conn(d) # t
    BY <1>1, <1>4
  <2>1. p \in On(t) /\ On(t)' = On(t) \ {p}
    BY <2>0, OnChange
  <2>2. /\ Cardinality(On(t)) \in Nat /\ Cardinality(On(t)) <= UIntMax
        /\ Cardinality(On(t)') = Cardinality(On(t)) - 1
        /\ Cardinality(On(t)') \in Nat
    BY <2>1, OnFinite, FS_RemoveElement, FS_CardinalityType
  <2>3. /\ connections'[t] = (connections[t] + n) % (UIntMax + 1)
        /\ connections[t] + n = Cardinality(On(t)')
        /\ Cardinality(On(t)') <= UIntMax
    BY <1>1, <1>2, <1>4, <2>2
  <2> QED
    BY <1>1, <2>2, <2>3, Modulo
<1>5. CASE t = s /\ n = 1
  <2>0. Conn(cl[p]) # t /\ Conn(d) = t
    BY <1>1, <1>5
  <2>1. p \notin On(t) /\ On(t)' = On(t) \cup {p}
    BY <2>0, OnChange
  <2>2. /\ Cardinality(On(t)) \in Nat
        /\ Cardinality(On(t)) + 1 <= UIntMax
        /\ Cardinality(On(t)') = Cardinality(On(t)) + 1
    BY <2>1, OnFinite, FS_AddElement
  <2>3. /\ connections'[t] = (connections[t] + n) % (UIntMax + 1)
        /\ connections[t] + n = Cardinality(On(t)')
        /\ Cardinality(On(t)') \in Nat /\ Cardinality(On(t)') <= UIntMax
    BY <1>2, <1>5, <2>2
  <2> QED
    BY <1>1, <2>3, Modulo
<1> QED
  BY <1>3, <1>4, <1>5

LEMMA CountPlain ==
    ASSUME Counting, NEW p \in Sessions, NEW S, NEW n, Count(p, S, n)
    PROVE  /\ pend' = pend
           /\ connections' = [t \in Servers |->
                  IF t \in S THEN (connections[t] + n) % (UIntMax + 1)
                  ELSE connections[t]]
  BY DEF Count, Counting

\* A server is given up, or there was none.
LEMMA TallyDrop ==
    ASSUME Counting, Inv, Counts, NEW p \in Sessions, NEW d,
           cl' = [cl EXCEPT ![p] = d], Conn(d) = NULL,
           Count(p, {Conn(cl[p])} \ {NULL}, -1)
    PROVE  ServerConnections' /\ pend' = pend
<1>1. pend' = pend
  BY CountPlain
<1>2. CASE Conn(cl[p]) = NULL
  <2>1. connections' = connections
    BY <1>2, CountPlain DEF Inv, SharedTypes
  <2> QED
    BY <1>1, <1>2, <2>1, TallySame
<1>3. CASE Conn(cl[p]) # NULL
  <2>1. Conn(cl[p]) \in Servers
    BY <1>3, GoodIsIdle DEF Conn, ClientRec
  <2> DEFINE s == Conn(cl[p])
  <2>2. connections' = [t \in Servers |->
                          IF t = s THEN (connections[t] + -1) % (UIntMax + 1)
                          ELSE connections[t]]
    <3>1. {s} \ {NULL} = {s}
      BY <1>3
    <3>2. Count(p, {s}, -1)
      BY <3>1
    <3> HIDE DEF s
    <3> QED
      BY <3>2, CountPlain
  <2> QED
    BY <1>1, <2>1, <2>2, TallyCount
<1> QED
  BY <1>2, <1>3

\* The rest of Counts, once the counters are right.
LEMMA CountsStep ==
    ASSUME Inv, Counts, ServerConnections', loaded' = loaded,
           NEW p \in Sessions, NEW d, NEW r,
           cl' = [cl EXCEPT ![p] = d], req' = [req EXCEPT ![p] = r],
           d.at \notin {"login", "stat"}, r.cmd # "stat",
           d.at = "gone" => ~ d.connected,
           \A q \in Sessions : pend'[q].what # "connections"
    PROVE  Counts'
<1>1. /\ cl'[p] = d /\ req'[p] = r
      /\ \A q \in Sessions \ {p} : cl'[q] = cl[q] /\ req'[q] = req[q]
  BY DEF Inv, ClientTypes
<1>2. ASSUME NEW q \in Sessions
      PROVE  /\ cl'[q].at \notin {"login", "stat"} /\ req'[q].cmd # "stat"
             /\ cl'[q].at = "gone" => ~ cl'[q].connected
  <2>1. CASE q = p
    BY <1>1, <2>1
  <2>2. CASE q # p
    BY <1>1, <2>2 DEF Counts
  <2> QED
    BY <2>1, <2>2
<1>3. loaded'
  BY DEF Counts
<1> QED
  BY <1>2, <1>3 DEF Counts

\* A settled client, d, that is on the server of c or on none.
Keeps(d, c) == Idle(d) /\ d.groupserver \in {c.groupserver, NULL}

LEMMA IdleConn ==
    ASSUME NEW c, Idle(c) PROVE Conn(c) = c.groupserver
<1>1. CASE c.connected
  BY <1>1 DEF Conn
<1>2. CASE ~ c.connected
  BY <1>2 DEF Conn, Idle, Settled
<1> QED
  BY <1>1, <1>2

LEMMA BecomeCounts ==
    ASSUME Counting, Inv, Counts, NEW p \in Sessions, Idle(cl[p]),
           NEW d, Keeps(d, cl[p]), d.at \notin {"login", "stat", "gone"},
           Become(p, d), NEW r, r.cmd # "stat", req' = [req EXCEPT ![p] = r]
    PROVE  Counts'
<1>1. Conn(cl[p]) = cl[p].groupserver /\ Conn(d) = d.groupserver
  BY IdleConn DEF Keeps
<1>2. /\ cl' = [cl EXCEPT ![p] = d] /\ loaded' = loaded
      /\ Count(p, IF d.groupserver = NULL THEN {cl[p].groupserver} \ {NULL}
                  ELSE {}, -1)
  BY DEF Become
<1>3. CASE d.groupserver = NULL
  <2>1. ServerConnections' /\ pend' = pend
    BY <1>1, <1>2, <1>3, TallyDrop
  <2> QED
    BY <1>2, <2>1, CountsStep DEF Counts
<1>4. CASE d.groupserver # NULL
  <2>1. Count(p, {}, -1)
    BY <1>2, <1>4
  <2>2. connections' = connections /\ pend' = pend
    BY <2>1, CountPlain DEF Inv, SharedTypes
  <2>3. ServerConnections'
    BY <1>1, <1>2, <1>4, <2>2, TallySame DEF Keeps
  <2> QED
    BY <1>2, <2>2, <2>3, CountsStep DEF Counts
<1> QED
  BY <1>3, <1>4

LEMMA BecomeStays ==
    ASSUME Counting, Inv, Counts, NEW p \in Sessions, Idle(cl[p]),
           NEW d, Keeps(d, cl[p]), d.at \notin {"login", "stat", "gone"},
           Become(p, d), req' = req
    PROVE  Counts'
  BY BecomeCounts, SameReq DEF Counts

\* Nothing shared changes, and p stays where it is counted.
LEMMA PlainCounts ==
    ASSUME Inv, Counts, NEW p \in Sessions, NEW d, NEW r,
           cl' = [cl EXCEPT ![p] = d], req' = [req EXCEPT ![p] = r],
           UNCHANGED <<connections, loaded>>,
           \A q \in Sessions : pend'[q].what # "connections",
           Conn(d) = Conn(cl[p]), d.at \notin {"login", "stat"},
           d.at = "gone" => ~ d.connected, r.cmd # "stat"
    PROVE  Counts'
<1>1. ServerConnections'
  BY TallySame
<1> QED
  BY <1>1, CountsStep

LEMMA LocalCounts ==
    ASSUME Inv, Counts, NEW p \in Sessions, NEW d, NEW r, Local(p, d, r),
           Conn(d) = Conn(cl[p]), d.at \notin {"login", "stat", "gone"},
           r.cmd # "stat"
    PROVE  Counts'
  BY PlainCounts DEF Local, shared, Counts

LEMMA CrashCounts ==
    ASSUME Inv, Counts, NEW p \in Sessions, Crash(p), ~ cl[p].connected
    PROVE  Counts'
<1>1. Conn(Fresh) = NULL /\ Conn(cl[p]) = NULL
  BY FreshFacts DEF Conn
<1>2. /\ cl' = [cl EXCEPT ![p] = Fresh] /\ req' = [req EXCEPT ![p] = NoReq]
      /\ UNCHANGED <<connections, loaded, pend>>
  BY DEF Crash, shared
<1>3. \A q \in Sessions : pend'[q].what # "connections"
  BY <1>2 DEF Counts
<1>4. Fresh.at = "gone" /\ ~ Fresh.connected /\ NoReq.cmd # "stat"
  BY FreshFacts, RequestFacts
<1> QED
  BY <1>1, <1>2, <1>3, <1>4, PlainCounts

\* The helpers give a server up or keep it.
LEMMA ErrorKeeps ==
    ASSUME NEW c, Idle(c) PROVE Keeps(set_errormsg(c), c)
<1>1. CASE c.error
  BY <1>1, SetError DEF set_errormsg, Keeps, Idle
<1>2. CASE ~ c.error
  <2>1. set_errormsg(c).groupserver \in {c.groupserver, NULL}
    BY <1>2 DEF set_errormsg, Idle, ClientRec
  <2> QED
    BY <2>1, SetError DEF Keeps, Idle
<1> QED
  BY <1>1, <1>2

LEMMA DisconnectKeeps ==
    ASSUME NEW c, Idle(c), NEW e \in BOOLEAN
    PROVE  Keeps(disconnect_server(c, e), c)
<1>1. CASE ~ c.connected
  BY <1>1, Disconnect DEF disconnect_server, Keeps, Idle
<1>2. CASE c.connected
  <2>1. disconnect_server(c, e).groupserver = NULL
    BY <1>2 DEF disconnect_server, Idle, ClientRec
  <2> QED
    BY <2>1, Disconnect DEF Keeps, Idle
<1> QED
  BY <1>1, <1>2

LEMMA GotoKeeps ==
    ASSUME NEW c, NEW b, Keeps(c, b), NEW x \in Points
    PROVE  Keeps(Goto(c, x), b) /\ Goto(c, x).at = x
  BY GotoFacts DEF Keeps, Idle

LEMMA KeepsTwice ==
    ASSUME NEW a, NEW b, NEW c, Keeps(a, b), Keeps(b, c) PROVE Keeps(a, c)
  BY DEF Keeps

LEMMA KeepsSelf == ASSUME NEW c, Idle(c) PROVE Keeps(c, c)
  BY DEF Keeps

\* Points a command may leave a session at.
Landing == {"loop", "select", "primary", "ask", "pass", "head", "next", "end"}

LEMMA GotoCounts ==
    ASSUME Counting, Inv, Counts, NEW p \in Sessions, Idle(cl[p]),
           NEW c, Keeps(c, cl[p]), NEW x \in Landing,
           Become(p, Goto(c, x)), req' = req
    PROVE  Counts'
<1>1. x \in Points \ {"login", "stat", "gone"}
  BY DEF Landing, Points
<1> QED
  BY <1>1, GotoKeeps, BecomeStays

LEMMA FailsCounts ==
    ASSUME Counting, Inv, Counts, NEW p \in Sessions, Idle(cl[p]),
           NEW c, Keeps(c, cl[p]), NEW x \in Landing, Fails(p, Goto(c, x))
    PROVE  Counts'
<1>1. cl[p].currserver = NULL => ~ cl[p].connected
  BY DEF Idle, Sound
<1> QED
  BY <1>1, GotoCounts, CrashCounts DEF Fails

LEMMA LocalGoto ==
    ASSUME Inv, Counts, NEW p \in Sessions, NEW c, Idle(c),
           Conn(c) = Conn(cl[p]), NEW x \in Landing,
           NEW r, r.cmd # "stat", Local(p, Goto(c, x), r)
    PROVE  Counts'
<1>1. x \in Points \ {"login", "stat", "gone"}
  BY DEF Landing, Points
<1>2. Goto(c, x).at = x /\ Conn(Goto(c, x)) = Conn(c)
  BY <1>1, GotoFacts DEF Idle, Conn
<1> QED
  BY <1>1, <1>2, LocalCounts

LEMMA ReadKeeps ==
    ASSUME Inv, NEW p \in Sessions, cl[p].at = "loop"
    PROVE  /\ Idle(cl[p]) /\ Keeps(cl[p], cl[p])
           /\ Keeps(set_errormsg(cl[p]), cl[p])
           /\ Idle(Read(p)) /\ Keeps(Read(p), cl[p])
           /\ Conn(Read(p)) = Conn(cl[p])
           /\ Read(p).at = "loop" /\ set_errormsg(cl[p]).at = "loop"
  BY ReadFacts, ErrorKeeps, SetError DEF Keeps, Conn, Idle

LEMMA AtKeeps ==
    ASSUME Inv, NEW p \in Sessions, cl[p].at \in Resting
    PROVE  /\ Idle(cl[p]) /\ Keeps(cl[p], cl[p])
           /\ Keeps(set_errormsg(cl[p]), cl[p])
  BY IdleAt, ErrorKeeps, KeepsSelf

LEMMA QuitCounts ==
    ASSUME Counting, Inv, Counts, NEW p \in Sessions, Idle(cl[p]),
           NEW c, Keeps(c, cl[p]), NEW e \in QuitFails,
           Become(p, Goto(disconnect_server(c, e), "loop")), req' = req
    PROVE  Counts'
<1>1. e \in BOOLEAN /\ Idle(c)
  BY DEF QuitFails, Keeps
<1>2. Keeps(disconnect_server(c, e), cl[p])
  BY <1>1, DisconnectKeeps, KeepsTwice
<1> QED
  BY <1>2, GotoCounts DEF Landing

LEMMA GroupCounts ==
    ASSUME Counting, Inv, Counts, NEW p \in Sessions,
           NEW cmd \in {"group", "listgroup"}, NEW g \in Newsgroups,
           group(p, cmd, g)
    PROVE  Counts'
<1> DEFINE s == ServerOf[g]
<1>1. s \in Servers /\ Request(cmd, g, s).cmd # "stat"
  BY ServerAssumption, RequestFacts
<1>2. cl[p].at = "loop" /\ loaded
  BY DEF group, Reads, At, Counts
<1> HIDE DEF s
<1>3. ASSUME Local(p, Goto(Read(p), "ask"), Request(cmd, g, s))
      PROVE  Counts'
  BY <1>1, <1>2, <1>3, ReadKeeps, LocalGoto DEF Landing
<1>4. ASSUME NEW e \in BOOLEAN, NEW d,
             d = Read(p) \/ d = disconnect_server(Read(p), e),
             Become(p, [Goto(d, "select") EXCEPT !.group = g]),
             req' = [req EXCEPT ![p] = Request(cmd, g, s)]
      PROVE  Counts'
  <2> DEFINE f == [Goto(d, "select") EXCEPT !.group = g]
  <2>1. Keeps(d, cl[p])
    BY <1>2, <1>4, ReadKeeps, DisconnectKeeps, KeepsTwice
  <2>2. Keeps(Goto(d, "select"), cl[p]) /\ Goto(d, "select").at = "select"
    BY <2>1, GotoKeeps DEF Points
  <2>3. Keeps(f, cl[p]) /\ f.at = "select"
    <3>1. Idle(f) /\ f.at = "select"
      BY <2>2, GroupFacts DEF Idle, Keeps
    <3>2. f.groupserver = Goto(d, "select").groupserver
      BY <2>2 DEF Keeps, Idle, ClientRec
    <3> QED
      BY <2>2, <3>1, <3>2 DEF Keeps
  <2> HIDE DEF f
  <2>4. Become(p, f)
    BY <1>4 DEF f
  <2> QED
    BY <1>1, <1>2, <1>4, <2>3, <2>4, ReadKeeps, BecomeCounts
<1>5. QuitFails \subseteq BOOLEAN
  BY DEF QuitFails
<1> QED
  BY <1>2, <1>3, <1>4, <1>5 DEF group, s

LEMMA FindCounts ==
    ASSUME Counting, Inv, Counts, NEW p \in Sessions,
           NEW cmd \in {"article", "stat"}, find_article_server(p, cmd)
    PROVE  Counts'
<1> DEFINE s == Read(p).groupserver
           q == Request(cmd, NoGroup, NULL)
<1>1. cl[p].at = "loop" /\ cmd = "article"
  BY DEF find_article_server, Reads, At, Counting
<1>2. q \in ReqRec /\ q.cmd # "stat"
  BY <1>1, RequestFacts
<1>3. \/ Local(p, Goto(Read(p), "next"), q)
      \/ Local(p, Goto(Read(p), "head"),
               [q EXCEPT !.oldlev = Level[s], !.olds = s])
  BY DEF find_article_server
<1> HIDE DEF q, s
<1>4. [q EXCEPT !.oldlev = Level[s], !.olds = s].cmd # "stat"
  BY <1>2 DEF ReqRec
<1> QED
  BY <1>1, <1>2, <1>3, <1>4, ReadKeeps, LocalGoto DEF Landing

LEMMA NumberCounts ==
    ASSUME Counting, Inv, Counts, NEW p \in Sessions,
           PassNumber(p) \/ XOver(p) \/ StatNumber(p)
    PROVE  Counts'
<1>1. cl[p].at = "loop" /\ ~ StatNumber(p)
  BY DEF PassNumber, XOver, StatNumber, Reads, At, Counting
<1>2. cl[p].group \in Newsgroups \cup {NoGroup}
  BY GoodIsIdle DEF ClientRec
<1>3. \A cmd \in {"article", "xover"}, g \in Newsgroups \cup {NoGroup} :
         Request(cmd, g, NULL).cmd # "stat"
  BY RequestFacts
<1>4. \E x \in Landing, cmd \in {"article", "xover"},
         g \in Newsgroups \cup {NoGroup} :
         Local(p, Goto(Read(p), x), Request(cmd, g, NULL))
  <2>1. CASE PassNumber(p)
    BY <2>1 DEF PassNumber, Landing
  <2>2. CASE XOver(p)
    BY <1>2, <2>2 DEF XOver, Landing
  <2> QED
    BY <1>1, <2>1, <2>2
<1> QED
  BY <1>1, <1>3, <1>4, ReadKeeps, LocalGoto

LEMMA AnswerCounts ==
    ASSUME Counting, Inv, Counts, NEW p \in Sessions,
           SendGroup(p) \/ passcmd(p) \/ check_headperm(p) \/ Stat(p)
    PROVE  Counts'
<1>1. cl[p].at \in {"ask", "pass", "head"} /\ ~ Stat(p)
  BY DEF SendGroup, passcmd, check_headperm, Stat, At, Counts
<1>2. /\ Idle(cl[p]) /\ Keeps(cl[p], cl[p])
      /\ Keeps(set_errormsg(cl[p]), cl[p])
  BY <1>1, AtKeeps, RestingPoints
<1>3. CASE SendGroup(p)
  <2>1. CASE Become(p, Goto(cl[p], IF req[p].cmd = "group" THEN "loop"
                                                           ELSE "pass"))
             /\ req' = req
    BY <1>2, <2>1, GotoCounts DEF Landing
  <2>2. CASE Fails(p, Goto(set_errormsg(cl[p]),
                           IF req[p].cmd = "xover" THEN "pass" ELSE "loop"))
    BY <1>2, <2>2, FailsCounts DEF Landing
  <2> QED
    BY <1>3, <2>1, <2>2 DEF SendGroup
<1>4. CASE passcmd(p)
  <2>1. ASSUME NEW c \in {cl[p], set_errormsg(cl[p])}, req' = req,
               \/ Become(p, Goto(c, "loop"))
               \/ \E e \in QuitFails :
                     Become(p, Goto(disconnect_server(c, e), "loop"))
        PROVE  Counts'
    BY <1>2, <2>1, GotoCounts, QuitCounts DEF Landing
  <2>2. CASE cl[p].currserver = NULL /\ Crash(p)
    BY <1>2, <2>2, CrashCounts DEF Idle, Sound
  <2> QED
    BY <1>4, <2>1, <2>2 DEF passcmd
<1>5. CASE check_headperm(p)
  <2>1. req[p].cmd # "stat"
    BY DEF Counts
  <2>2. ASSUME NEW x \in {"pass", "loop", "next"},
               Become(p, Goto(cl[p], x)), req' = req
        PROVE  Counts'
    BY <1>2, <2>2, GotoCounts DEF Landing
  <2>3. CASE Fails(p, Goto(set_errormsg(cl[p]), "next"))
    BY <1>2, <2>3, FailsCounts DEF Landing
  <2> QED
    BY <1>5, <2>1, <2>2, <2>3 DEF check_headperm
<1> QED
  BY <1>1, <1>3, <1>4, <1>5

LEMMA SearchCounts ==
    ASSUME Counting, Inv, Counts, NEW p \in Sessions, NextServer(p)
    PROVE  Counts'
<1>1. /\ Idle(cl[p]) /\ req[p] \in ReqRec /\ req[p].cmd # "stat"
  BY IdleAt, GoodIsIdle, RestingPoints DEF NextServer, At, Counts
<1>2. CASE Local(p, Goto(cl[p], "loop"), req[p])
  BY <1>1, <1>2, LocalGoto DEF Landing
<1>3. ASSUME NEW s,
             Local(p, Goto(cl[p], "select"),
                   [req[p] EXCEPT !.target = s, !.primary = NULL,
                                  !.oldlev = Level[s], !.next = s + 1])
      PROVE  Counts'
  <2>1. [req[p] EXCEPT !.target = s, !.primary = NULL,
                       !.oldlev = Level[s], !.next = s + 1].cmd = req[p].cmd
    BY <1>1 DEF ReqRec
  <2> QED
    BY <1>1, <1>3, <2>1, LocalGoto DEF Landing
<1> QED
  BY <1>2, <1>3 DEF NextServer

LEMMA PostCounts ==
    ASSUME Counting, Inv, Counts, NEW p \in Sessions, post(p) PROVE Counts'
<1>1. "post" \in Commands /\ cl[p].at = "loop" /\ ~ cl[p].error
  BY DEF post, Reads, At
<1>2. /\ Idle(cl[p]) /\ Keeps(cl[p], cl[p])
      /\ Keeps(set_errormsg(cl[p]), cl[p])
  BY <1>1, ReadKeeps
<1>3. CASE Become(p, [cl[p] EXCEPT !.postsock = TRUE]) /\ req' = req
  <2>1. /\ Keeps([cl[p] EXCEPT !.postsock = TRUE], cl[p])
        /\ [cl[p] EXCEPT !.postsock = TRUE].at = "loop"
    BY <1>1, <1>2, PostsockFacts DEF Idle, Keeps
  <2> QED
    BY <1>2, <1>3, <2>1, BecomeStays
<1>4. ASSUME NEW e \in BOOLEAN, NEW d,
             d = IF cl[p].connected
                 THEN [cl[p] EXCEPT !.connected = FALSE, !.groupserver = NULL,
                                    !.group = NoGroup, !.error = e]
                 ELSE cl[p],
             Become(p, [d EXCEPT !.sock = "none", !.postsock = FALSE]),
             req' = req
      PROVE  Counts'
  <2>1. /\ d \in ClientRec /\ ~ d.connected /\ d.groupserver = NULL
        /\ d.at = "loop"
    BY <1>1, <1>2, <1>4 DEF Idle, Settled, ClientRec
  <2>2. /\ Keeps([d EXCEPT !.sock = "none", !.postsock = FALSE], cl[p])
        /\ [d EXCEPT !.sock = "none", !.postsock = FALSE].at = "loop"
    BY <1>1, <2>1, PostFacts DEF Keeps
  <2> QED
    BY <1>2, <1>4, <2>2, BecomeStays
<1>5. CASE Fails(p, [Goto(set_errormsg(cl[p]), "end") EXCEPT
                        !.sock = "post", !.postsock = TRUE])
  <2> DEFINE c == Goto(set_errormsg(cl[p]), "end")
  <2>1. /\ Idle(c) /\ c.at = "end"
        /\ c.connected = set_errormsg(cl[p]).connected
    BY <1>2, GotoFacts DEF Idle, Keeps, Points
  <2>2. ~ set_errormsg(cl[p]).connected
    BY <1>1, <1>2 DEF set_errormsg, Idle, ClientRec
  <2>3. /\ Keeps([c EXCEPT !.sock = "post", !.postsock = TRUE], cl[p])
        /\ [c EXCEPT !.sock = "post", !.postsock = TRUE].at = "end"
    <3> HIDE DEF c
    <3>1. c \in ClientRec /\ ~ c.connected /\ c.groupserver = NULL
      BY <2>1, <2>2 DEF Idle, Settled
    <3> QED
      BY <1>1, <2>1, <3>1, PostFacts DEF Keeps
  <2>4. CASE cl[p].currserver = NULL /\ Crash(p)
    BY <1>2, <2>4, CrashCounts DEF Idle, Sound
  <2>5. CASE Become(p, [c EXCEPT !.sock = "post", !.postsock = TRUE])
             /\ req' = req
    BY <1>2, <2>3, <2>5, BecomeStays
  <2> QED
    BY <1>5, <2>4, <2>5 DEF Fails
<1>6. ASSUME NEW c \in Unposted(cl[p]), Become(p, c), req' = req
      PROVE  Counts'
  <2>1. CASE c = cl[p]
    BY <1>1, <1>2, <1>6, <2>1, BecomeStays
  <2>2. CASE c = Goto(cl[p], "end")
    BY <1>2, <1>6, <2>2, GotoCounts DEF Landing
  <2> QED
    BY <2>1, <2>2, <1>6 DEF Unposted
<1>7. QuitFails \subseteq BOOLEAN
  BY DEF QuitFails
<1>8. CASE send_ihave(p)
  BY <1>3, <1>4, <1>5, <1>7, <1>8 DEF send_ihave
<1> QED
  BY <1>6, <1>8 DEF post

LEMMA ClientQuitCounts ==
    ASSUME Counting, Inv, Counts, NEW p \in Sessions, client_quit(p)
    PROVE  Counts'
<1>1. /\ Count(p, IF cl[p].connected THEN {cl[p].groupserver} ELSE {}, -1)
      /\ cl' = [cl EXCEPT ![p] = Fresh] /\ req' = [req EXCEPT ![p] = NoReq]
      /\ loaded' = loaded
  BY DEF client_quit
<1>2. cl[p].connected => cl[p].groupserver # NULL
  BY GoodIsIdle DEF Sound
<1>3. (IF cl[p].connected THEN {cl[p].groupserver} ELSE {})
          = {Conn(cl[p])} \ {NULL}
  BY <1>2 DEF Conn
<1>4. /\ Fresh.at = "gone" /\ ~ Fresh.connected /\ NoReq.cmd # "stat"
      /\ Conn(Fresh) = NULL
  BY FreshFacts, RequestFacts DEF Conn
<1>5. Count(p, {Conn(cl[p])} \ {NULL}, -1)
  BY <1>1, <1>3
<1>6. ServerConnections' /\ pend' = pend
  BY <1>1, <1>4, <1>5, TallyDrop
<1> QED
  BY <1>1, <1>4, <1>6, CountsStep DEF Counts

LEMMA OtherCounts ==
    ASSUME Counting, Inv, Counts, NEW p \in Sessions,
           \/ ModeReader(p) \/ ihave(p) \/ WriteFails(p)
           \/ Leave(p) \/ Signal(p) \/ Connect(p)
    PROVE  Counts'
<1>1. CASE ModeReader(p)
  <2>1. cl[p].at = "loop"
    BY <1>1 DEF ModeReader, Reads, At
  <2>2. /\ Idle(cl[p]) /\ Keeps(Read(p), cl[p]) /\ Read(p).at = "loop"
        /\ Keeps(set_errormsg(Read(p)), cl[p])
    BY <2>1, ReadKeeps, ErrorKeeps, KeepsTwice
  <2>3. \/ Become(p, Read(p))
        \/ Become(p, Goto(set_errormsg(Read(p)), "end"))
    BY <1>1 DEF ModeReader
  <2>4. req' = req
    BY <1>1 DEF ModeReader
  <2> QED
    BY <2>2, <2>3, <2>4, BecomeStays, GotoCounts DEF Landing
<1>2. CASE ihave(p)
  <2>1. cl[p].at = "loop" /\ req' = req
    BY <1>2 DEF ihave, Reads, At
  <2>2. PICK e \in BOOLEAN : Become(p, disconnect_server(Read(p), e))
    BY <1>2 DEF ihave, QuitFails
  <2>3. /\ Idle(cl[p])
        /\ Keeps(disconnect_server(Read(p), e), cl[p])
        /\ disconnect_server(Read(p), e).at = "loop"
    BY <2>1, ReadKeeps, Disconnect, DisconnectKeeps, KeepsTwice DEF Idle
  <2> QED
    BY <2>1, <2>2, <2>3, BecomeStays
<1>3. CASE WriteFails(p)
  <2>1. cl[p].at = "loop"
    BY <1>3 DEF WriteFails, At
  <2> QED
    BY <1>3, <2>1, ReadKeeps, BecomeStays DEF WriteFails
<1>4. CASE Leave(p) \/ Signal(p)
  <2>1. client_quit(p)
    BY <1>4 DEF Leave, Signal, Counting
  <2> QED
    BY <2>1, ClientQuitCounts
<1>5. CASE Connect(p)
  <2>1. ~ cl[p].connected /\ Local(p, Goto(Fresh, "loop"), NoReq)
    BY <1>5 DEF Connect, At, Counts
  <2>2. Conn(Fresh) = Conn(cl[p]) /\ Idle(Fresh) /\ NoReq.cmd # "stat"
    BY <2>1, FreshFacts, RequestFacts DEF Conn
  <2> QED
    BY <2>1, <2>2, LocalGoto DEF Landing
<1> QED
  BY <1>1, <1>2, <1>3, <1>4, <1>5

\* Where a server is chosen p is on none, and nothing else is counted.
LEMMA PickCounts ==
    ASSUME Inv, Counts, NEW p \in Sessions, ~ cl[p].connected,
           UNCHANGED <<connections, loaded>>,
           \A q \in Sessions : pend'[q].what # "connections",
           NEW d, ~ d.connected, d.at \notin {"login", "stat"},
           cl' = [cl EXCEPT ![p] = d], NEW r, r.cmd # "stat",
           req' = [req EXCEPT ![p] = r]
    PROVE  Counts'
<1>1. Conn(d) = Conn(cl[p])
  BY DEF Conn
<1> QED
  BY <1>1, PlainCounts

LEMMA ReturnKeeps ==
    ASSUME Inv, NEW p \in Sessions, NEW c, Idle(c), NEW ok \in BOOLEAN
    PROVE  /\ Idle(Return(p, ok, c))
           /\ Return(p, ok, c).groupserver = c.groupserver
           /\ Return(p, ok, c).at \notin {"login", "stat", "gone"}
<1> DEFINE grouping == req[p].cmd \in {"group", "listgroup"}
           d == IF ok /\ grouping THEN [c EXCEPT !.group = req[p].new] ELSE c
           x == IF ~grouping THEN (IF ok THEN "head" ELSE "next")
                ELSE IF ok THEN "ask"
                ELSE IF req[p].cmd = "group" THEN "loop" ELSE "pass"
<1>1. req[p].new \in Newsgroups \cup {NoGroup}
  BY GoodIsIdle DEF ReqRec
<1>2. d \in ClientRec /\ d.groupserver = c.groupserver
  BY <1>1 DEF Idle, ClientRec
<1>3. x \in Points \ {"login", "stat", "gone"}
  BY DEF Points
<1>4. Return(p, ok, c) = Goto(d, x)
  BY DEF Return
<1> HIDE DEF d, x
<1> QED
  BY <1>2, <1>3, <1>4, ReturnFacts, GotoFacts

LEMMA SelectCounts ==
    ASSUME Counting, Inv, Counts, NEW p \in Sessions, connect_groupserver(p)
    PROVE  Counts'
<1>1. Idle(cl[p]) /\ loaded /\ Keeps(cl[p], cl[p])
  BY GoodIsIdle, KeepsSelf DEF connect_groupserver, At, Picking, Counts
<1>2. CASE Become(p, Return(p, TRUE, cl[p])) /\ req' = req
  <2>1. /\ Keeps(Return(p, TRUE, cl[p]), cl[p])
        /\ Return(p, TRUE, cl[p]).at \notin {"login", "stat", "gone"}
    BY <1>1, ReturnKeeps DEF Keeps
  <2> QED
    BY <1>1, <1>2, <2>1, BecomeStays
<1>3. ASSUME NEW e \in BOOLEAN, req' = req,
             Become(p, Goto(disconnect_server(cl[p], e), "primary"))
      PROVE  Counts'
  BY <1>1, <1>3, DisconnectKeeps, GotoCounts DEF Landing
<1>4. QuitFails \subseteq BOOLEAN
  BY DEF QuitFails
<1> QED
  BY <1>1, <1>2, <1>3, <1>4 DEF connect_groupserver

\* Down leaves a session that is on no server.
LEMMA DownCounts ==
    ASSUME Inv, Counts, NEW p \in Sessions, cl[p].at \in Picking, Down(p),
           UNCHANGED <<shared, req, pend>>
    PROVE  Counts'
<1> DEFINE d == IF req[p].primary = NULL THEN cl[p]
                ELSE [cl[p] EXCEPT !.group = NoGroup, !.groupserver = NULL]
<1>1. /\ cl[p] \in ClientRec /\ Sound(cl[p]) /\ ~ cl[p].connected
      /\ cl[p].groupserver # NULL => req[p].primary # NULL
  BY GoodIsIdle DEF Placed
<1>2. Idle(d) /\ d.groupserver = NULL
  <2>1. CASE req[p].primary = NULL
    BY <1>1, <2>1 DEF Idle, Settled
  <2>2. CASE req[p].primary # NULL
    <3> DEFINE f == [cl[p] EXCEPT !.group = NoGroup, !.groupserver = NULL]
    <3>1. /\ f \in ClientRec /\ f.connected = cl[p].connected
          /\ f.groupserver = NULL /\ f.sock = cl[p].sock
          /\ f.open = cl[p].open /\ f.error = cl[p].error
      BY <1>1 DEF ClientRec
    <3> HIDE DEF f
    <3>2. Idle(f) /\ f.groupserver = NULL
      BY <1>1, <3>1 DEF Idle, Sound, Settled
    <3> QED
      BY <2>2, <3>2 DEF f
  <2> QED
    BY <2>1, <2>2
<1>3. cl' = [cl EXCEPT ![p] = Return(p, FALSE, d)]
  BY DEF Down
<1> HIDE DEF d
<1>4. /\ ~ Return(p, FALSE, d).connected
      /\ Return(p, FALSE, d).at \notin {"login", "stat"}
  BY <1>2, ReturnKeeps DEF Idle, Sound
<1>5. /\ UNCHANGED <<connections, loaded>> /\ req' = [req EXCEPT ![p] = req[p]]
      /\ \A q \in Sessions : pend'[q].what # "connections"
      /\ req[p].cmd # "stat"
  BY SameReq DEF shared, Counts
<1> QED
  BY <1>1, <1>3, <1>4, <1>5, PickCounts

\* From one point of the selection to the next.
LEMMA MoveCounts ==
    ASSUME Inv, Counts, NEW p \in Sessions,
           cl[p].at \in Picking \cup {"primary"},
           UNCHANGED <<connections, loaded>>,
           \A q \in Sessions : pend'[q].what # "connections",
           NEW x \in {"pick", "roll", "wrap", "room", "connect"},
           cl' = [cl EXCEPT ![p].at = x], NEW r, r.cmd # "stat",
           req' = [req EXCEPT ![p] = r]
    PROVE  Counts'
<1>1. cl[p] \in ClientRec /\ ~ cl[p].connected
  BY GoodIsIdle DEF Placed
<1>2. x \in Points /\ cl' = [cl EXCEPT ![p] = Goto(cl[p], x)]
  BY DEF Points, Goto
<1>3. Goto(cl[p], x).at = x /\ ~ Goto(cl[p], x).connected
  BY <1>1, <1>2, GotoFacts
<1> QED
  BY <1>1, <1>2, <1>3, PickCounts

LEMMA PrimaryCounts ==
    ASSUME Inv, Counts, NEW p \in Sessions, selectserver_primary(p)
    PROVE  Counts'
<1> DEFINE t == req[p].target
           r == [req[p] EXCEPT !.cand = t, !.primary = t]
<1>1. /\ cl[p].at = "primary" /\ loaded /\ req[p] \in ReqRec
      /\ req[p].cmd # "stat"
      /\ \A q \in Sessions : pend[q].what # "connections"
  BY GoodIsIdle DEF selectserver_primary, At, Counts
<1>2. r.cmd # "stat"
  BY <1>1 DEF ReqRec
<1>3. CASE /\ cl' = [cl EXCEPT ![p].at = "pick"]
           /\ UNCHANGED <<shared, req, pend>>
  BY <1>1, <1>3, SameReq, MoveCounts DEF shared
<1>4. CASE /\ cl' = [cl EXCEPT ![p].at = "connect"]
           /\ req' = [req EXCEPT ![p].cand = t, ![p].primary = t]
           /\ UNCHANGED <<shared, pend>>
  <2>1. req' = [req EXCEPT ![p] = r]
    BY <1>4 DEF Inv, ClientTypes
  <2> HIDE DEF r
  <2> QED
    BY <1>1, <1>2, <1>4, <2>1, MoveCounts DEF shared
<1> QED
  BY <1>1, <1>3, <1>4 DEF selectserver_primary

LEMMA PickingCounts ==
    ASSUME Inv, Counts, NEW p \in Sessions,
           \/ get_next_server(p) \/ RollLevel(p) \/ WrapLevel(p)
           \/ CheckRoom(p) \/ selectserver_backup(p)
    PROVE  Counts'
<1>1. /\ cl[p].at \in Picking /\ req[p] \in ReqRec /\ req[p].cmd # "stat"
      /\ \A q \in Sessions : pend[q].what # "connections"
  BY GoodIsIdle DEF get_next_server, RollLevel, WrapLevel, CheckRoom,
                    selectserver_backup, At, Picking, Counts
<1>2. CASE get_next_server(p)
  <2>1. CASE Down(p) /\ req' = req
    BY <1>1, <1>2, <2>1, DownCounts DEF get_next_server
  <2>2. ASSUME NEW s, req' = [req EXCEPT ![p].cand = s],
               cl' = [cl EXCEPT ![p].at = "roll"]
        PROVE  Counts'
    <3>1. [req[p] EXCEPT !.cand = s].cmd # "stat"
      BY <1>1 DEF ReqRec
    <3>2. req' = [req EXCEPT ![p] = [req[p] EXCEPT !.cand = s]]
      BY <2>2 DEF Inv, ClientTypes
    <3>3. UNCHANGED <<connections, loaded, pend>>
      BY <1>2 DEF get_next_server, shared
    <3> QED
      BY <1>1, <2>2, <3>1, <3>2, <3>3, MoveCounts
  <2> QED
    BY <1>2, <2>1, <2>2 DEF get_next_server
<1>3. CASE RollLevel(p)
  <2>1. /\ cl' = [cl EXCEPT ![p].at = "wrap"]
        /\ UNCHANGED <<connections, loaded, req>>
    BY <1>3 DEF RollLevel
  <2>2. ASSUME NEW q \in Sessions PROVE pend'[q].what # "connections"
    <3>1. pend \in [Sessions -> Stores]
      BY DEF Inv, SharedTypes
    <3>2. CASE pend' = pend
      BY <1>1, <3>2
    <3>3. ASSUME NEW l, NEW n,
                 pend' = [pend EXCEPT ![p] = [what |-> "balance_pos",
                                              of |-> l, val |-> n]]
          PROVE  pend'[q].what # "connections"
      BY <1>1, <3>1, <3>3
    <3> QED
      BY <1>3, <3>2, <3>3 DEF RollLevel
  <2> QED
    BY <1>1, <2>1, <2>2, SameReq, MoveCounts
<1>4. CASE WrapLevel(p)
  <2>1. /\ cl' = [cl EXCEPT ![p].at = "room"]
        /\ UNCHANGED <<connections, loaded, req, pend>>
    BY <1>4 DEF WrapLevel
  <2> QED
    BY <1>1, <2>1, SameReq, MoveCounts
<1>5. CASE CheckRoom(p)
  <2>1. UNCHANGED <<connections, loaded, pend>>
    BY <1>5 DEF CheckRoom, shared
  <2>2. CASE cl' = [cl EXCEPT ![p].at = "pick"] /\ req' = req
    BY <1>1, <2>1, <2>2, SameReq, MoveCounts
  <2>3. ASSUME NEW f, req' = [req EXCEPT ![p].primary = f],
               cl' = [cl EXCEPT ![p].at = "connect"]
        PROVE  Counts'
    <3>1. [req[p] EXCEPT !.primary = f].cmd # "stat"
      BY <1>1 DEF ReqRec
    <3>2. req' = [req EXCEPT ![p] = [req[p] EXCEPT !.primary = f]]
      BY <2>3 DEF Inv, ClientTypes
    <3> QED
      BY <1>1, <2>1, <2>3, <3>1, <3>2, MoveCounts
  <2>4. CASE /\ cl' = [cl EXCEPT ![p].at = "connect"]
             /\ req' = [req EXCEPT ![p].primary =
                           IF @ = NULL THEN req[p].cand ELSE @]
    <3> DEFINE f == IF req[p].primary = NULL THEN req[p].cand
                                             ELSE req[p].primary
    <3>1. req' = [req EXCEPT ![p].primary = f]
      BY <1>1, <2>4 DEF Inv, ClientTypes
    <3> HIDE DEF f
    <3> QED
      BY <2>3, <2>4, <3>1
  <2> QED
    BY <1>5, <2>2, <2>4 DEF CheckRoom
<1>6. CASE selectserver_backup(p)
  <2>1. CASE Down(p)
    BY <1>1, <1>6, <2>1, DownCounts DEF selectserver_backup
  <2>2. CASE cl' = [cl EXCEPT ![p].at = "pick"]
    <3>1. UNCHANGED <<connections, loaded, pend, req>>
      BY <1>6 DEF selectserver_backup, shared
    <3> QED
      BY <1>1, <2>2, <3>1, SameReq, MoveCounts
  <2> QED
    BY <1>6, <2>1, <2>2 DEF selectserver_backup
<1> QED
  BY <1>2, <1>3, <1>4, <1>5, <1>6

LEMMA ConnectCounts ==
    ASSUME Counting, Inv, Counts, NEW p \in Sessions, connect_server(p)
    PROVE  Counts'
<1> DEFINE s == req[p].cand
           c == [cl[p] EXCEPT !.groupserver = s]
           d == [c EXCEPT !.connected = TRUE, !.currserver = s,
                          !.sock = "open", !.open = @ + 1]
<1>1. cl[p].at = "connect" /\ HasAuth = {}
  BY DEF connect_server, At, Counting
<1>2. /\ s \in Servers /\ c \in ClientRec /\ ~ c.connected
      /\ Idle(d) /\ d.connected
  <2>1. cl[p].at = "connect"
    BY <1>1
  <2>2. /\ req[p] \in ReqRec /\ req[p].target \in Servers
        /\ s \in Servers /\ req[p].primary # NULL
        /\ c \in ClientRec /\ Sound(c) /\ ~ c.connected
        /\ Idle(d) /\ d.connected
    BY <2>1, ConnectFacts
  <2> QED
    BY <2>2
<1>3. /\ ~ cl[p].connected /\ req' = [req EXCEPT ![p] = req[p]]
      /\ req[p].cmd # "stat" /\ loaded' = loaded
      /\ \A q \in Sessions : pend[q].what # "connections"
  BY <1>1, GoodIsIdle, SameReq DEF Placed, Picking, Counts, connect_server
<1>4. \/ /\ cl' = [cl EXCEPT ![p] = Goto(c, "retry")]
         /\ UNCHANGED <<connections, pend>>
      \/ /\ cl' = [cl EXCEPT ![p] = Return(p, TRUE, d)]
         /\ Count(p, {s}, 1)
  BY <1>1 DEF connect_server
<1>5. d.groupserver = s
  BY <1>2 DEF ClientRec
<1> HIDE DEF c, d
<1>6. CASE /\ cl' = [cl EXCEPT ![p] = Goto(c, "retry")]
           /\ UNCHANGED <<connections, pend>>
  <2>1. Goto(c, "retry").at = "retry" /\ ~ Goto(c, "retry").connected
    BY <1>2, GotoFacts DEF Points
  <2> QED
    BY <1>3, <1>6, <2>1, PickCounts
<1>7. CASE /\ cl' = [cl EXCEPT ![p] = Return(p, TRUE, d)]
           /\ Count(p, {s}, 1)
  <2> DEFINE f == Return(p, TRUE, d)
  <2>1. /\ Idle(f) /\ f.groupserver = s
        /\ f.at \notin {"login", "stat", "gone"}
    BY <1>2, <1>5, ReturnKeeps
  <2> HIDE DEF f, s
  <2>2. cl' = [cl EXCEPT ![p] = f] /\ Count(p, {s}, 1)
    BY <1>7 DEF f, s
  <2>3. Conn(cl[p]) = NULL /\ Conn(f) = s
    BY <1>3, <2>1, IdleConn DEF Conn
  <2>4. /\ pend' = pend
        /\ connections' = [t \in Servers |->
              IF t = s THEN (connections[t] + 1) % (UIntMax + 1)
              ELSE connections[t]]
    BY <2>2, CountPlain
  <2>5. ServerConnections'
    BY <1>2, <2>2, <2>3, <2>4, TallyCount DEF s
  <2> QED
    BY <1>3, <2>1, <2>2, <2>4, <2>5, CountsStep
<1> QED
  BY <1>4, <1>6, <1>7

LEMMA AdvanceCounts ==
    ASSUME Counting, Inv, Counts, NEW p \in Sessions, Advance(p)
    PROVE  Counts'
<1>1. ~ connect_auth_nntp(p)
  BY DEF connect_auth_nntp, At, Counts
<1>2. CASE Store(p)
  <2>1. /\ UNCHANGED <<connections, loaded, cl, req>>
        /\ pend' = [pend EXCEPT ![p] = NoStore]
    BY <1>2 DEF Store, Counts
  <2>2. ASSUME NEW q \in Sessions PROVE pend'[q].what # "connections"
    <3>1. pend \in [Sessions -> Stores] /\ NoStore.what = "none"
      BY DEF Inv, SharedTypes, NoStore
    <3> QED
      BY <2>1, <3>1 DEF Counts
  <2> QED
    BY <2>1, <2>2 DEF Counts, ServerConnections, On
<1> QED
  BY <1>1, <1>2, SelectCounts, PrimaryCounts, PickingCounts, ConnectCounts,
     AnswerCounts, SearchCounts DEF Advance

LEMMA InitCounts == Init => Counts
<1> SUFFICES ASSUME Init PROVE Counts
  OBVIOUS
<1>1. \A p \in Sessions : cl[p] = Fresh /\ req[p] = NoReq /\ pend[p] = NoStore
  BY DEF Init
<1>2. ASSUME NEW s \in Servers PROVE connections[s] = Cardinality(On(s))
  <2>1. On(s) = {}
    BY <1>1, FreshFacts DEF On
  <2> QED
    BY <2>1, FS_EmptySet DEF Init
<1>3. NoStore.what # "connections" /\ loaded
  BY DEF NoStore, Init
<1> QED
  BY <1>1, <1>2, <1>3, FreshFacts, RequestFacts DEF Counts, ServerConnections

\* The counter of a server is the number of sessions connected to it, with any
\* number of sessions and servers and whichever way commands and connections
\* fail, without the faults that break it (socket.c, server.c).
THEOREM ServersCounted ==
    ASSUME Counting
    PROVE  Spec => []ServerConnections
<1>1. Inv /\ Counts /\ [Next]_vars => Counts'
  <2> SUFFICES ASSUME Inv, Counts, [Next]_vars PROVE Counts'
    OBVIOUS
  <2>1. CASE clear_servers \/ load_servers
    BY <2>1 DEF clear_servers, load_servers, Counting, Counts
  <2>2. ASSUME NEW p \in Sessions, Advance(p) PROVE Counts'
    BY <2>2, AdvanceCounts
  <2>3. ASSUME NEW p \in Sessions, Command(p) PROVE Counts'
    BY <2>3, GroupCounts, FindCounts, NumberCounts, PostCounts, OtherCounts
    DEF Command
  <2>4. ASSUME NEW p \in Sessions,
               WriteFails(p) \/ Leave(p) \/ Signal(p) \/ Connect(p)
        PROVE  Counts'
    BY <2>4, OtherCounts
  <2>5. CASE UNCHANGED vars
    BY <2>5 DEF vars, Counts, ServerConnections, On
  <2> QED
    BY <2>1, <2>2, <2>3, <2>4, <2>5 DEF Next, Session
<1>2. Spec => []Counts
  BY <1>1, InitInv, NextInv, InitCounts, PTL DEF Spec
<1>3. Counts => ServerConnections
  BY DEF Counts
<1> QED
  BY <1>2, <1>3, PTL
-----------------------------------------------------------------------------
(* The group of a session and its server.                                  *)

\* A server that newsgroups are listed by is asked without the balancer.
Direct ==
    \A g \in Newsgroups :
        LET s == ServerOf[g]
        IN \/ Policy[s] = "single"
           \/ Policy[s] = "backup" /\ MaxConnections[s] = 0

Matches(c) ==
    c.group # NoGroup =>
        c.connected /\ Groups[c.groupserver] = Groups[ServerOf[c.group]]

Grouping(r) == r.cmd \in {"group", "listgroup"}

\* Every server that is tried has the groups of the target.
Candidate(c, r) ==
    /\ c.at \in {"roll", "wrap", "room", "connect", "login"} =>
          Groups[r.cand] = Groups[r.target]
    /\ c.at = "login" => c.groupserver = r.cand

\* A server is chosen for a group, or for an article.
Asks(c, r) ==
    /\ r.new \in Newsgroups /\ r.target = ServerOf[r.new]
    /\ c.at \in Picking => r.primary # NULL
Searches(c) == IF c.at = "select" THEN Matches(c) ELSE c.group = NoGroup

OnGroup(c, r) ==
    /\ c.at # "stat" /\ r.cmd # "stat"
    /\ c.at \in {"head", "next"} => ~ Grouping(r)
    /\ c.at \in Choosing => Candidate(c, r)
    /\ ~ c.error =>
          IF c.at \notin Choosing THEN Matches(c)
          ELSE IF Grouping(r) THEN Asks(c, r) ELSE Searches(c)

GroupInv == \A p \in Sessions : OnGroup(cl[p], req[p])

\* Servers of one level have one pattern: between two of them there would be a
\* least one where it changes.
LEMMA LevelPattern ==
    ASSUME NEW s \in Servers, NEW t \in Servers, Level[s] = Level[t]
    PROVE  Groups[s] = Groups[t]
<1> DEFINE New(n) == {u \in 1 .. n : u = 1 \/ Groups[u] # Groups[u - 1]}
<1>1. ASSUME NEW a \in Servers, NEW b \in Servers, a < b,
             Level[a] = Level[b], NEW u \in (a + 1) .. b,
             Groups[u] # Groups[u - 1]
      PROVE  FALSE
  <2>1. /\ IsFiniteSet(New(b)) /\ New(a) \subseteq New(b)
        /\ u \in New(b) /\ u \notin New(a)
    <3>1. IsFiniteSet(1 .. b)
      BY <1>1, FS_Interval, LevelFacts
    <3>2. New(b) \subseteq 1 .. b
      OBVIOUS
    <3>3. a \in Nat /\ b \in Nat /\ 1 .. a \subseteq 1 .. b
      BY <1>1, LevelFacts
    <3>4. u \in 1 .. b /\ u \notin 1 .. a
      BY <1>1, <3>3
    <3> QED
      BY <1>1, <3>1, <3>2, <3>3, <3>4, FS_Subset
  <2>2. Cardinality(New(a)) # Cardinality(New(b))
    BY <2>1, FS_Subset
  <2>3. Level[a] = Cardinality(New(a)) /\ Level[b] = Cardinality(New(b))
    BY DEF Level
  <2> QED
    BY <1>1, <2>2, <2>3
<1> HIDE DEF New
<1>2. ASSUME NEW a \in Servers, NEW b \in Servers, a < b, Level[a] = Level[b]
      PROVE  Groups[a] = Groups[b]
  <2>1. a \in Nat /\ b \in Nat
    BY <1>2, LevelFacts
  <2>2. SUFFICES ASSUME Groups[a] # Groups[b] PROVE FALSE
    OBVIOUS
  <2> DEFINE Away == {u \in a .. b : Groups[u] # Groups[a]}
  <2>3. Away \in SUBSET Nat /\ b \in Away
    BY <1>2, <2>1, <2>2
  <2>4. PICK u \in Away : \A v \in Away : u <= v
    BY <2>3, LeastNumber
  <2>5. u \in (a + 1) .. b /\ u - 1 \in a .. b
    BY <2>1, <2>4
  <2>6. u - 1 \notin Away
    BY <2>1, <2>4, <2>5
  <2>7. Groups[u] # Groups[u - 1]
    BY <2>4, <2>5, <2>6
  <2> QED
    BY <1>1, <1>2, <2>5, <2>7
<1>3. s \in Nat /\ t \in Nat
  BY LevelFacts
<1> QED
  BY <1>2, <1>3

\* What a session needs to go on from where no server is chosen.
Fit(c) == c.error \/ Matches(c)

Lands(c, r) ==
    /\ c.at \in Resting \ {"stat"} /\ r.cmd # "stat"
    /\ c.at \in {"head", "next"} => ~ Grouping(r)
    /\ Fit(c)

LEMMA OnGroupStep ==
    ASSUME Inv, GroupInv, NEW p \in Sessions, NEW d, NEW r, OnGroup(d, r),
           cl' = [cl EXCEPT ![p] = d], req' = [req EXCEPT ![p] = r]
    PROVE  GroupInv'
<1>1. ASSUME NEW q \in Sessions PROVE OnGroup(cl'[q], req'[q])
  <2>1. CASE q = p
    <3>1. cl'[q] = d /\ req'[q] = r
      BY <2>1 DEF Inv, ClientTypes
    <3> QED
      BY <3>1
  <2>2. CASE q # p
    <3>1. cl'[q] = cl[q] /\ req'[q] = req[q]
      BY <2>2 DEF Inv, ClientTypes
    <3> QED
      BY <3>1 DEF GroupInv
  <2> QED
    BY <2>1, <2>2
<1> QED
  BY <1>1 DEF GroupInv, OnGroup, Candidate, Asks, Searches, Matches, Grouping

LEMMA LandsOnGroup ==
    ASSUME NEW c, NEW r, Lands(c, r) PROVE OnGroup(c, r)
<1>1. c.at \notin Choosing
  BY DEF Lands, Resting
<1> QED
  BY <1>1 DEF Lands, OnGroup, Fit

LEMMA LandsStep ==
    ASSUME Inv, GroupInv, NEW p \in Sessions, NEW d, NEW r, Lands(d, r),
           cl' = [cl EXCEPT ![p] = d], req' = [req EXCEPT ![p] = r]
    PROVE  GroupInv'
  BY LandsOnGroup, OnGroupStep

\* The locals are what they were.
LEMMA LandsStays ==
    ASSUME Inv, GroupInv, NEW p \in Sessions, NEW d, Lands(d, req[p]),
           cl' = [cl EXCEPT ![p] = d], req' = req
    PROVE  GroupInv'
  BY LandsStep, SameReq

\* The helpers keep a session fit.
LEMMA ErrorFit ==
    ASSUME NEW c, Idle(c) PROVE Fit(set_errormsg(c))
  BY SetError DEF Fit, Idle

LEMMA DisconnectFit ==
    ASSUME NEW c, Idle(c), Fit(c), NEW e \in BOOLEAN
    PROVE  /\ Fit(disconnect_server(c, e))
           /\ disconnect_server(c, e).error \/
                  disconnect_server(c, e).group = NoGroup
<1>1. CASE ~ c.connected
  BY <1>1 DEF disconnect_server, Fit, Matches
<1>2. CASE c.connected
  <2>1. disconnect_server(c, e).group = NoGroup
    BY <1>2 DEF disconnect_server, Idle, ClientRec
  <2> QED
    BY <2>1 DEF Fit, Matches
<1> QED
  BY <1>1, <1>2

LEMMA GotoFit ==
    ASSUME NEW c \in ClientRec, NEW x \in Points
    PROVE  /\ Goto(c, x).at = x /\ Goto(c, x).error = c.error
           /\ Goto(c, x).group = c.group
           /\ Goto(c, x).groupserver = c.groupserver
           /\ Goto(c, x).connected = c.connected
           /\ Matches(Goto(c, x)) <=> Matches(c)
           /\ Fit(c) => Fit(Goto(c, x))
<1>1. /\ Goto(c, x).at = x /\ Goto(c, x).error = c.error
      /\ Goto(c, x).group = c.group
      /\ Goto(c, x).groupserver = c.groupserver
      /\ Goto(c, x).connected = c.connected
  BY DEF Goto, ClientRec
<1> QED
  BY <1>1 DEF Fit, Matches

\* Points a command may leave a session at, when it chooses no server.
Pausing == {"loop", "ask", "pass", "head", "next", "end"}

LEMMA LandingPoints ==
    Pausing \subseteq Points /\ Pausing \subseteq Resting \ {"stat"}
  BY DEF Pausing, Resting, Points, Choosing, Picking

LEMMA GotoLands ==
    ASSUME NEW c \in ClientRec, Fit(c), NEW x \in Pausing, NEW r,
           r.cmd # "stat", x \in {"head", "next"} => ~ Grouping(r)
    PROVE  Lands(Goto(c, x), r)
  BY LandingPoints, GotoFit DEF Lands

LEMMA RestingFit ==
    ASSUME Inv, GroupInv, NEW p \in Sessions, cl[p].at \in Resting
    PROVE  /\ Idle(cl[p]) /\ cl[p] \in ClientRec /\ Fit(cl[p])
           /\ Idle(set_errormsg(cl[p])) /\ set_errormsg(cl[p]) \in ClientRec
           /\ Fit(set_errormsg(cl[p])) /\ set_errormsg(cl[p]).at = cl[p].at
           /\ req[p].cmd # "stat"
           /\ cl[p].at \in {"head", "next"} => ~ Grouping(req[p])
<1>1. /\ Idle(cl[p]) /\ Idle(set_errormsg(cl[p]))
      /\ set_errormsg(cl[p]).at = cl[p].at
  BY IdleAt
<1>2. OnGroup(cl[p], req[p]) /\ cl[p].at \notin Choosing
  BY DEF GroupInv, Resting
<1> QED
  BY <1>1, <1>2, ErrorFit DEF OnGroup, Fit, Idle

LEMMA ReadFit ==
    ASSUME Inv, GroupInv, NEW p \in Sessions, cl[p].at = "loop"
    PROVE  /\ Idle(Read(p)) /\ Read(p) \in ClientRec /\ Fit(Read(p))
           /\ Read(p).at = "loop" /\ Read(p).group = cl[p].group
<1>1. Idle(Read(p)) /\ Read(p).at = "loop" /\ cl[p] \in ClientRec
  BY ReadFacts DEF Idle
<1>2. /\ Read(p).group = cl[p].group /\ Read(p).error = cl[p].error
      /\ Read(p).connected = cl[p].connected
      /\ Read(p).groupserver = cl[p].groupserver
  BY <1>1 DEF Read, ClientRec
<1>3. Fit(cl[p])
  BY RestingFit, RestingPoints
<1> QED
  BY <1>1, <1>2, <1>3 DEF Fit, Matches, Idle

\* Sessions that end, however they do.
LEMMA FreshLands == Lands(Fresh, NoReq)
<1>1. Fresh.at = "gone" /\ Fresh.group = NoGroup /\ NoReq.cmd = "none"
  BY DEF Fresh, NoReq
<1> QED
  BY <1>1, RestingPoints DEF Lands, Fit, Matches

LEMMA CrashGroups ==
    ASSUME Inv, GroupInv, NEW p \in Sessions, Crash(p) PROVE GroupInv'
  BY FreshLands, LandsStep DEF Crash

LEMMA GotoGroups ==
    ASSUME Inv, GroupInv, NEW p \in Sessions, NEW c \in ClientRec, Fit(c),
           NEW x \in Pausing, Become(p, Goto(c, x)), req' = req,
           req[p].cmd # "stat", x \in {"head", "next"} => ~ Grouping(req[p])
    PROVE  GroupInv'
  BY GotoLands, LandsStays DEF Become

LEMMA FailsGroups ==
    ASSUME Inv, GroupInv, NEW p \in Sessions, NEW c \in ClientRec, Fit(c),
           NEW x \in Pausing, Fails(p, Goto(c, x)),
           req[p].cmd # "stat", x \in {"head", "next"} => ~ Grouping(req[p])
    PROVE  GroupInv'
  BY GotoGroups, CrashGroups DEF Fails

LEMMA LocalGroups ==
    ASSUME Inv, GroupInv, NEW p \in Sessions, NEW c \in ClientRec, Fit(c),
           NEW x \in Pausing, NEW r, Local(p, Goto(c, x), r),
           r.cmd # "stat", x \in {"head", "next"} => ~ Grouping(r)
    PROVE  GroupInv'
  BY GotoLands, LandsStep DEF Local

LEMMA QuitGroups ==
    ASSUME Inv, GroupInv, NEW p \in Sessions, NEW c, Idle(c), Fit(c),
           NEW e \in QuitFails, req[p].cmd # "stat",
           Become(p, Goto(disconnect_server(c, e), "loop")), req' = req
    PROVE  GroupInv'
<1>1. e \in BOOLEAN
  BY DEF QuitFails
<1>2. /\ disconnect_server(c, e) \in ClientRec
      /\ Fit(disconnect_server(c, e))
  BY <1>1, Disconnect, DisconnectFit DEF Idle
<1> QED
  BY <1>2, GotoGroups DEF Pausing

\* What a new request is for.
LEMMA RequestGroup ==
    ASSUME NEW cmd, NEW g, NEW s
    PROVE  /\ Request(cmd, g, s).cmd = cmd /\ Request(cmd, g, s).new = g
           /\ Request(cmd, g, s).target = s
  BY DEF Request, NoReq

LEMMA GroupGroups ==
    ASSUME Inv, GroupInv, NEW p \in Sessions,
           NEW cmd \in {"group", "listgroup"}, NEW g \in Newsgroups,
           group(p, cmd, g)
    PROVE  GroupInv'
<1> DEFINE s == ServerOf[g]
           r == Request(cmd, g, s)
<1>1. /\ r.cmd = cmd /\ r.new = g /\ r.target = s /\ r.cmd # "stat"
      /\ Grouping(r)
  BY RequestGroup DEF Grouping
<1>2. cl[p].at = "loop"
  BY DEF group, Reads, At
<1>3. /\ Idle(Read(p)) /\ Read(p) \in ClientRec /\ Fit(Read(p))
  BY <1>2, ReadFit
<1> HIDE DEF r
<1>4. ASSUME NEW x \in {"ask", "loop", "pass"}, Local(p, Goto(Read(p), x), r)
      PROVE  GroupInv'
  BY <1>1, <1>3, <1>4, LocalGroups DEF Pausing
<1>5. ASSUME NEW e \in BOOLEAN, NEW d,
             d = Read(p) \/ d = disconnect_server(Read(p), e),
             Become(p, [Goto(d, "select") EXCEPT !.group = g]),
             req' = [req EXCEPT ![p] = r]
      PROVE  GroupInv'
  <2> DEFINE f == [Goto(d, "select") EXCEPT !.group = g]
  <2>1. Idle(d)
    BY <1>3, <1>5, Disconnect DEF Idle
  <2>2. Idle(Goto(d, "select")) /\ Goto(d, "select").at = "select"
    BY <2>1, GotoFacts DEF Idle, Points
  <2>3. f.at = "select"
    BY <2>2, GroupFacts DEF Idle
  <2>4. cl' = [cl EXCEPT ![p] = f]
    BY <1>5 DEF Become
  <2> HIDE DEF f
  <2>5. OnGroup(f, r)
    BY <1>1, <2>3 DEF OnGroup, Candidate, Asks, Choosing, Picking
  <2> QED
    BY <1>5, <2>4, <2>5, OnGroupStep
<1>6. QuitFails \subseteq BOOLEAN
  BY DEF QuitFails
<1> QED
  BY <1>4, <1>5, <1>6 DEF group, r

LEMMA FindGroups ==
    ASSUME Inv, GroupInv, "stat" \notin Commands, NEW p \in Sessions,
           NEW cmd \in {"article", "stat"}, find_article_server(p, cmd)
    PROVE  GroupInv'
<1> DEFINE s == Read(p).groupserver
           q == Request(cmd, NoGroup, NULL)
<1>1. cl[p].at = "loop" /\ cmd = "article"
  BY DEF find_article_server, Reads, At
<1>2. q.cmd = "article" /\ q \in ReqRec
  BY <1>1, RequestFacts
<1>3. \/ Local(p, Goto(Read(p), "next"), q)
      \/ Local(p, Goto(Read(p), "head"),
               [q EXCEPT !.oldlev = Level[s], !.olds = s])
  BY DEF find_article_server
<1> HIDE DEF q, s
<1>4. [q EXCEPT !.oldlev = Level[s], !.olds = s].cmd = "article"
  BY <1>2 DEF ReqRec
<1>5. Read(p) \in ClientRec /\ Fit(Read(p))
  BY <1>1, ReadFit
<1> QED
  BY <1>2, <1>3, <1>4, <1>5, LocalGroups DEF Pausing, Grouping

LEMMA NumberGroups ==
    ASSUME Inv, GroupInv, "stat" \notin Commands, NEW p \in Sessions,
           PassNumber(p) \/ XOver(p) \/ StatNumber(p)
    PROVE  GroupInv'
<1>1. cl[p].at = "loop" /\ ~ StatNumber(p)
  BY DEF PassNumber, XOver, StatNumber, Reads, At
<1>2. \E x \in {"ask", "pass"}, cmd \in {"article", "xover"} : \E g :
         Local(p, Goto(Read(p), x), Request(cmd, g, NULL))
  BY <1>1 DEF PassNumber, XOver
<1>3. \A g : \A cmd \in {"article", "xover"} :
         Request(cmd, g, NULL).cmd # "stat"
  BY RequestGroup
<1> QED
  BY <1>1, <1>2, <1>3, ReadFit, LocalGroups DEF Pausing

LEMMA AnswerGroups ==
    ASSUME Inv, GroupInv, NEW p \in Sessions,
           SendGroup(p) \/ passcmd(p) \/ check_headperm(p) \/ Stat(p)
    PROVE  GroupInv'
<1>1. cl[p].at \in {"ask", "pass", "head"} /\ ~ Stat(p)
  BY DEF SendGroup, passcmd, check_headperm, Stat, At, GroupInv, OnGroup
<1>2. cl[p].at \in Resting
  BY <1>1, RestingPoints
<1> DEFINE c == cl[p]
           d == set_errormsg(cl[p])
<1>3. /\ Idle(c) /\ c \in ClientRec /\ Fit(c)
      /\ Idle(d) /\ d \in ClientRec /\ Fit(d)
      /\ req[p].cmd # "stat"
      /\ c.at \in {"head", "next"} => ~ Grouping(req[p])
  BY <1>2, RestingFit
<1> HIDE DEF c, d
<1>4. CASE SendGroup(p)
  <2>1. \/ \E x \in {"loop", "pass"} : Become(p, Goto(c, x)) /\ req' = req
        \/ \E x \in {"loop", "pass"} : Fails(p, Goto(d, x))
    BY <1>4 DEF SendGroup, c, d
  <2> QED
    BY <1>3, <2>1, GotoGroups, FailsGroups DEF Pausing
<1>5. CASE passcmd(p)
  <2>1. ASSUME NEW f \in {c, d}, req' = req,
               \/ Become(p, Goto(f, "loop"))
               \/ \E e \in QuitFails :
                     Become(p, Goto(disconnect_server(f, e), "loop"))
        PROVE  GroupInv'
    BY <1>3, <2>1, GotoGroups, QuitGroups DEF Pausing
  <2> QED
    BY <1>5, <2>1, CrashGroups DEF passcmd, c, d
<1>6. CASE check_headperm(p)
  <2>1. ~ Grouping(req[p])
    BY <1>3, <1>6 DEF check_headperm, At, c
  <2>2. \/ \E x \in {"pass", "loop", "next"} :
              Become(p, Goto(c, x)) /\ req' = req
        \/ Fails(p, Goto(d, "next"))
    BY <1>3, <1>6 DEF check_headperm, c, d
  <2> QED
    BY <1>3, <2>1, <2>2, GotoGroups, FailsGroups DEF Pausing
<1> QED
  BY <1>1, <1>4, <1>5, <1>6

LEMMA SearchGroups ==
    ASSUME Inv, GroupInv, NEW p \in Sessions, NextServer(p)
    PROVE  GroupInv'
<1>1. cl[p].at = "next"
  BY DEF NextServer, At
<1>2. /\ cl[p] \in ClientRec /\ Fit(cl[p]) /\ req[p] \in ReqRec
      /\ req[p].cmd # "stat" /\ ~ Grouping(req[p])
  BY <1>1, RestingFit, RestingPoints, GoodIsIdle
<1>3. CASE Local(p, Goto(cl[p], "loop"), req[p])
  BY <1>2, <1>3, LocalGroups DEF Pausing
<1>4. ASSUME NEW s,
             Local(p, Goto(cl[p], "select"),
                   [req[p] EXCEPT !.target = s, !.primary = NULL,
                                  !.oldlev = Level[s], !.next = s + 1])
      PROVE  GroupInv'
  <2> DEFINE r == [req[p] EXCEPT !.target = s, !.primary = NULL,
                                 !.oldlev = Level[s], !.next = s + 1]
             d == Goto(cl[p], "select")
  <2>1. r.cmd = req[p].cmd
    BY <1>2 DEF ReqRec
  <2>2. d.at = "select" /\ Fit(d)
    BY <1>2, GotoFit DEF Points
  <2> HIDE DEF r, d
  <2>3. OnGroup(d, r)
    BY <1>2, <2>1, <2>2
    DEF OnGroup, Candidate, Searches, Fit, Grouping, Choosing, Picking
  <2> QED
    BY <1>4, <2>3, OnGroupStep DEF Local, r, d
<1> QED
  BY <1>3, <1>4 DEF NextServer

\* POST changes the sockets of a session, not its group.
LEMMA SocketFit ==
    ASSUME NEW c \in ClientRec, Fit(c), NEW k, NEW b
    PROVE  /\ Fit([c EXCEPT !.sock = k, !.postsock = b])
           /\ [c EXCEPT !.sock = k, !.postsock = b].at = c.at
           /\ Fit([c EXCEPT !.postsock = b])
           /\ [c EXCEPT !.postsock = b].at = c.at
  BY DEF ClientRec, Fit, Matches

\* POST leaves a session in the command loop, or at its end.
LEMMA LoopLands ==
    ASSUME NEW d, d.at \in {"loop", "end"}, Fit(d), NEW r, r.cmd # "stat"
    PROVE  Lands(d, r)
  BY RestingPoints DEF Lands

LEMMA PostGroups ==
    ASSUME Inv, GroupInv, NEW p \in Sessions, post(p) PROVE GroupInv'
<1>1. cl[p].at = "loop" /\ cl[p].at \in Resting
  BY RestingPoints DEF post, Reads, At
<1>2. /\ cl[p] \in ClientRec /\ Fit(cl[p])
      /\ set_errormsg(cl[p]) \in ClientRec /\ Fit(set_errormsg(cl[p]))
      /\ req[p].cmd # "stat"
  BY <1>1, RestingFit
<1>3. /\ {"loop", "end"} \subseteq Resting \ {"stat"}
      /\ {"loop", "end"} \subseteq Points
  BY RestingPoints DEF Points
<1>4. CASE Become(p, [cl[p] EXCEPT !.postsock = TRUE]) /\ req' = req
  <2> DEFINE f == [cl[p] EXCEPT !.postsock = TRUE]
  <2>1. f.at = "loop" /\ Fit(f)
    BY <1>1, <1>2, SocketFit
  <2>2. cl' = [cl EXCEPT ![p] = f]
    BY <1>4 DEF Become
  <2> HIDE DEF f
  <2>3. Lands(f, req[p])
    BY <1>2, <2>1, LoopLands
  <2> QED
    BY <1>4, <2>2, <2>3, LandsStays
<1>5. ASSUME NEW e \in BOOLEAN, NEW d,
             d = IF cl[p].connected
                 THEN [cl[p] EXCEPT !.connected = FALSE, !.groupserver = NULL,
                                    !.group = NoGroup, !.error = e]
                 ELSE cl[p],
             Become(p, [d EXCEPT !.sock = "none", !.postsock = FALSE]),
             req' = req
      PROVE  GroupInv'
  <2>1. d \in ClientRec /\ d.at = "loop" /\ Fit(d)
    BY <1>1, <1>2, <1>5 DEF ClientRec, Fit, Matches
  <2> DEFINE f == [d EXCEPT !.sock = "none", !.postsock = FALSE]
  <2>2. f.at = "loop" /\ Fit(f)
    BY <2>1, SocketFit
  <2>3. cl' = [cl EXCEPT ![p] = f]
    BY <1>5 DEF Become
  <2> HIDE DEF f
  <2>4. Lands(f, req[p])
    BY <1>2, <2>2, LoopLands
  <2> QED
    BY <1>5, <2>3, <2>4, LandsStays
<1>6. CASE Fails(p, [Goto(set_errormsg(cl[p]), "end") EXCEPT
                        !.sock = "post", !.postsock = TRUE])
  <2> DEFINE c == Goto(set_errormsg(cl[p]), "end")
  <2>1. c \in ClientRec /\ c.at = "end" /\ Fit(c)
    BY <1>2, <1>3, GotoFacts, GotoFit
  <2> DEFINE f == [c EXCEPT !.sock = "post", !.postsock = TRUE]
  <2>2. f.at = "end" /\ Fit(f)
    <3> HIDE DEF c
    <3> QED
      BY <2>1, SocketFit
  <2>3. CASE Become(p, f) /\ req' = req
    <3>1. cl' = [cl EXCEPT ![p] = f] /\ req' = req
      BY <2>3 DEF Become
    <3> HIDE DEF f
    <3>2. Lands(f, req[p])
      BY <1>2, <2>2, LoopLands
    <3> QED
      BY <3>1, <3>2, LandsStays
  <2>4. CASE Crash(p)
    BY <2>4, CrashGroups
  <2> QED
    BY <1>6, <2>3, <2>4 DEF Fails
<1>7. ASSUME NEW c \in Unposted(cl[p]), Become(p, c), req' = req
      PROVE  GroupInv'
  <2>1. c.at \in {"loop", "end"} /\ Fit(c)
    BY <1>1, <1>2, <1>3, GotoFit DEF Unposted
  <2>2. Lands(c, req[p])
    BY <1>2, <2>1, LoopLands
  <2> QED
    BY <1>7, <2>2, LandsStays DEF Become
<1>8. QuitFails \subseteq BOOLEAN
  BY DEF QuitFails
<1>9. CASE send_ihave(p)
  BY <1>4, <1>5, <1>6, <1>8, <1>9 DEF send_ihave
<1> QED
  BY <1>7, <1>9 DEF post

LEMMA OtherGroups ==
    ASSUME Inv, GroupInv, NEW p \in Sessions,
           \/ ModeReader(p) \/ ihave(p) \/ WriteFails(p)
           \/ Leave(p) \/ Signal(p) \/ Connect(p)
    PROVE  GroupInv'
<1>1. CASE ModeReader(p)
  <2>1. cl[p].at = "loop"
    BY <1>1 DEF ModeReader, Reads, At
  <2>2. /\ Idle(Read(p)) /\ Read(p).at = "loop" /\ Fit(Read(p))
    BY <2>1, ReadFit
  <2>3. /\ set_errormsg(Read(p)) \in ClientRec /\ Fit(set_errormsg(Read(p)))
        /\ req[p].cmd # "stat"
    BY <2>1, <2>2, SetError, ErrorFit, RestingFit, RestingPoints DEF Idle
  <2>4. \/ Become(p, Read(p))
        \/ Become(p, Goto(set_errormsg(Read(p)), "end"))
    BY <1>1 DEF ModeReader
  <2>5. req' = req
    BY <1>1 DEF ModeReader
  <2>6. Lands(Read(p), req[p])
    BY <2>2, <2>3, LoopLands
  <2>7. CASE Become(p, Read(p))
    BY <2>5, <2>6, <2>7, LandsStays DEF Become
  <2>8. CASE Become(p, Goto(set_errormsg(Read(p)), "end"))
    BY <2>3, <2>5, <2>8, GotoGroups DEF Pausing
  <2> QED
    BY <2>4, <2>7, <2>8
<1>2. CASE ihave(p)
  <2>1. cl[p].at = "loop" /\ req' = req
    BY <1>2 DEF ihave, Reads, At
  <2>2. PICK e \in BOOLEAN : Become(p, disconnect_server(Read(p), e))
    BY <1>2 DEF ihave, QuitFails
  <2>3. /\ disconnect_server(Read(p), e).at = "loop"
        /\ Fit(disconnect_server(Read(p), e))
    BY <2>1, ReadFit, Disconnect, DisconnectFit
  <2>4. req[p].cmd # "stat"
    BY <2>1, RestingFit, RestingPoints
  <2>5. Lands(disconnect_server(Read(p), e), req[p])
    BY <2>3, <2>4, LoopLands
  <2> QED
    BY <2>1, <2>2, <2>5, LandsStays DEF Become
<1>3. CASE WriteFails(p)
  <2>1. cl[p].at = "loop" /\ Become(p, set_errormsg(cl[p])) /\ req' = req
    BY <1>3 DEF WriteFails, At
  <2>2. /\ set_errormsg(cl[p]).at = "loop" /\ Fit(set_errormsg(cl[p]))
        /\ req[p].cmd # "stat"
    BY <2>1, RestingFit, RestingPoints
  <2>3. Lands(set_errormsg(cl[p]), req[p])
    BY <2>2, LoopLands
  <2> QED
    BY <2>1, <2>3, LandsStays DEF Become
<1>4. CASE Leave(p) \/ Signal(p)
  <2>1. client_quit(p) \/ Crash(p)
    BY <1>4 DEF Leave, Signal
  <2> QED
    BY <2>1, FreshLands, LandsStep, CrashGroups DEF client_quit
<1>5. CASE Connect(p)
  <2>1. Fresh \in ClientRec /\ Fit(Fresh) /\ NoReq.cmd # "stat"
    BY FreshFacts, FreshLands DEF Lands, Idle
  <2> QED
    BY <1>5, <2>1, LocalGroups DEF Connect, Pausing
<1> QED
  BY <1>1, <1>2, <1>3, <1>4, <1>5

-----------------------------------------------------------------------------
(* ... while a server is chosen.                                           *)

\* A choice that has succeeded leaves the session on a server of the target.
LEMMA ReturnsOn ==
    ASSUME Inv, GroupInv, NEW p \in Sessions, NEW c, Idle(c), c.connected,
           Groups[c.groupserver] = Groups[req[p].target],
           ~ c.error => IF Grouping(req[p]) THEN Asks(cl[p], req[p])
                                            ELSE Matches(c)
    PROVE  Lands(Return(p, TRUE, c), req[p])
<1> DEFINE r == req[p]
           d == IF Grouping(r) THEN [c EXCEPT !.group = r.new] ELSE c
           x == IF Grouping(r) THEN "ask" ELSE "head"
<1>1. Return(p, TRUE, c) = Goto(d, x)
  BY DEF Return, Grouping
<1>2. r.new \in Newsgroups \cup {NoGroup}
  BY GoodIsIdle DEF ReqRec
<1>3. d \in ClientRec
  BY <1>2 DEF Idle, ClientRec
<1>4. Fit(d)
  <2>1. CASE c.error
    BY <2>1 DEF Fit, Idle, ClientRec
  <2>2. CASE ~ c.error /\ Grouping(r)
    <3>1. r.target = ServerOf[r.new]
      BY <2>2 DEF Asks
    <3>2. /\ d.group = r.new /\ d.connected
          /\ d.groupserver = c.groupserver
      BY <2>2 DEF Idle, ClientRec
    <3> HIDE DEF d
    <3> QED
      BY <3>1, <3>2 DEF Fit, Matches
  <2>3. CASE ~ c.error /\ ~ Grouping(r)
    BY <2>3 DEF Fit
  <2> QED
    BY <2>1, <2>2, <2>3
<1>5. r.cmd # "stat" /\ x \in Pausing /\ (x = "head" => ~ Grouping(r))
      /\ x # "next"
  BY DEF GroupInv, OnGroup, Pausing
<1> HIDE DEF d, x, r
<1>6. Lands(Goto(d, x), r)
  BY <1>3, <1>4, <1>5, GotoLands
<1> QED
  BY <1>1, <1>6 DEF r

\* One that has failed leaves it where it may go on.
LEMMA ReturnsOff ==
    ASSUME Inv, GroupInv, NEW p \in Sessions, NEW c \in ClientRec, Fit(c)
    PROVE  Lands(Return(p, FALSE, c), req[p])
<1> DEFINE r == req[p]
           x == IF ~ Grouping(r) THEN "next"
                ELSE IF r.cmd = "group" THEN "loop" ELSE "pass"
<1>1. Return(p, FALSE, c) = Goto(c, x)
  BY DEF Return, Grouping
<1>2. r.cmd # "stat" /\ x \in Pausing
      /\ (x \in {"head", "next"} => ~ Grouping(r))
  BY DEF GroupInv, OnGroup, Pausing
<1> HIDE DEF x, r
<1>3. Lands(Goto(c, x), r)
  BY <1>2, GotoLands
<1> QED
  BY <1>1, <1>3 DEF r

LEMMA SelectGroups ==
    ASSUME Inv, GroupInv, NEW p \in Sessions, connect_groupserver(p)
    PROVE  GroupInv'
<1> DEFINE c == cl[p]
           r == req[p]
<1>1. c.at = "select"
  BY DEF connect_groupserver, At
<1>2. /\ Idle(c) /\ c \in ClientRec
      /\ ~ c.error => IF Grouping(r) THEN Asks(c, r) ELSE Matches(c)
      /\ r.cmd # "stat"
  BY <1>1, GoodIsIdle
  DEF GroupInv, OnGroup, Searches, Choosing, Picking, Idle
<1>3. ASSUME c.connected, Groups[c.groupserver] = Groups[r.target],
             Become(p, Return(p, TRUE, c)), req' = req
      PROVE  GroupInv'
  <2>1. Lands(Return(p, TRUE, c), r)
    BY <1>2, <1>3, ReturnsOn
  <2> QED
    BY <1>3, <2>1, LandsStays DEF Become
<1>4. ASSUME NEW e \in BOOLEAN, req' = req,
             Become(p, Goto(disconnect_server(c, e), "primary"))
      PROVE  GroupInv'
  <2> DEFINE f == disconnect_server(c, e)
             d == Goto(f, "primary")
  <2>1. f \in ClientRec /\ (c.error => f.error)
        /\ (~ f.error /\ ~ Grouping(r) => f.group = NoGroup)
    <3>1. f \in ClientRec
      BY <1>2, Disconnect DEF Idle
    <3>2. CASE c.connected
      <4>1. f.group = NoGroup /\ (c.error => f.error)
        BY <1>2, <3>2 DEF disconnect_server, ClientRec
      <4> QED
        BY <3>1, <4>1
    <3>3. CASE ~ c.connected
      <4>1. f = c
        BY <3>3 DEF disconnect_server
      <4> QED
        BY <1>2, <3>1, <3>3, <4>1 DEF Matches
    <3> QED
      BY <3>2, <3>3
  <2> HIDE DEF f
  <2>2. d.at = "primary" /\ d.error = f.error /\ d.group = f.group
    BY <2>1, GotoFit DEF Points
  <2> HIDE DEF d
  <2>3. ~ d.error => IF Grouping(r) THEN Asks(d, r) ELSE Searches(d)
    <3>1. ~ d.error => ~ c.error
      BY <2>1, <2>2
    <3> QED
      BY <1>2, <2>1, <2>2, <3>1 DEF Asks, Searches, Picking
  <2>4. OnGroup(d, r)
    BY <1>2, <2>2, <2>3 DEF OnGroup, Candidate, Choosing, Picking
  <2> QED
    BY <1>4, <2>4, OnGroupStep, SameReq DEF Become, d, f
<1>5. QuitFails \subseteq BOOLEAN
  BY DEF QuitFails
<1>6. \/ Crash(p)
      \/ /\ c.connected /\ Groups[c.groupserver] = Groups[r.target]
         /\ Become(p, Return(p, TRUE, c)) /\ req' = req
      \/ /\ \E e \in QuitFails :
               Become(p, Goto(disconnect_server(c, e), "primary"))
         /\ req' = req
  BY DEF connect_groupserver
<1> QED
  BY <1>3, <1>4, <1>5, <1>6, CrashGroups

\* A session that picks a server, by what matters about it.
LEMMA PickGroups ==
    ASSUME Inv, GroupInv, NEW p \in Sessions,
           cl[p].at \in Picking \cup {"primary"}
    PROVE  /\ cl[p] \in ClientRec /\ ~ cl[p].connected /\ req[p] \in ReqRec
           /\ req[p].target \in Servers /\ req[p].cmd # "stat"
           /\ Candidate(cl[p], req[p])
           /\ ~ cl[p].error => IF Grouping(req[p]) THEN Asks(cl[p], req[p])
                               ELSE cl[p].group = NoGroup
<1>1. cl[p].at \in Choosing /\ cl[p].at # "select"
  BY DEF Choosing, Picking
<1>2. OnGroup(cl[p], req[p])
  BY DEF GroupInv
<1> QED
  BY <1>1, <1>2, GoodIsIdle DEF OnGroup, Placed, Searches

\* It goes on picking.
LEMMA PicksOn ==
    ASSUME Inv, GroupInv, NEW p \in Sessions,
           cl[p].at \in Picking \cup {"primary"}, NEW x \in Picking,
           NEW r, r.cmd = req[p].cmd, r.new = req[p].new,
           r.target = req[p].target,
           x \in {"roll", "wrap", "room", "connect"} =>
               Groups[r.cand] = Groups[r.target],
           ~ cl[p].error /\ Grouping(r) => r.primary # NULL,
           cl' = [cl EXCEPT ![p].at = x], req' = [req EXCEPT ![p] = r]
    PROVE  GroupInv'
<1> DEFINE d == Goto(cl[p], x)
<1>1. x \in Points
  BY DEF Picking, Points
<1>2. /\ cl[p] \in ClientRec /\ req[p].cmd # "stat"
      /\ ~ cl[p].error => IF Grouping(req[p]) THEN Asks(cl[p], req[p])
                          ELSE cl[p].group = NoGroup
  BY PickGroups
<1>3. d.at = x /\ d.error = cl[p].error /\ d.group = cl[p].group
  BY <1>1, <1>2, GotoFit
<1>4. cl' = [cl EXCEPT ![p] = d]
  BY DEF Goto
<1> HIDE DEF d
<1>5. x \in Choosing /\ x \notin {"select", "login", "head", "next", "stat"}
  BY DEF Choosing, Picking
<1>6. Candidate(d, r)
  BY <1>3, <1>5 DEF Candidate
<1>7. ~ d.error => IF Grouping(r) THEN Asks(d, r) ELSE Searches(d)
  BY <1>2, <1>3, <1>5 DEF Asks, Searches, Grouping
<1>8. OnGroup(d, r)
  BY <1>2, <1>3, <1>5, <1>6, <1>7 DEF OnGroup
<1> QED
  BY <1>4, <1>8, OnGroupStep

LEMMA PrimaryGroups ==
    ASSUME Direct, Inv, GroupInv, NEW p \in Sessions, selectserver_primary(p)
    PROVE  GroupInv'
<1> DEFINE t == req[p].target
           r == [req[p] EXCEPT !.cand = t, !.primary = t]
           balanced == \/ Policy[t] = "balance"
                       \/ Policy[t] = "backup" /\ Full(t)
<1>1. cl[p].at = "primary"
  BY DEF selectserver_primary, At
<1>2. /\ req[p] \in ReqRec /\ t \in Servers
      /\ ~ cl[p].error /\ Grouping(req[p]) => Asks(cl[p], req[p])
  BY <1>1, PickGroups
<1>3. ~ cl[p].error /\ Grouping(req[p]) => ~ balanced
  BY <1>2 DEF Asks, Direct, Full
<1>4. CASE /\ balanced
           /\ cl' = [cl EXCEPT ![p].at = "pick"]
           /\ UNCHANGED <<shared, req, pend>>
  <2>1. req' = [req EXCEPT ![p] = req[p]]
    BY <1>4, SameReq
  <2> QED
    BY <1>1, <1>3, <1>4, <2>1, PicksOn DEF Picking
<1>5. CASE /\ cl' = [cl EXCEPT ![p].at = "connect"]
           /\ req' = [req EXCEPT ![p].cand = t, ![p].primary = t]
           /\ UNCHANGED <<shared, pend>>
  <2>1. /\ r.cmd = req[p].cmd /\ r.new = req[p].new /\ r.target = t
        /\ r.cand = t /\ r.primary = t
    BY <1>2 DEF ReqRec
  <2>2. req' = [req EXCEPT ![p] = r]
    BY <1>5 DEF Inv, ClientTypes
  <2>3. t # NULL
    BY <1>2, LevelFacts
  <2>4. cl' = [cl EXCEPT ![p].at = "connect"]
    BY <1>5
  <2> HIDE DEF r, t, balanced
  <2>5. /\ r.target = req[p].target /\ Groups[r.cand] = Groups[r.target]
        /\ r.primary # NULL
    BY <2>1, <2>3 DEF t
  <2> QED
    BY <1>1, <2>1, <2>2, <2>4, <2>5, PicksOn DEF Picking
<1>6. Crash(p) \/ /\ balanced
                  /\ cl' = [cl EXCEPT ![p].at = "pick"]
                  /\ UNCHANGED <<shared, req, pend>>
               \/ /\ cl' = [cl EXCEPT ![p].at = "connect"]
                  /\ req' = [req EXCEPT ![p].cand = t, ![p].primary = t]
                  /\ UNCHANGED <<shared, pend>>
  BY DEF selectserver_primary
<1> QED
  BY <1>4, <1>5, <1>6, CrashGroups

LEMMA DownGroups ==
    ASSUME Inv, GroupInv, NEW p \in Sessions, cl[p].at \in Picking, Down(p),
           req' = req
    PROVE  GroupInv'
<1> DEFINE c == cl[p]
           d == IF req[p].primary = NULL THEN c
                ELSE [c EXCEPT !.group = NoGroup, !.groupserver = NULL]
<1>1. /\ c \in ClientRec
      /\ ~ c.error => IF Grouping(req[p]) THEN Asks(c, req[p])
                      ELSE c.group = NoGroup
  BY PickGroups
<1>2. d \in ClientRec /\ Fit(d)
  <2>1. CASE req[p].primary = NULL
    <3>1. ~ c.error => c.group = NoGroup
      BY <1>1, <2>1 DEF Asks
    <3> QED
      BY <1>1, <2>1, <3>1 DEF Fit, Matches
  <2>2. CASE req[p].primary # NULL
    <3> DEFINE f == [c EXCEPT !.group = NoGroup, !.groupserver = NULL]
    <3>1. f \in ClientRec /\ f.group = NoGroup
      BY <1>1 DEF ClientRec
    <3> HIDE DEF f
    <3>2. Fit(f)
      BY <3>1 DEF Fit, Matches
    <3> QED
      BY <2>2, <3>1, <3>2 DEF f
  <2> QED
    BY <2>1, <2>2
<1>3. cl' = [cl EXCEPT ![p] = Return(p, FALSE, d)]
  BY DEF Down
<1> HIDE DEF d
<1>4. Lands(Return(p, FALSE, d), req[p])
  BY <1>2, ReturnsOff
<1> QED
  BY <1>3, <1>4, LandsStays

LEMMA PickingGroups ==
    ASSUME Inv, GroupInv, NEW p \in Sessions,
           \/ get_next_server(p) \/ RollLevel(p) \/ WrapLevel(p)
           \/ CheckRoom(p) \/ selectserver_backup(p)
    PROVE  GroupInv'
<1>1. cl[p].at \in Picking
  BY DEF get_next_server, RollLevel, WrapLevel, CheckRoom,
         selectserver_backup, At, Picking
<1>2. /\ req[p] \in ReqRec /\ Candidate(cl[p], req[p])
      /\ req[p].target \in Servers
      /\ ~ cl[p].error /\ Grouping(req[p]) => req[p].primary # NULL
  BY <1>1, PickGroups DEF Asks
<1>3. ASSUME NEW x \in Picking, cl' = [cl EXCEPT ![p].at = x], req' = req,
             x \in {"roll", "wrap", "room", "connect"} =>
                 Groups[req[p].cand] = Groups[req[p].target]
      PROVE  GroupInv'
  <2>1. req' = [req EXCEPT ![p] = req[p]]
    BY <1>3, SameReq
  <2> QED
    BY <1>1, <1>2, <1>3, <2>1, PicksOn
<1>4. CASE get_next_server(p)
  <2>1. CASE Down(p) /\ req' = req
    BY <1>1, <2>1, DownGroups
  <2>2. ASSUME NEW s \in Nth(TargetLevel(p), balance_pos[TargetLevel(p)]),
               req' = [req EXCEPT ![p].cand = s],
               cl' = [cl EXCEPT ![p].at = "roll"]
        PROVE  GroupInv'
    <3> DEFINE r == [req[p] EXCEPT !.cand = s]
    <3>1. s \in Servers /\ Level[s] = Level[req[p].target]
      BY DEF Nth, OfLevel, TargetLevel
    <3>2. Groups[s] = Groups[req[p].target]
      BY <1>2, <3>1, LevelPattern
    <3>3. /\ r.cmd = req[p].cmd /\ r.new = req[p].new
          /\ r.target = req[p].target /\ r.cand = s
          /\ r.primary = req[p].primary
      BY <1>2 DEF ReqRec
    <3>4. req' = [req EXCEPT ![p] = r]
      BY <2>2 DEF Inv, ClientTypes
    <3>5. cl' = [cl EXCEPT ![p].at = "roll"]
      BY <2>2
    <3> HIDE DEF r
    <3>6. Grouping(r) <=> Grouping(req[p])
      BY <3>3 DEF Grouping
    <3> QED
      BY <1>1, <1>2, <3>2, <3>3, <3>4, <3>5, <3>6, PicksOn DEF Picking
  <2> QED
    BY <1>4, <2>1, <2>2 DEF get_next_server
<1>5. CASE RollLevel(p)
  <2>1. /\ cl[p].at = "roll" /\ req' = req
        /\ cl' = [cl EXCEPT ![p].at = "wrap"]
    BY <1>5 DEF RollLevel, At
  <2> QED
    BY <1>2, <1>3, <2>1 DEF Candidate, Picking
<1>6. CASE WrapLevel(p)
  <2>1. /\ cl[p].at = "wrap" /\ req' = req
        /\ cl' = [cl EXCEPT ![p].at = "room"]
    BY <1>6 DEF WrapLevel, At
  <2> QED
    BY <1>2, <1>3, <2>1 DEF Candidate, Picking
<1>7. CASE CheckRoom(p)
  <2>1. cl[p].at = "room" /\ Groups[req[p].cand] = Groups[req[p].target]
    BY <1>2, <1>7 DEF CheckRoom, At, Candidate
  <2>2. CASE cl' = [cl EXCEPT ![p].at = "pick"] /\ req' = req
    BY <1>3, <2>2 DEF Picking
  <2>3. ASSUME NEW f, cl[p].error \/ ~ Grouping(req[p]) \/ f # NULL,
               req' = [req EXCEPT ![p].primary = f],
               cl' = [cl EXCEPT ![p].at = "connect"]
        PROVE  GroupInv'
    <3> DEFINE r == [req[p] EXCEPT !.primary = f]
    <3>1. /\ r.cmd = req[p].cmd /\ r.new = req[p].new
          /\ r.target = req[p].target /\ r.cand = req[p].cand
          /\ r.primary = f
      BY <1>2 DEF ReqRec
    <3>2. req' = [req EXCEPT ![p] = r]
      BY <2>3 DEF Inv, ClientTypes
    <3>3. cl' = [cl EXCEPT ![p].at = "connect"]
      BY <2>3
    <3> HIDE DEF r
    <3>4. ~ cl[p].error /\ Grouping(r) => r.primary # NULL
      BY <2>3, <3>1 DEF Grouping
    <3>5. Groups[r.cand] = Groups[r.target]
      BY <2>1, <3>1
    <3> QED
      BY <1>1, <3>1, <3>2, <3>3, <3>4, <3>5, PicksOn DEF Picking
  <2>4. CASE /\ cl' = [cl EXCEPT ![p].at = "connect"]
             /\ req' = [req EXCEPT ![p].primary =
                           IF @ = NULL THEN req[p].cand ELSE @]
    <3> DEFINE f == IF req[p].primary = NULL THEN req[p].cand
                                             ELSE req[p].primary
    <3>1. req' = [req EXCEPT ![p].primary = f]
      BY <1>2, <2>4 DEF Inv, ClientTypes
    <3>2. cl[p].error \/ ~ Grouping(req[p]) \/ f # NULL
      BY <1>2
    <3> HIDE DEF f
    <3> QED
      BY <2>3, <2>4, <3>1, <3>2
  <2> QED
    BY <1>7, <2>2, <2>4 DEF CheckRoom
<1>8. CASE selectserver_backup(p)
  <2>1. req' = req
    BY <1>8 DEF selectserver_backup
  <2>2. CASE Down(p)
    BY <1>1, <2>1, <2>2, DownGroups
  <2>3. CASE cl' = [cl EXCEPT ![p].at = "pick"]
    BY <1>3, <2>1, <2>3 DEF Picking
  <2> QED
    BY <1>8, <2>2, <2>3 DEF selectserver_backup
<1> QED
  BY <1>4, <1>5, <1>6, <1>7, <1>8

\* A session with no connection tries again.
LEMMA RetryOnGroup ==
    ASSUME NEW c \in ClientRec, NEW r,
           r.cmd # "stat", r.primary # NULL,
           ~ c.error => IF Grouping(r)
                        THEN r.new \in Newsgroups /\ r.target = ServerOf[r.new]
                        ELSE c.group = NoGroup
    PROVE  OnGroup(Goto(c, "retry"), r)
<1> DEFINE d == Goto(c, "retry")
<1>1. d.at = "retry" /\ d.error = c.error /\ d.group = c.group
  BY GotoFit DEF Points
<1> HIDE DEF d
<1>2. d.at \in Choosing
  BY <1>1 DEF Choosing, Picking
<1>3. OnGroup(d, r)
  BY <1>1, <1>2 DEF OnGroup, Candidate, Asks, Searches
<1> QED
  BY <1>3 DEF d

LEMMA ConnectGroups ==
    ASSUME Inv, GroupInv, NEW p \in Sessions, connect_server(p)
    PROVE  GroupInv'
<1> DEFINE s == req[p].cand
           c == [cl[p] EXCEPT !.groupserver = s]
           d == [c EXCEPT !.connected = TRUE, !.currserver = s,
                          !.sock = "open", !.open = @ + 1]
<1>1. cl[p].at = "connect" /\ req' = req
  BY DEF connect_server, At
<1>2. /\ s \in Servers /\ req[p].primary # NULL /\ c \in ClientRec
      /\ Idle(d) /\ d.connected
  <2>1. cl[p].at = "connect"
    BY <1>1
  <2>2. /\ req[p] \in ReqRec /\ req[p].target \in Servers
        /\ s \in Servers /\ req[p].primary # NULL
        /\ c \in ClientRec /\ Sound(c) /\ ~ c.connected
        /\ Idle(d) /\ d.connected
    BY <2>1, ConnectFacts
  <2> QED
    BY <2>2
<1> DEFINE r == req[p]
<1>3. /\ cl[p] \in ClientRec /\ r.cmd # "stat"
      /\ Groups[s] = Groups[r.target]
      /\ ~ cl[p].error => IF Grouping(r) THEN Asks(cl[p], r)
                          ELSE cl[p].group = NoGroup
  BY <1>1, PickGroups DEF Candidate, Picking
<1>4. /\ c.error = cl[p].error /\ c.group = cl[p].group
  BY <1>3 DEF ClientRec
<1>5. \/ cl' = [cl EXCEPT ![p] = Goto(c, "retry")]
      \/ cl' = [cl EXCEPT ![p] = Goto(d, "login")]
      \/ cl' = [cl EXCEPT ![p] = Return(p, TRUE, d)]
  BY DEF connect_server
<1> HIDE DEF c
<1>6. /\ d.error = c.error /\ d.group = c.group /\ d.groupserver = c.groupserver
      /\ d \in ClientRec
  BY <1>2 DEF ClientRec, Idle
<1>7. c.groupserver = s
  BY <1>3 DEF c, ClientRec
<1> HIDE DEF d, s, r
<1>8. req' = [req EXCEPT ![p] = r]
  BY <1>1, SameReq DEF r
<1>9. CASE cl' = [cl EXCEPT ![p] = Goto(c, "retry")]
  <2>1. OnGroup(Goto(c, "retry"), r)
    BY <1>2, <1>3, <1>4, RetryOnGroup DEF Asks, r
  <2> QED
    BY <1>8, <1>9, <2>1, OnGroupStep
<1>10. CASE cl' = [cl EXCEPT ![p] = Goto(d, "login")]
  <2> DEFINE f == Goto(d, "login")
  <2>1. /\ f.at = "login" /\ f.error = cl[p].error /\ f.group = cl[p].group
        /\ f.groupserver = s
    BY <1>4, <1>6, <1>7, GotoFit DEF Points
  <2> HIDE DEF f
  <2>2. Candidate(f, r)
    BY <1>3, <2>1 DEF Candidate, s, r
  <2>3. ~ f.error => IF Grouping(r) THEN Asks(f, r) ELSE Searches(f)
    BY <1>3, <2>1 DEF Asks, Searches, Picking
  <2>4. OnGroup(f, r)
    BY <1>3, <2>1, <2>2, <2>3 DEF OnGroup, Choosing
  <2> QED
    BY <1>8, <1>10, <2>4, OnGroupStep DEF f
<1>11. CASE cl' = [cl EXCEPT ![p] = Return(p, TRUE, d)]
  <2>1. ~ d.error => IF Grouping(r) THEN Asks(cl[p], r) ELSE Matches(d)
    BY <1>3, <1>4, <1>6 DEF Matches
  <2>2. Groups[d.groupserver] = Groups[r.target]
    BY <1>3, <1>6, <1>7
  <2>3. Lands(Return(p, TRUE, d), r)
    BY <1>2, <2>1, <2>2, ReturnsOn DEF r
  <2> QED
    BY <1>8, <1>11, <2>3, LandsStep
<1> QED
  BY <1>5, <1>9, <1>10, <1>11

LEMMA LoginGroups ==
    ASSUME Inv, GroupInv, NEW p \in Sessions, connect_auth_nntp(p)
    PROVE  GroupInv'
<1> DEFINE r == req[p]
           c == [cl[p] EXCEPT !.connected = FALSE, !.currserver = NULL,
                              !.sock = "closed", !.open = @ - 1]
           d == [c EXCEPT !.groupserver = IF c.error THEN @ ELSE NULL,
                          !.error = TRUE]
<1>1. cl[p].at = "login" /\ req' = req
  BY DEF connect_auth_nntp, At
<1>2. /\ r.primary # NULL /\ Idle(cl[p]) /\ cl[p].connected
      /\ cl[p] \in ClientRec
  BY <1>1, GoodIsIdle DEF Placed, Choosing, Picking, Idle
<1>3. cl[p].open - 1 \in Nat
  BY <1>2 DEF Idle, Sound, ClientRec
<1>4. OnGroup(cl[p], r) /\ cl[p].at \in Choosing /\ cl[p].at # "select"
  BY <1>1 DEF GroupInv, Choosing
<1>5. /\ r.cmd # "stat" /\ Groups[cl[p].groupserver] = Groups[r.target]
      /\ ~ cl[p].error => IF Grouping(r) THEN Asks(cl[p], r)
                          ELSE cl[p].group = NoGroup
  BY <1>1, <1>4 DEF OnGroup, Candidate, Searches
<1>6. c \in ClientRec /\ c.error = cl[p].error /\ c.group = cl[p].group
  BY <1>2, <1>3 DEF ClientRec, NULL
<1>7. \/ cl' = [cl EXCEPT ![p] = Return(p, TRUE, cl[p])]
      \/ cl' = [cl EXCEPT ![p] = Goto(c, "retry")]
      \/ cl' = [cl EXCEPT ![p] = Goto(d, "retry")]
  BY DEF connect_auth_nntp
<1> HIDE DEF c
<1>8. d \in ClientRec /\ d.error = TRUE
  BY <1>6 DEF ClientRec
<1> HIDE DEF d, r
<1>9. req' = [req EXCEPT ![p] = r]
  BY <1>1, SameReq DEF r
<1>10. ASSUME NEW f \in {c, d}, cl' = [cl EXCEPT ![p] = Goto(f, "retry")]
       PROVE  GroupInv'
  <2>1. f \in ClientRec
    BY <1>6, <1>8
  <2>2. ~ f.error => IF Grouping(r)
                     THEN r.new \in Newsgroups /\ r.target = ServerOf[r.new]
                     ELSE f.group = NoGroup
    BY <1>5, <1>6, <1>8 DEF Asks
  <2>3. OnGroup(Goto(f, "retry"), r)
    BY <1>2, <1>5, <2>1, <2>2, RetryOnGroup DEF r
  <2> QED
    BY <1>9, <1>10, <2>3, OnGroupStep
<1>11. CASE cl' = [cl EXCEPT ![p] = Return(p, TRUE, cl[p])]
  <2>1. ~ cl[p].error => IF Grouping(r) THEN Asks(cl[p], r)
                         ELSE Matches(cl[p])
    BY <1>5 DEF Matches
  <2>2. Lands(Return(p, TRUE, cl[p]), r)
    BY <1>2, <1>5, <2>1, ReturnsOn DEF r
  <2> QED
    BY <1>9, <1>11, <2>2, LandsStep
<1> QED
  BY <1>7, <1>10, <1>11

LEMMA AdvanceGroups ==
    ASSUME Direct, Inv, GroupInv, NEW p \in Sessions, Advance(p)
    PROVE  GroupInv'
<1>1. CASE Store(p)
  <2>1. cl' = cl /\ req' = req
    BY <1>1 DEF Store
  <2> QED
    BY <2>1
    DEF GroupInv, OnGroup, Candidate, Asks, Searches, Matches, Grouping
<1> QED
  BY <1>1, SelectGroups, PrimaryGroups, PickingGroups, ConnectGroups,
     LoginGroups, AnswerGroups, SearchGroups DEF Advance

LEMMA InitGroups == Init => GroupInv
<1> SUFFICES ASSUME Init, NEW p \in Sessions PROVE OnGroup(cl[p], req[p])
  BY DEF GroupInv
<1>1. cl[p] = Fresh /\ req[p] = NoReq
  BY DEF Init
<1> QED
  BY <1>1, FreshLands, LandsOnGroup

\* A session that is connected and has a group is on a server that carries
\* it, however connections, clients and servers.conf fail under it (reader.c,
\* socket.c, server.c).
THEOREM GroupCarried ==
    ASSUME Direct, "stat" \notin Commands
    PROVE  Spec => []GroupOnServer
<1>1. Inv /\ GroupInv /\ [Next]_vars => GroupInv'
  <2> SUFFICES ASSUME Inv, GroupInv, [Next]_vars PROVE GroupInv'
    OBVIOUS
  <2>1. CASE UNCHANGED <<cl, req>>
    BY <2>1
    DEF GroupInv, OnGroup, Candidate, Asks, Searches, Matches, Grouping
  <2>2. CASE clear_servers \/ load_servers \/ UNCHANGED vars
    BY <2>1, <2>2 DEF clear_servers, load_servers, vars
  <2>3. ASSUME NEW p \in Sessions, Advance(p) PROVE GroupInv'
    BY <2>3, AdvanceGroups
  <2>4. ASSUME NEW p \in Sessions, Command(p) PROVE GroupInv'
    BY <2>4, GroupGroups, FindGroups, NumberGroups, PostGroups, OtherGroups
    DEF Command
  <2>5. ASSUME NEW p \in Sessions,
               WriteFails(p) \/ Leave(p) \/ Signal(p) \/ Connect(p)
        PROVE  GroupInv'
    BY <2>5, OtherGroups
  <2> QED
    BY <2>2, <2>3, <2>4, <2>5 DEF Next, Session
<1>2. Spec => []GroupInv
  BY <1>1, InitInv, NextInv, InitGroups, PTL DEF Spec
<1>3. GroupInv => GroupOnServer
  <2> SUFFICES ASSUME GroupInv, NEW p \in Sessions, cl[p].at = "loop",
                      ~ cl[p].error, cl[p].group # NoGroup
               PROVE  Groups[cl[p].groupserver] =
                          Groups[ServerOf[cl[p].group]]
    BY DEF GroupOnServer
  <2>1. OnGroup(cl[p], req[p]) /\ cl[p].at \notin Choosing
    BY DEF GroupInv, Choosing, Picking
  <2> QED
    BY <2>1 DEF OnGroup, Matches
<1> QED
  BY <1>2, <1>3, PTL
=============================================================================
