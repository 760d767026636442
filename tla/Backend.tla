------------------------------ MODULE Backend -------------------------------
(***************************************************************************)
(* The children and the back-end news servers.                             *)
(*                                                                         *)
(* Every child keeps one connection to a back-end server (socket.c), picks *)
(* the server by group, policy and load (server.c), and sends it commands  *)
(* on behalf of its client (reader.c, nntpd.c); POST takes a second        *)
(* connection (post.c).  The children share SERVER.connections and         *)
(* balance_pos, with no lock at all, and the listener may reload           *)
(* servers.conf at any time.                                               *)
(*                                                                         *)
(* What the servers answer is data: a dialogue succeeds, is refused, or    *)
(* the connection is lost.  An operator commented "Mutant" is a bug the    *)
(* code could have had and belongs to no specification.                    *)
(***************************************************************************)
EXTENDS Integers, FiniteSets

CONSTANTS
    Sessions,           \* the children
    NumServers,         \* servers.conf, the default server left out
    Groups,             \* per server: its newsgroup pattern
    Policy,             \* per server: "single", "backup" or "balance"
    MaxConnections,     \* per server; 0 is no limit
    HasAuth,            \* the servers with a Username and a Password
    Answers,            \* per server: what a connection to it may meet
    Newsgroups,
    ServerOf,           \* active file: the server a newsgroup was listed by
    NoGroup,
    Commands,           \* the commands clients send
    Faults,             \* see FaultAssumption
    SignalPoints,       \* where a child may catch a fatal signal
    UIntMax,            \* largest value of SERVER.connections, a uint
    OpenBound,          \* bound of the model on connections left open
    RaceBound           \* bound of the model: positions past it do not race

Servers == 1 .. NumServers
NULL == 0

\* parsecfg_server numbers the levels: a new one where the pattern changes.
Level == [s \in Servers |->
            Cardinality({t \in 1 .. s : t = 1 \/ Groups[t] # Groups[t - 1]})]
Levels == {Level[s] : s \in Servers}
OfLevel(l) == {s \in Servers : Level[s] = l}

ASSUME ServerAssumption ==
    /\ NumServers \in Nat \ {0} /\ UIntMax \in Nat \ {0} /\ OpenBound \in Nat
    /\ RaceBound \in Nat
    /\ Policy \in [Servers -> {"single", "backup", "balance"}]
    /\ MaxConnections \in [Servers -> Nat]
    /\ HasAuth \subseteq Servers
    /\ \A s \in Servers : Answers[s] \subseteq {"up", "down", "reject", "mute"}
    /\ ServerOf \in [Newsgroups -> Servers]
    /\ NoGroup \notin Newsgroups

\* check_server_redundancy dies otherwise.
ASSUME RedundancyAssumption ==
    \A s \in Servers :
        /\ Policy[s] # "single" => Cardinality(OfLevel(Level[s])) > 1
        /\ \A t \in OfLevel(Level[s]) : Policy[s] = Policy[t]

\* "lost": an open connection fails.  "client": the client is gone when it is
\* written to.  "term", "int": the child gets the signal.  "reload":
\* servers.conf is loaded again.  "race", "roll": two updates of a SERVER's
\* connections, of a balance_pos, overlap.
ASSUME FaultAssumption ==
    Faults \subseteq {"lost", "client", "term", "int", "reload", "race", "roll"}

VARIABLES
    connections,    \* SERVER.connections
    balance_pos,    \* master->balance_pos
    loaded,         \* master->numservers # 0
    cl,             \* the CLIENT of each session
    req,            \* the locals of the functions it runs
    pend            \* the store a session has still to make

shared == <<connections, balance_pos, loaded>>
vars == <<connections, balance_pos, loaded, cl, req, pend>>

-----------------------------------------------------------------------------
(* The CLIENT record.  "sock" is what serversock refers to, "open" how     *)
(* many connections to group servers the process holds.                    *)

Fresh == [at |-> "gone", connected |-> FALSE, groupserver |-> NULL,
          currserver |-> NULL, group |-> NoGroup, error |-> FALSE,
          sock |-> "none", open |-> 0, postsock |-> FALSE]

NoReq == [cmd |-> "none", new |-> NoGroup, target |-> NULL, cand |-> NULL,
          primary |-> NULL, next |-> 1, oldlev |-> 0, olds |-> NULL]
NoStore == [what |-> "none", of |-> 0, val |-> 0]

Goto(c, point) == [c EXCEPT !.at = point]

\* Mutant (ConnectedServer): the group server is kept.
set_errormsgKeeps(c) ==
    IF c.error THEN c ELSE [c EXCEPT !.error = TRUE, !.connected = FALSE]

\* The first error drops the connection; the socket stays open.
set_errormsg(c) ==
    IF c.error THEN c
    ELSE [c EXCEPT !.error = TRUE, !.connected = FALSE,
                   !.groupserver = IF c.connected THEN NULL ELSE @]

\* Mutant (ConnectedServer): the socket is not closed.
disconnect_serverOpen(c, e) ==
    IF ~c.connected THEN c
    ELSE [c EXCEPT !.connected = FALSE, !.groupserver = NULL,
                   !.group = NoGroup, !.sock = "closed", !.error = @ \/ e]

\* Mutant (GroupOnServer): the group survives its server.
disconnect_serverGroup(c, e) ==
    IF ~c.connected THEN c
    ELSE [c EXCEPT !.connected = FALSE, !.groupserver = NULL,
                   !.sock = "closed", !.open = @ - 1, !.error = @ \/ e]

\* disconnect_server sends QUIT, which may fail (e).
disconnect_server(c, e) ==
    IF ~c.connected THEN c
    ELSE [c EXCEPT !.connected = FALSE, !.groupserver = NULL,
                   !.group = NoGroup, !.sock = "closed", !.open = @ - 1,
                   !.error = @ \/ e]

quiet_disconnect_server(c) ==
    [c EXCEPT !.connected = FALSE, !.groupserver = NULL, !.sock = "closed",
              !.open = IF c.sock = "open" THEN @ - 1 ELSE @]

QuitFails == IF "lost" \in Faults THEN BOOLEAN ELSE {FALSE}

\* Mutant (TypeOK): the counter is signed.
CountSigned(p, S, d) ==
    /\ connections' = [s \in Servers |->
                         IF s \in S THEN connections[s] + d ELSE connections[s]]
    /\ UNCHANGED pend

\* server->connections += d for the servers of S (one at most): one store,
\* or under "race" a load now and a store later.
Count(p, S, d) ==
    LET val(s) == (connections[s] + d) % (UIntMax + 1)
    IN \/ /\ S = {} \/ "race" \notin Faults
          /\ connections' = [s \in Servers |->
                               IF s \in S THEN val(s) ELSE connections[s]]
          /\ UNCHANGED pend
       \/ /\ "race" \in Faults
          /\ \E s \in S :
                pend' = [pend EXCEPT ![p] =
                           [what |-> "connections", of |-> s, val |-> val(s)]]
          /\ UNCHANGED connections

\* The client becomes d.  All of set_errormsg, disconnect_server and
\* quiet_disconnect_server decrement the group server's counter as they clear
\* the field.
Become(p, d) ==
    /\ cl' = [cl EXCEPT ![p] = d]
    /\ Count(p, IF d.groupserver = NULL THEN {cl[p].groupserver} \ {NULL}
                ELSE {}, -1)
    /\ UNCHANGED <<balance_pos, loaded>>

At(p, point) == cl[p].at = point /\ pend[p] = NoStore

-----------------------------------------------------------------------------
(* Server selection: connect_groupserver and what it calls.                *)

\* segv_handler ends the process without client_quit.
Crash(p) ==
    /\ cl' = [cl EXCEPT ![p] = Fresh]
    /\ req' = [req EXCEPT ![p] = NoReq]
    /\ UNCHANGED <<shared, pend>>

\* connect_groupserver returns to its caller: group() goes on with GROUP, or
\* returns 0 whatever happened, which LISTGROUP takes for success;
\* find_article_server asks for the article or tries the next server.
Return(p, ok, c) ==
    LET grouping == req[p].cmd \in {"group", "listgroup"}
        d == IF ok /\ grouping THEN [c EXCEPT !.group = req[p].new] ELSE c
    IN Goto(d, IF ~grouping THEN (IF ok THEN "head" ELSE "next")
               ELSE IF ok THEN "ask"
               ELSE IF req[p].cmd = "group" THEN "loop" ELSE "pass")

Full(s) == MaxConnections[s] # 0 /\ connections[s] >= MaxConnections[s]

\* connect_groupserver, until there is no connection left.
connect_groupserver(p) ==
    LET c == cl[p]
        t == req[p].target
        kept == c.connected /\ Groups[c.groupserver] = Groups[t]
    IN /\ At(p, "select")
       /\ \/ ~loaded /\ Crash(p)
          \/ /\ loaded /\ kept
             /\ Become(p, Return(p, TRUE, c))
             /\ UNCHANGED req
          \/ /\ loaded /\ ~kept
             /\ \E e \in QuitFails :
                   Become(p, Goto(disconnect_server(c, e), "primary"))
             /\ UNCHANGED req

selectserver_primary(p) ==
    LET t == req[p].target
        balanced == \/ Policy[t] = "balance"
                    \/ Policy[t] = "backup" /\ Full(t)
    IN /\ At(p, "primary")
       /\ \/ ~loaded /\ Crash(p)
          \/ /\ loaded /\ balanced
             /\ cl' = [cl EXCEPT ![p].at = "pick"]
             /\ UNCHANGED <<shared, req, pend>>
          \/ /\ loaded /\ ~balanced
             /\ cl' = [cl EXCEPT ![p].at = "connect"]
             /\ req' = [req EXCEPT ![p].cand = t, ![p].primary = t]
             /\ UNCHANGED <<shared, pend>>

\* The n-th server of a level, in the order of lservers.
Nth(l, n) ==
    {s \in OfLevel(l) : loaded /\ Cardinality({t \in OfLevel(l) : t < s}) = n}

\* get_next_server is asked for a server of the level of the target.
TargetLevel(p) == Level[req[p].target]

\* No server at all: CONNECT_ERR for the first choice, CONNECT_DOWN after it.
Down(p) ==
    cl' = [cl EXCEPT ![p] = Return(p, FALSE,
              IF req[p].primary = NULL THEN @
              ELSE [@ EXCEPT !.group = NoGroup, !.groupserver = NULL])]

\* get_next_server reads the position ...
get_next_server(p) ==
    LET l == TargetLevel(p)
    IN /\ At(p, "pick")
       /\ \/ \E s \in Nth(l, balance_pos[l]) :
                /\ req' = [req EXCEPT ![p].cand = s]
                /\ cl' = [cl EXCEPT ![p].at = "roll"]
          \/ /\ Nth(l, balance_pos[l]) = {}
             /\ Down(p)
             /\ UNCHANGED req
       /\ UNCHANGED <<shared, pend>>

\* ... add_level_usage increments it ...
RollLevel(p) ==
    LET l == TargetLevel(p)
        race == "roll" \in Faults /\ balance_pos[l] <= RaceBound
    IN /\ At(p, "roll")
       /\ cl' = [cl EXCEPT ![p].at = "wrap"]
       /\ \/ /\ ~race
             /\ balance_pos' = [balance_pos EXCEPT ![l] = @ + 1]
             /\ UNCHANGED pend
          \/ /\ race
             /\ pend' = [pend EXCEPT ![p] = [what |-> "balance_pos", of |-> l,
                                             val |-> balance_pos[l] + 1]]
             /\ UNCHANGED balance_pos
       /\ UNCHANGED <<connections, loaded, req>>

\* Mutant (PositionInRange): one position too many.
WrapLevelLate(p) ==
    LET l == TargetLevel(p)
        max == IF loaded THEN Cardinality(OfLevel(l)) ELSE 0
    IN /\ At(p, "wrap")
       /\ cl' = [cl EXCEPT ![p].at = "room"]
       /\ balance_pos' = [balance_pos EXCEPT ![l] = IF @ > max THEN 0 ELSE @]
       /\ UNCHANGED <<connections, loaded, req, pend>>

\* ... and resets it at the end of the level.
WrapLevel(p) ==
    LET l == TargetLevel(p)
        max == IF loaded THEN Cardinality(OfLevel(l)) ELSE 0
    IN /\ At(p, "wrap")
       /\ cl' = [cl EXCEPT ![p].at = "room"]
       /\ balance_pos' = [balance_pos EXCEPT ![l] = IF @ >= max THEN 0 ELSE @]
       /\ UNCHANGED <<connections, loaded, req, pend>>

\* A full server makes get_next_server call itself.
CheckRoom(p) ==
    /\ At(p, "room")
    /\ \/ /\ Full(req[p].cand)
          /\ cl' = [cl EXCEPT ![p].at = "pick"]
          /\ UNCHANGED req
       \/ /\ ~Full(req[p].cand)
          /\ cl' = [cl EXCEPT ![p].at = "connect"]
          /\ req' = [req EXCEPT ![p].primary = IF @ = NULL THEN req[p].cand
                                               ELSE @]
    /\ UNCHANGED <<shared, pend>>

\* connect_server: the TCP connection and the greeting.
connect_server(p) ==
    LET s == req[p].cand
        c == [cl[p] EXCEPT !.groupserver = s]
        d == [c EXCEPT !.connected = TRUE, !.currserver = s, !.sock = "open",
                       !.open = @ + 1]
    IN /\ At(p, "connect")
       /\ \/ /\ "down" \in Answers[s]
             /\ cl' = [cl EXCEPT ![p] = Goto(c, "retry")]
             /\ UNCHANGED <<connections, pend>>
          \/ /\ Answers[s] # {"down"} /\ s \in HasAuth
             /\ cl' = [cl EXCEPT ![p] = Goto(d, "login")]
             /\ UNCHANGED <<connections, pend>>
          \/ /\ Answers[s] # {"down"} /\ s \notin HasAuth
             /\ cl' = [cl EXCEPT ![p] = Return(p, TRUE, d)]
             /\ Count(p, {s}, 1)
       /\ UNCHANGED <<balance_pos, loaded, req>>

\* connect_server: connect_auth_nntp.  The server refuses the password, or
\* does not answer.  The counter is decremented before it is incremented.
connect_auth_nntp(p) ==
    LET s == req[p].cand
        closed == [cl[p] EXCEPT !.connected = FALSE, !.currserver = NULL,
                                !.sock = "closed", !.open = @ - 1]
    IN /\ At(p, "login")
       /\ \/ /\ "up" \in Answers[s]
             /\ cl' = [cl EXCEPT ![p] = Return(p, TRUE, @)]
             /\ Count(p, {s}, 1)
          \/ /\ "reject" \in Answers[s]
             /\ cl' = [cl EXCEPT ![p] = Goto(closed, "retry")]
             /\ Count(p, {s}, -1)
          \/ /\ "mute" \in Answers[s]
             /\ cl' = [cl EXCEPT ![p] =
                   Goto([closed EXCEPT
                           !.groupserver = IF closed.error THEN @ ELSE NULL,
                           !.error = TRUE], "retry")]
             /\ Count(p, {s}, -1)
       /\ UNCHANGED <<balance_pos, loaded, req>>

\* Mutant (SelectionEnds): the same server again.
selectserver_backupSame(p) ==
    /\ At(p, "retry")
    /\ cl' = [cl EXCEPT ![p].at = "connect"]
    /\ UNCHANGED <<shared, req, pend>>

\* selectserver_backup: the next server of the level, unless the policy is
\* single.
selectserver_backup(p) ==
    LET s == cl[p].groupserver
        backup == s # NULL /\ Policy[s] # "single"
    IN /\ At(p, "retry")
       /\ \/ ~backup /\ Down(p)
          \/ /\ backup
             /\ cl' = [cl EXCEPT ![p].at = "pick"]
       /\ UNCHANGED <<shared, req, pend>>

-----------------------------------------------------------------------------
(* Commands.                                                               *)

\* A step of the session that touches no shared counter.
Local(p, d, r) ==
    /\ cl' = [cl EXCEPT ![p] = d]
    /\ req' = [req EXCEPT ![p] = r]
    /\ UNCHANGED <<shared, pend>>

\* The command loop of run_child reads a command.  Every command but POST
\* closes the connection to the post server.
Reads(p, cmd) ==
    /\ At(p, "loop")
    /\ ~cl[p].error
    /\ cmd \in Commands
    /\ cl[p].open <= OpenBound

Read(p) == [cl[p] EXCEPT !.postsock = FALSE]

Request(cmd, g, s) == [NoReq EXCEPT !.cmd = cmd, !.new = g, !.target = s]

\* GROUP, and LISTGROUP or NEWNEWS with a newsgroup.
group(p, cmd, g) ==
    LET c == Read(p)
        s == ServerOf[g]
    IN /\ Reads(p, cmd)
       /\ \/ c.group = g /\ Local(p, Goto(c, "ask"), Request(cmd, g, s))
          \/ /\ c.group # g /\ ~loaded
             /\ Local(p, Goto(c, IF cmd = "group" THEN "loop" ELSE "pass"),
                      Request(cmd, g, s))
          \/ /\ c.group # g /\ loaded
             /\ \E e \in QuitFails :
                LET d == IF c.connected /\ Groups[c.groupserver] # Groups[s]
                         THEN disconnect_server(c, e) ELSE c
                IN Become(p, [Goto(d, "select") EXCEPT !.group = g])
             /\ req' = [req EXCEPT ![p] = Request(cmd, g, s)]

\* A message names the server it concerns: currserver is dereferenced.
Fails(p, d) ==
    \/ cl[p].currserver = NULL /\ Crash(p)
    \/ cl[p].currserver # NULL /\ Become(p, d) /\ UNCHANGED req

\* The server may be gone whenever it is written to or read from; a socket
\* that is not open fails for certain.
MayFail(p) == cl[p].sock # "open" \/ "lost" \in Faults

\* group(): the GROUP command itself.
SendGroup(p) ==
    LET cmd == req[p].cmd
    IN /\ At(p, "ask")
       /\ \/ /\ cl[p].sock = "open"
             /\ Become(p, Goto(cl[p], IF cmd = "group" THEN "loop" ELSE "pass"))
             /\ UNCHANGED req
          \/ /\ MayFail(p)
             /\ Fails(p, Goto(set_errormsg(cl[p]),
                              IF cmd = "xover" THEN "pass" ELSE "loop"))

\* A command about the current group: LISTGROUP, XHDR and XPAT, or ARTICLE and
\* BODY by number.
PassNumber(p) ==
    /\ Reads(p, "article")
    /\ cl[p].group # NoGroup
    /\ Local(p, Goto(Read(p), "pass"), Request("article", NoGroup, NULL))

\* OVER and XOVER call group() first if the group server is gone.
XOver(p) ==
    /\ Reads(p, "xover")
    /\ cl[p].group # NoGroup
    /\ Local(p, Goto(Read(p), IF cl[p].groupserver = NULL THEN "ask" ELSE "pass"),
             Request("xover", cl[p].group, NULL))

\* passcmd: the answer is passed to the client, the server closes the
\* connection, or a read or write fails; a failure of slwriteclient leaves the
\* server connected.
passcmd(p) ==
    LET c == cl[p]
        quit(d) == \E e \in QuitFails : Become(p, Goto(disconnect_server(d, e), "loop"))
    IN /\ At(p, "pass")
       /\ \/ /\ c.sock = "open"
             /\ Become(p, Goto(c, "loop")) /\ UNCHANGED req
          \/ /\ c.sock = "open" /\ "lost" \in Faults
             /\ quit(c) /\ UNCHANGED req
          \/ /\ c.sock = "open" /\ "client" \in Faults
             /\ quit(set_errormsg(c)) \/ Become(p, Goto(set_errormsg(c), "loop"))
             /\ UNCHANGED req
          \/ /\ MayFail(p) /\ c.currserver = NULL
             /\ Crash(p)
          \/ /\ MayFail(p) /\ c.currserver # NULL
             /\ quit(set_errormsg(c)) /\ UNCHANGED req

\* ARTICLE, BODY, HEAD or STAT by message-id: find_article_server asks the
\* current server first.
find_article_server(p, cmd) ==
    LET c == Read(p)
        s == c.groupserver
        r == Request(cmd, NoGroup, NULL)
    IN /\ Reads(p, cmd)
       /\ \/ s = NULL /\ Local(p, Goto(c, "next"), r)
          \/ s # NULL /\ Local(p, Goto(c, "head"),
                               [r EXCEPT !.oldlev = Level[s], !.olds = s])

\* check_headperm: HEAD, then the permissions.
check_headperm(p) ==
    LET c == cl[p]
        found == IF req[p].cmd = "stat" THEN "stat" ELSE "pass"
    IN /\ At(p, "head")
       /\ \/ /\ c.sock = "open"
             /\ \E point \in {found, "loop", "next"} : Become(p, Goto(c, point))
             /\ UNCHANGED req
          \/ /\ MayFail(p)
             /\ Fails(p, Goto(set_errormsg(c), "next"))

\* find_article_server: the next server, one of each level.
NextServer(p) ==
    LET r == req[p]
        more == {s \in r.next .. NumServers :
                    loaded /\ Level[s] # r.oldlev /\ s # r.olds}
    IN /\ At(p, "next")
       /\ \/ more = {} /\ Local(p, Goto(cl[p], "loop"), r)
          \/ \E s \in more :
                /\ \A t \in more : s <= t
                /\ Local(p, Goto(cl[p], "select"),
                         [r EXCEPT !.target = s, !.primary = NULL,
                                   !.oldlev = Level[s], !.next = s + 1])

\* STAT by number, NEXT and LAST.
StatNumber(p) ==
    /\ Reads(p, "stat")
    /\ cl[p].group # NoGroup
    /\ Local(p, Goto(Read(p), "stat"), Request("stat", NoGroup, NULL))

\* ... ask the server, which answers, closes the connection, fails, or keeps
\* silent: client_error ends the process after close_child.
Stat(p) ==
    LET c == cl[p]
        quiet(d) == Become(p, Goto(quiet_disconnect_server(d), "loop"))
    IN /\ At(p, "stat")
       /\ \/ /\ c.sock = "open"
             /\ Become(p, Goto(c, "loop")) /\ UNCHANGED req
          \/ /\ c.sock = "open" /\ "lost" \in Faults
             /\ quiet(c) /\ UNCHANGED req
          \/ /\ MayFail(p) /\ c.currserver = NULL
             /\ Crash(p)
          \/ /\ MayFail(p) /\ c.currserver # NULL
             /\ quiet(set_errormsg(c)) /\ UNCHANGED req
          \/ /\ c.sock = "open" /\ "lost" \in Faults
             /\ LET d == set_errormsg(c)
                IN Count(p, {c.groupserver} \ {d.groupserver}, -1)
             /\ cl' = [cl EXCEPT ![p] = Fresh]
             /\ req' = [req EXCEPT ![p] = NoReq]
             /\ UNCHANGED <<balance_pos, loaded>>

\* MODE READER is passed on; a failure ends the session.
ModeReader(p) ==
    /\ Reads(p, "mode")
    /\ cl[p].connected
    /\ \/ Become(p, Read(p))
       \/ "lost" \in Faults /\ Become(p, Goto(set_errormsg(Read(p)), "end"))
    /\ UNCHANGED req

\* The article goes out on the connection to the post server.  A refusal goes
\* through disconnect_server with serversock set to that connection: it is
\* the one that is closed, and the group server is forgotten.
send_ihave(p) ==
    LET c == cl[p]
        refused(e) ==
            IF c.connected
            THEN [c EXCEPT !.connected = FALSE, !.groupserver = NULL,
                           !.group = NoGroup, !.error = e]
            ELSE c
    IN \/ /\ Become(p, [c EXCEPT !.postsock = TRUE])
          /\ UNCHANGED req
       \/ /\ \E e \in QuitFails :
                Become(p, [refused(e) EXCEPT !.sock = "none", !.postsock = FALSE])
          /\ UNCHANGED req
       \/ /\ "lost" \in Faults
          /\ Fails(p, [Goto(set_errormsg(c), "end") EXCEPT
                          !.sock = "post", !.postsock = TRUE])

\* The article is refused or mailed to a moderator, or it never ends or cannot
\* be spooled, which ends the session.
Unposted(c) == {c, Goto(c, "end")}

\* POST: only an article that is complete and allowed reaches a server.
post(p) ==
    /\ Reads(p, "post")
    /\ \/ send_ihave(p)
       \/ /\ \E c \in Unposted(cl[p]) : Become(p, c)
          /\ UNCHANGED req

\* IHAVE gives up the group server; the test of connect_server_nntp takes
\* every result for a failure.
ihave(p) ==
    /\ Reads(p, "ihave")
    /\ \E e \in QuitFails : Become(p, disconnect_server(Read(p), e))
    /\ UNCHANGED req

\* An answer the client does not read.
WriteFails(p) ==
    /\ "client" \in Faults
    /\ At(p, "loop")
    /\ Become(p, set_errormsg(cl[p]))
    /\ UNCHANGED req

\* Mutant (ServerConnections): nobody disconnects an erring session.
client_quitError(p) ==
    LET c == cl[p]
    IN /\ Count(p, IF c.connected /\ ~c.error THEN {c.groupserver} ELSE {}, -1)
       /\ cl' = [cl EXCEPT ![p] = Fresh]
       /\ req' = [req EXCEPT ![p] = NoReq]
       /\ UNCHANGED <<balance_pos, loaded>>

\* client_quit and the end of the process.
client_quit(p) ==
    LET c == cl[p]
    IN /\ Count(p, IF c.connected THEN {c.groupserver} ELSE {}, -1)
       /\ cl' = [cl EXCEPT ![p] = Fresh]
       /\ req' = [req EXCEPT ![p] = NoReq]
       /\ UNCHANGED <<balance_pos, loaded>>

\* QUIT, end of file, timeout, an error, a command that says stop.
Leave(p) ==
    /\ At(p, "loop") \/ At(p, "end")
    /\ client_quit(p)

\* SIGTERM calls client_quit, SIGINT does not.
Signal(p) ==
    /\ cl[p].at \in SignalPoints /\ pend[p] = NoStore
    /\ \/ "term" \in Faults /\ client_quit(p)
       \/ "int" \in Faults /\ Crash(p)

\* A new client, in a new process.
Connect(p) ==
    /\ At(p, "gone")
    /\ Local(p, Goto(Fresh, "loop"), NoReq)

Store(p) ==
    /\ pend[p] # NoStore
    /\ pend' = [pend EXCEPT ![p] = NoStore]
    /\ \/ /\ pend[p].what = "connections"
          /\ connections' = [connections EXCEPT ![pend[p].of] = pend[p].val]
          /\ UNCHANGED balance_pos
       \/ /\ pend[p].what = "balance_pos"
          /\ balance_pos' = [balance_pos EXCEPT ![pend[p].of] = pend[p].val]
          /\ UNCHANGED connections
    /\ UNCHANGED <<loaded, cl, req>>

-----------------------------------------------------------------------------
(* servers.conf.                                                           *)

\* check_server_redundancy tries the balancer of every level that has one: it
\* rolls twice.
StartPosition ==
    [l \in Levels |->
        IF \E s \in OfLevel(l) : Policy[s] # "single"
        THEN 2 % Cardinality(OfLevel(l)) ELSE 0]

\* reload_servers: first there are no servers ...
clear_servers ==
    /\ "reload" \in Faults
    /\ loaded
    /\ loaded' = FALSE
    /\ UNCHANGED <<connections, balance_pos, cl, req, pend>>

\* ... then every entry is a copy of the default one, which nobody connects to.
load_servers ==
    /\ ~loaded
    /\ loaded' = TRUE
    /\ connections' = [s \in Servers |-> 0]
    /\ balance_pos' = StartPosition
    /\ UNCHANGED <<cl, req, pend>>

Init ==
    /\ connections = [s \in Servers |-> 0]
    /\ balance_pos = StartPosition
    /\ loaded = TRUE
    /\ cl = [p \in Sessions |-> Fresh]
    /\ req = [p \in Sessions |-> NoReq]
    /\ pend = [p \in Sessions |-> NoStore]

\* The steps of a function that has been called.
Advance(p) ==
    \/ connect_groupserver(p) \/ selectserver_primary(p)
    \/ get_next_server(p) \/ RollLevel(p) \/ WrapLevel(p) \/ CheckRoom(p)
    \/ connect_server(p) \/ connect_auth_nntp(p) \/ selectserver_backup(p)
    \/ SendGroup(p) \/ passcmd(p) \/ check_headperm(p) \/ NextServer(p)
    \/ Stat(p) \/ Store(p)

Command(p) ==
    \/ \E cmd \in {"group", "listgroup"}, g \in Newsgroups : group(p, cmd, g)
    \/ \E cmd \in {"article", "stat"} : find_article_server(p, cmd)
    \/ PassNumber(p) \/ XOver(p) \/ StatNumber(p) \/ ModeReader(p)
    \/ post(p) \/ ihave(p)

Session(p) == Advance(p) \/ Command(p) \/ WriteFails(p) \/ Leave(p)
                  \/ Signal(p) \/ Connect(p)

Next == clear_servers \/ load_servers \/ \E p \in Sessions : Session(p)

Spec == Init /\ [][Next]_vars

\* A function that has been called runs on; the timeouts of select, of
\* connect's alarm and of the reads bound its waits.
Fairness == \A p \in Sessions : WF_vars(Advance(p))

FairSpec == Spec /\ Fairness
-----------------------------------------------------------------------------
(* Properties.                                                             *)

Points == {"gone", "loop", "select", "primary", "pick", "roll", "wrap", "room",
           "connect", "login", "retry", "ask", "pass", "head", "next", "stat",
           "end"}

\* The variables keep their types: SERVER and CLIENT of nntpd.h.
TypeOK ==
    /\ connections \in [Servers -> 0 .. UIntMax]
    /\ balance_pos \in [Levels -> Nat]
    /\ loaded \in BOOLEAN
    /\ cl \in [Sessions ->
          [at : Points, connected : BOOLEAN, groupserver : Servers \cup {NULL},
           currserver : Servers \cup {NULL}, group : Newsgroups \cup {NoGroup},
           error : BOOLEAN, sock : {"none", "open", "closed", "post"},
           open : Nat, postsock : BOOLEAN]]
    /\ \A p \in Sessions :
          /\ req[p].target \in Servers \cup {NULL}
          /\ req[p].cand \in Servers \cup {NULL}
          /\ req[p].new \in Newsgroups \cup {NoGroup}
          /\ req[p].next \in 1 .. NumServers + 1

\* SERVER.connections is the number of sessions connected to the server,
\* whichever way their commands failed.
On(s) == {p \in Sessions : cl[p].connected /\ cl[p].groupserver = s}
ServerConnections ==
    \A s \in Servers : connections[s] = Cardinality(On(s))

\* A connected session has a server, logs under its name, and writes to a
\* socket that is open; an idle session that is not connected has none.  Whoever
\* forgets a connection has closed it: without an error there is one at most.
ConnectedServer ==
    \A p \in Sessions :
        /\ cl[p].connected =>
              /\ cl[p].groupserver # NULL
              /\ cl[p].currserver = cl[p].groupserver
              /\ cl[p].sock = "open" /\ cl[p].open > 0
        /\ cl[p].at = "loop" /\ ~cl[p].connected => cl[p].groupserver = NULL
        /\ ~cl[p].error => cl[p].open <= 1

\* A session connected to a server that does not carry its current group would
\* ask the wrong server for its articles: whoever changes the server resets
\* the group first (reader.c: "reset by connect_groupserver").
GroupOnServer ==
    \A p \in Sessions :
        LET c == cl[p]
            settled == c.at = "loop" /\ ~c.error /\ c.connected
        IN settled /\ c.group # NoGroup =>
              Groups[c.groupserver] = Groups[ServerOf[c.group]]

\* Past the last server of a level balance_pos is never left behind: whoever
\* pushed it there is about to reset it.
PositionInRange ==
    \A l \in Levels :
        balance_pos[l] >= Cardinality(OfLevel(l)) =>
            \E p \in Sessions : cl[p].at = "wrap" /\ TargetLevel(p) = l

\* The balancer always has a server to offer (server.c: "Hmm, could not find
\* the other balancing server").
BalancerOffers ==
    \A p \in Sessions :
        cl[p].at = "pick" => balance_pos[TargetLevel(p)]
                                 < Cardinality(OfLevel(TargetLevel(p)))

\* connect_groupserver comes to an end, unless servers.conf is reloaded again
\* and again under it.
SelectionEnds ==
    \/ []<>~loaded
    \/ \A p \in Sessions :
          cl[p].at = "select" ~>
              cl[p].at \notin {"select", "primary", "pick", "roll", "wrap",
                               "room", "connect", "login", "retry"}
=============================================================================
