------------------------------- MODULE Reload -------------------------------
(***************************************************************************)
(* SIGHUP and the active file.                                             *)
(*                                                                         *)
(* updategroups asks the servers of every level for their newsgroups and   *)
(* writes the active file (updategroups.c).  The listener loads it into a  *)
(* mapping of its own at the start and on SIGHUP (daemon.c, active.c); its *)
(* children keep the mapping they were forked with.  How many entries the  *)
(* mapping has, numgroups, is shared by all.  Operators commented "Mutant" *)
(* are bugs the code could have had and belong to no specification.        *)
(***************************************************************************)
EXTENDS Integers, FiniteSets, SequencesExt

CONSTANTS
    Sessions,       \* the children
    NumLevels,      \* levels of servers.conf, one server each
    Lists,          \* per level: the answers to LIST active, seqs of groups
    Patterns,       \* per level: how many LISTs ask for its groups (SplitList)
    HupPoints,      \* where the listener may be when a SIGHUP arrives
    Overlap,        \* updategroups writes while the listener loads
    MaxClock        \* bound of the model: seconds that pass

Levels == 1 .. NumLevels
Quiet == {"top", "term", "select"}
Points == Quiet \cup {"servers", "active", "load", "stat", "rest", "done"}
Groups == UNION {Range(l) : l \in UNION {Lists[n] : n \in Levels}}

\* A newsgroup is a number; 0 is the name of an entry never filled.
ASSUME ListAssumption ==
    /\ NumLevels \in Nat \ {0} /\ MaxClock \in Nat /\ Overlap \in BOOLEAN
    /\ Lists \in [Levels -> SUBSET Seq(Nat \ {0})]
    /\ Patterns \in [Levels -> Nat \ {0}]
    /\ HupPoints \subseteq Points

NULL == 0

VARIABLES
    clock,
    conf,           \* servers.conf: the levels it has and its mtime
    active,         \* the active file: its entries and its mtime
    update,         \* updategroups
    listener,       \* at, reload, terminate and its newsgroups; asked, of the
                    \* model: the time of the file at the last SIGHUP
    servers,        \* master->servers: the levels loaded
    numgroups, laststatserver, laststatactive,    \* the other fields of MASTER
    newsgroups      \* per child: the mapping it was forked with, or NoTable

vars == <<clock, conf, active, update, listener, servers, numgroups,
          laststatserver, laststatactive, newsgroups>>
master == <<servers, numgroups, laststatserver, laststatactive>>
files == <<clock, conf, active>>
NoTable == <<[newsgroup |-> 0, server |-> 0]>>

-----------------------------------------------------------------------------
(* Searching.                                                              *)

\* bsearch of the C library among the first n entries of a zeroed array.
NameAt(table, i) == IF i <= Len(table) THEN table[i].newsgroup ELSE 0

bsearch(table, n, group) ==
    LET search[s \in (0 .. n) \X (0 .. n)] ==
            LET mid == (s[1] + s[2]) \div 2 + 1
            IN  IF s[1] >= s[2] THEN NULL
                ELSE IF NameAt(table, mid) = group THEN mid
                ELSE IF NameAt(table, mid) > group
                     THEN search[<<s[1], mid - 1>>]
                ELSE search[<<mid, s[2]>>]
    IN  search[<<0, n>>]

getgroup(table, group) == bsearch(table, numgroups, group)

\* Among the groups known before this list, or all of them for the first.
gg(groups, group, ng) == bsearch(groups, IF ng = 0 THEN Len(groups) ELSE ng, group)

cmp_active(a, b) == a.newsgroup <= b.newsgroup

Sorted(groups) ==
    \A i, j \in DOMAIN groups : i < j => cmp_active(groups[i], groups[j])

\* Mutant for LookupComplete: the lists are written as they came.
qsortNot(groups) == {groups}

\* qsort of the C library: the entries in any order that is sorted.
qsort(groups) ==
    {t \in {[i \in DOMAIN groups |-> groups[p[i]]] :
               p \in Bijection(DOMAIN groups, DOMAIN groups)} : Sorted(t)}

-----------------------------------------------------------------------------
(* updategroups.                                                           *)

Idle == [at |-> "idle", level |-> 0, left |-> 0, groups |-> <<>>, lists |-> <<>>]

\* Mutant for FirstLevelWins: every list is searched from the start.
getlist_activeAll(groups, list, level) ==
    qsort(groups \o [i \in DOMAIN list |-> [newsgroup |-> list[i], server |-> level]])

\* The groups of the list, one after the other: a group that a list before this
\* one had is skipped.
Merged(groups, list, level) ==
    LET known[n \in 0 .. Len(list)] ==
            IF n = 0 THEN groups
            ELSE IF gg(known[n - 1], list[n], Len(groups)) # NULL
                 THEN known[n - 1]
                 ELSE Append(known[n - 1],
                             [newsgroup |-> list[n], server |-> level])
    IN  known[Len(list)]

getlist_active(groups, list, level) == qsort(Merged(groups, list, level))

\* Two runs do not start within a second.
StartUpdate ==
    /\ update = Idle /\ clock > active.mtime
    /\ update' = [Idle EXCEPT !.at = "list", !.level = 1]
    /\ UNCHANGED <<files, listener, master, newsgroups>>

\* update_server of the next level, the lowest first; it has as many patterns
\* left as SplitList makes of server->Groups.
UpdateServer(list) ==
    LET l == update.level
    IN  /\ update.at = "list" /\ update.left = 0
        /\ l \in conf.levels /\ list \in Lists[l]
        /\ \E groups \in getlist_active(update.groups, list, l) :
               update' = [update EXCEPT !.level = l + 1, !.left = Patterns[l] - 1,
                                        !.groups = groups, !.lists = Append(@, list)]
        /\ UNCHANGED <<files, listener, master, newsgroups>>

\* The list of the next pattern of the same server.
NextPattern(list) ==
    LET l == update.level - 1
    IN  /\ update.at = "list" /\ update.left > 0 /\ list \in Lists[l]
        /\ \E groups \in getlist_active(update.groups, list, l) :
               update' = [update EXCEPT !.left = @ - 1, !.groups = groups,
                                        !.lists[l] = @ \o list]
        /\ UNCHANGED <<files, listener, master, newsgroups>>

SkipLevel ==
    /\ update.at = "list" /\ update.left = 0
    /\ update.level \in Levels \ conf.levels
    /\ update' = [update EXCEPT !.level = @ + 1, !.lists = Append(@, <<>>)]
    /\ UNCHANGED <<files, listener, master, newsgroups>>

\* A server does not answer, or it has more groups than MAX_GROUPS has room
\* for: nothing is written.
UpdateDies ==
    /\ update.at = "list" /\ (update.left > 0 \/ update.level \in conf.levels)
    /\ update' = Idle
    /\ UNCHANGED <<files, listener, master, newsgroups>>

\* The file is written over in place, and stdio may flush at any line.
write_active ==
    /\ update.at = "list" /\ update.left = 0 /\ update.level > NumLevels
    /\ Overlap \/ (listener.at \in Quiet \cup {"exit", "dead"} /\ ~ listener.reload)
    /\ active' = [groups |-> <<>>, mtime |-> clock]
    /\ \E groups \in qsort(update.groups) :
           update' = [update EXCEPT !.at = "write", !.groups = groups]
    /\ UNCHANGED <<clock, conf, listener, master, newsgroups>>

WriteLine ==
    /\ update.at = "write" /\ update.groups # <<>>
    /\ active' = [groups |-> Append(active.groups, Head(update.groups)),
                  mtime |-> clock]
    /\ update' = [update EXCEPT !.groups = Tail(@)]
    /\ UNCHANGED <<clock, conf, listener, master, newsgroups>>

CloseActive ==
    /\ update.at = "write" /\ update.groups = <<>>
    /\ update' = Idle
    /\ UNCHANGED <<files, listener, master, newsgroups>>

-----------------------------------------------------------------------------
(* The listener.                                                           *)

Goto(at) == listener' = [listener EXCEPT !.at = at]

\* daemon_select_loop: if (reload) daemon_reload ();
TestReload ==
    /\ listener.at = "top"
    /\ Goto(IF listener.reload THEN "servers" ELSE "term")
    /\ UNCHANGED <<files, update, master, newsgroups>>

reload_servers ==
    /\ listener.at = "servers"
    /\ IF laststatserver < conf.mtime
       THEN servers' = conf.levels /\ laststatserver' = conf.mtime
       ELSE UNCHANGED <<servers, laststatserver>>
    /\ Goto("active")
    /\ UNCHANGED <<files, update, numgroups, laststatactive, newsgroups>>

\* Mutant for TypeOK: clearactive leaves numgroups alone.
reloadactiveKeeps ==
    /\ listener.at = "active"
    /\ IF laststatactive < active.mtime
       THEN listener' = [listener EXCEPT !.at = "load", !.newsgroups = <<>>]
       ELSE Goto("rest")
    /\ UNCHANGED <<files, update, servers, numgroups, laststatserver,
                   laststatactive, newsgroups>>

\* reloadactive: clearactive unmaps the table, of the listener alone.
reloadactive ==
    /\ listener.at = "active"
    /\ IF laststatactive < active.mtime
       THEN /\ listener' = [listener EXCEPT !.at = "load", !.newsgroups = <<>>]
            /\ numgroups' = 0
       ELSE Goto("rest") /\ UNCHANGED numgroups
    /\ UNCHANGED <<files, update, servers, laststatserver, laststatactive, newsgroups>>

\* A group of an unknown server ends the program.
loadactive ==
    /\ listener.at = "load"
    /\ IF \A i \in DOMAIN active.groups : active.groups[i].server \in servers
       THEN /\ listener' = [listener EXCEPT !.at = "stat", !.newsgroups = active.groups]
            /\ numgroups' = Len(active.groups)
       ELSE Goto("dead") /\ UNCHANGED numgroups
    /\ UNCHANGED <<files, update, servers, laststatserver, laststatactive, newsgroups>>

\* Mutant for UpToDate: the time of the load is kept, not that of the file.
StatActiveNow ==
    /\ listener.at = "stat"
    /\ laststatactive' = clock
    /\ Goto("rest")
    /\ UNCHANGED <<files, update, servers, numgroups, laststatserver, newsgroups>>

\* loadactive asks for the time of the file after it has read and closed it.
StatActive ==
    /\ listener.at = "stat"
    /\ laststatactive' = active.mtime
    /\ Goto("rest")
    /\ UNCHANGED <<files, update, servers, numgroups, laststatserver, newsgroups>>

\* reload_access_conf is module Access; loadconfig reads settings.
ReloadRest ==
    /\ listener.at = "rest"
    /\ Goto("done")
    /\ UNCHANGED <<files, update, master, newsgroups>>

\* daemon_reload: reload = 0; whatever arrived meanwhile.
ReloadDone ==
    /\ listener.at = "done"
    /\ listener' = [listener EXCEPT !.at = "term", !.reload = FALSE]
    /\ UNCHANGED <<files, update, master, newsgroups>>

daemon_terminate ==
    /\ listener.at = "term"
    /\ Goto(IF listener.terminate THEN "exit" ELSE "select")
    /\ UNCHANGED <<files, update, master, newsgroups>>

daemon_accept(s) ==
    /\ listener.at = "select" /\ newsgroups[s] = NoTable
    /\ newsgroups' = [newsgroups EXCEPT ![s] = listener.newsgroups]
    /\ Goto("top")
    /\ UNCHANGED <<files, update, master>>

\* A signal that arrives within select ends it.
Awoken == IF listener.at = "select" THEN "top" ELSE listener.at

\* Mutant for HupHonoured: a handler that cannot wake the listener.
hup_handlerMasked ==
    /\ listener.at \in HupPoints
    /\ Overlap \/ update.at # "write"
    /\ listener' = [listener EXCEPT !.reload = TRUE, !.asked = active.mtime]
    /\ UNCHANGED <<files, update, master, newsgroups>>

hup_handler ==
    /\ listener.at \in HupPoints
    /\ Overlap \/ update.at # "write"
    /\ listener' = [listener EXCEPT !.reload = TRUE, !.at = Awoken,
                                    !.asked = active.mtime]
    /\ UNCHANGED <<files, update, master, newsgroups>>

term_handler ==
    /\ listener.at \in Points
    /\ listener' = [listener EXCEPT !.terminate = TRUE, !.at = Awoken]
    /\ UNCHANGED <<files, update, master, newsgroups>>

\* A child ends; SIGCHLD wakes the listener.
chld_handler(s) ==
    /\ newsgroups[s] # NoTable
    /\ newsgroups' = [newsgroups EXCEPT ![s] = NoTable]
    /\ Goto(Awoken)
    /\ UNCHANGED <<files, update, master>>

-----------------------------------------------------------------------------
(* The rest of the world.                                                  *)

Tick ==
    /\ clock < MaxClock
    /\ clock' = clock + 1
    /\ UNCHANGED <<conf, active, update, listener, master, newsgroups>>

\* The administrator changes servers.conf, not while updategroups runs.
EditServers(levels) ==
    /\ update = Idle /\ clock > conf.mtime /\ levels # conf.levels
    /\ conf' = [levels |-> levels, mtime |-> clock]
    /\ UNCHANGED <<clock, active, update, listener, master, newsgroups>>

\* The program has started with the files of second 0.
Init ==
    /\ clock = 0
    /\ conf = [levels |-> Levels, mtime |-> 0]
    /\ \E list \in Lists[1] : \E groups \in getlist_active(<<>>, list, 1) :
           active = [groups |-> groups, mtime |-> 0]
    /\ update = Idle
    /\ listener = [at |-> "top", reload |-> FALSE, terminate |-> FALSE, asked |-> 0,
                   newsgroups |-> active.groups]
    /\ servers = Levels
    /\ numgroups = Len(active.groups)
    /\ laststatserver = 0 /\ laststatactive = 0
    /\ newsgroups = [s \in Sessions |-> NoTable]

\* What the listener does by itself once its select has returned.
Loop ==
    \/ TestReload \/ reload_servers \/ reloadactive \/ loadactive \/ StatActive
    \/ ReloadRest \/ ReloadDone \/ daemon_terminate

updategroups ==
    \/ StartUpdate \/ SkipLevel \/ UpdateDies \/ write_active \/ WriteLine
    \/ CloseActive
    \/ \E list \in UNION {Lists[l] : l \in Levels} :
           UpdateServer(list) \/ NextPattern(list)

Next ==
    \/ Loop \/ updategroups \/ hup_handler \/ term_handler \/ Tick
    \/ \E s \in Sessions : daemon_accept(s) \/ chld_handler(s)
    \/ \E levels \in SUBSET Levels \ {{}} : EditServers(levels)

Spec == Init /\ [][Next]_vars

\* The listener runs on.  Nobody has to connect, to signal or to write.
FairSpec == Spec /\ WF_vars(Loop)

-----------------------------------------------------------------------------
(* Properties.                                                             *)

Entries == [newsgroup : Groups, server : Levels]

TypeOK ==
    /\ clock \in 0 .. MaxClock
    /\ conf.levels \subseteq Levels /\ conf.mtime \in 0 .. clock
    /\ Range(active.groups) \subseteq Entries /\ active.mtime \in 0 .. clock
    /\ update.at \in {"idle", "list", "write"} /\ update.level \in 0 .. NumLevels + 1
    /\ Range(update.groups) \subseteq Entries
    /\ listener.at \in Points \cup {"exit", "dead"}
    /\ listener.asked \in 0 .. active.mtime
    /\ listener.reload \in BOOLEAN /\ listener.terminate \in BOOLEAN
    /\ Range(listener.newsgroups) \subseteq Entries
    /\ servers \subseteq Levels
    /\ numgroups \in 0 .. Len(listener.newsgroups)
    /\ laststatserver \in 0 .. conf.mtime /\ laststatactive \in 0 .. clock

\* updategroups collects every group that a server of a configured level lists,
\* whatever the order it lists them in, as a group of the first level that has it.
FirstLevelWins ==
    update.at = "list" =>
        \A g \in Groups : \A l \in Levels :
            [newsgroup |-> g, server |-> l] \in Range(update.groups) <=>
                /\ l \in DOMAIN update.lists /\ g \in Range(update.lists[l])
                /\ \A m \in 1 .. l - 1 : g \notin Range(update.lists[m])

\* A session finds every group of the table it was forked with, as long as
\* that is the table loaded: the file is in the order the search needs, and
\* numgroups is the length of the table.
LookupComplete ==
    listener.at \in Quiet =>
        \A s \in Sessions : newsgroups[s] = listener.newsgroups =>
            \A e \in Range(newsgroups[s]) :
                LET i == getgroup(newsgroups[s], e.newsgroup)
                IN  i # NULL /\ newsgroups[s][i].newsgroup = e.newsgroup

\* A table that counts as recent as the file is the file.
UpToDate ==
    listener.at \in Quiet /\ update.at # "write" /\ laststatactive = active.mtime =>
        listener.newsgroups = active.groups

\* A SIGHUP makes the listener load the file it was sent for, unless the
\* program ends.
HupHonoured ==
    \A t \in 0 .. MaxClock :
        listener.asked = t
            ~> (laststatactive >= t \/ listener.at \in {"exit", "dead"})
=============================================================================
