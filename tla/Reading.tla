------------------------------ MODULE Reading -------------------------------
(***************************************************************************)
(* What a client reads, and what it is charged for it.                     *)
(*                                                                         *)
(* passcmd (reader.c) copies the answer of the news server to the client   *)
(* and has to find the end of it in whatever pieces the socket delivers    *)
(* (checkbuf_isend in common.c).  Every piece is charged to the session    *)
(* and to the quota of its user, which all sessions of the user share; the *)
(* main loop (nntpd.c) ends when the quota is spent.  AUTHINFO asks an     *)
(* authentication module (Auth) and starts the quota anew.  close_child    *)
(* (client.c) books the bytes in a table of day limits (auth/daylimits.c), *)
(* under a lock that is a counter in shared memory.                        *)
(*                                                                         *)
(* The slots, the limits on connections and the semaphore are in Sessions, *)
(* the choice of the server in Backend: here a session may be refused, and *)
(* a server may fail.  The database is a table of rows without a key.      *)
(*                                                                         *)
(* An operator commented "Mutant" is a bug this code could have had.       *)
(***************************************************************************)
EXTENDS Auth, Integers, FiniteSets, Sequences, FiniteSetsExt

CONSTANTS
    Sessions,           \* the children
    Names,              \* the user names clients give
    Host,               \* the host name of the client of a session
    NoName,             \* client->username is ""
    AuthHosts,          \* the sessions whose ACL asks for AUTHINFO
    MaxSessionBytes,    \* access.conf
    Pieces,             \* per session: the sizes its reads may have, up to
                        \* cfg.BufSize
    NoSuchArticleRetries,   \* nntpswitch.conf
    Articles,           \* what a server may send after the status line
    ArticlesOf,         \* per session: those it asks for
    Commands,           \* per session: bound of the model on its commands
    Faults,             \* see FaultAssumption
    TermPoints          \* where a child may catch SIGTERM

Keys == Names \cup {Host[s] : s \in Sessions}

\* A byte is one the code looks at or any other; a status line is one item.
Status == {"220", "430"}
Byte   == {"CR", "LF", ".", "x"} \cup Status
End    == <<"CR", "LF", ".", "CR", "LF">>

\* "ended" is the end of the main loop: client->error is set, or parsecmd said
\* so.
Serving == {"command", "status", "body", "charge", "store", "ended"}
Closing == {"lock", "take", "insert", "update", "unlock", "leave"}
Points  == Serving \cup Closing \cup {"gone"}

ASSUME ReadingAssumption ==
    /\ IsFiniteSet(Sessions) /\ NoName \notin Keys
    /\ \A s \in Sessions : Host[s] \notin Names
    /\ AuthHosts \subseteq Sessions
    /\ MaxSessionBytes \in Nat /\ NoSuchArticleRetries \in Nat
    /\ Pieces \in [Sessions -> SUBSET (Nat \ {0})]
    /\ Articles \subseteq Seq({"CR", "LF", ".", "x"}) /\ IsFiniteSet(Articles)
    /\ ArticlesOf \in [Sessions -> SUBSET Articles]
    /\ Commands \in [Sessions -> Nat]

\* "race": two processes may be between the test and the store of a counter.
ASSUME FaultAssumption ==
    Faults \subseteq {"race"} /\ TermPoints \subseteq Points \ {"gone"}

VARIABLES
    pc,                 \* program point of each session
    username, authenticated, bytes,     \* CLIENT
    key,                \* client->user, as the key of the entry
    refs,               \* USER.connections
    bytesleft,          \* USER
    wire,               \* what the server has sent and nobody has read
    chkbuf, more,       \* passcmd: chkbuf and i
    cmd, tries,         \* passcmd: cmd and j
    bread,              \* passcmd: the piece that is not charged yet
    tmp,                \* the value of bytesleft a session has read
    dllock,             \* MASTER
    rows,               \* the table of day limits: per login, its rows
    ncmds               \* commands given so far

\* What the properties need to remember.
VARIABLES
    stale,              \* chkbuf was not brought up to date by the last read
    split,              \* the end of this article came in three pieces
    account,            \* what became of the bytes of a session
    leaked,             \* a session went away with the lock
    granted, charged,   \* per entry: the last quota, and what was read since
    boundless           \* per entry: no bytes were left, which is no limit

client == <<username, authenticated, key, refs, bytesleft, granted,
            boundless>>
quota  == <<bytesleft, charged, boundless>>
locals == <<chkbuf, more, cmd, tries, bread, tmp, stale>>
books  == <<dllock, rows, account, leaked>>
vars   == <<pc, bytes, charged, wire, split, ncmds,
            client, locals, books>>
-----------------------------------------------------------------------------
(* The end of an article.                                                  *)

\* Mutant: checkbuf_init, the buffer is what was on the stack.
checkbuf_init_None == <<"?", "?", "?", "?", "?">>

checkbuf_init == <<"NUL", "NUL", "NUL", "CR", "LF">>

\* The last five bytes seen: of the piece, or of buf and the piece when the
\* piece is shorter.
LastFive(buf, rcv) ==
    [j \in 1 .. 5 |-> IF j <= 5 - Len(rcv) THEN buf[j + Len(rcv)]
                                           ELSE rcv[j - 5 + Len(rcv)]]

checkbuf_isend(buf, rcv) == LastFive(buf, rcv) = End

\* Mutant: Updated, a long piece leaves buf alone as well.
Updated_Never(buf, rcv) == buf

\* A short piece leaves buf alone.
Updated(buf, rcv) == IF Len(rcv) < 5 THEN buf ELSE LastFive(buf, rcv)

\* A server doubles the dot of a line that begins with one: however the bytes
\* of an article, with the line end of the status line before it, come, the
\* last one is the first after which it has ended.
ASSUME ArticleAssumption ==
    \A a \in Articles : \A k \in 0 .. Len(a) :
        (\A j \in 1 .. 5 :
            End[j] = IF k + j > 5 THEN a[k + j - 5]
                     ELSE <<"NUL", "NUL", "NUL", "CR", "LF">>[k + j])
        <=> k = Len(a)

\* readserverline: the first line of a stream, and what comes after it.
LineEnds(w) == {k \in 1 .. Len(w) : w[k] \in Status \cup {"LF"}}
FirstEnd(w) == CHOOSE k \in LineEnds(w) : \A j \in LineEnds(w) : k <= j
AfterLine(w) == SubSeq(w, FirstEnd(w) + 1, Len(w))

\* What the server may answer to a command of session s.
Replies(s) == {<<"430">>} \cup {<<"220">> \o a : a \in ArticlesOf[s]}
-----------------------------------------------------------------------------
(* The main loop and AUTHINFO.                                             *)

\* Mutant: MayGoOn, the quota is not looked at.
MayGoOn_Ever(s) == pc[s] = "command" /\ ncmds[s] < Commands[s]

\* The condition of the main loop, when the client has given a command.
MayGoOn(s) == /\ pc[s] = "command" /\ bytesleft[key[s]] >= 0
              /\ ncmds[s] < Commands[s]

\* Mutant: Allowed, parsecmd asks nobody for AUTHINFO.
Allowed_Any(s) == TRUE

\* parsecmd: 480 Authentication Required, otherwise.
Allowed(s) == s \in AuthHosts => authenticated[s]

\* The name has an entry: find_user_profile finds its profile.
Entered(k) == refs[k] > 0

\* The entries are changed by one process at a time, but for "race".
Quiet(k) == "race" \in Faults
              \/ ~ \E t \in Sessions : pc[t] = "store" /\ key[t] = k

\* drop_user of the old entry and find_user of the new one.
Moved(old, new) == [k \in Keys |-> refs[k] - (IF k = old THEN 1 ELSE 0)
                                           + (IF k = new THEN 1 ELSE 0)]

\* AUTHINFO: client->username is the name given whatever becomes of it.  A
\* session let in moves to the entry of that name, and the quota of the entry
\* is what the module said.  A profile nobody knows will do when the user is
\* connected already, and cmdauthinfo may refuse a session for its limits.
cmdauthinfo(s, name, r, admitted) ==
    LET in == r.authenticated /\ admitted
                /\ (r.profile = "unknown" => Entered(name))
        Renewed(f, new, zero) ==
            [k \in Keys |-> IF k = name THEN new
                            ELSE IF k = key[s] /\ refs[k] = 1 THEN zero
                            ELSE f[k]]
    IN  /\ MayGoOn(s)
        /\ ncmds' = [ncmds EXCEPT ![s] = @ + 1]
        /\ ~ authenticated[s]
        /\ username' = [username EXCEPT ![s] = name]
        /\ \/ /\ ~ in
              /\ UNCHANGED <<authenticated, key, refs, quota, granted>>
           \/ /\ in /\ Quiet(name)
              /\ authenticated' = [authenticated EXCEPT ![s] = TRUE]
              /\ key' = [key EXCEPT ![s] = name]
              /\ refs' = Moved(key[s], name)
              /\ bytesleft' = Renewed(bytesleft, r.bytes, 0)
              /\ granted' = Renewed(granted, r.bytes, 0)
              /\ charged' = Renewed(charged, 0, 0)
              /\ boundless' = Renewed(boundless, r.bytes = 0, FALSE)
        /\ UNCHANGED <<pc, bytes, wire, split, locals, books>>

\* HEAD, BODY and ARTICLE ("article") are charged, XOVER and its like are not.
\* A session without a connection gets one (find_article_server, group), and
\* nothing is left in that to read.
Command(s, c, reply) ==
    /\ MayGoOn(s) /\ Allowed(s)
    /\ ncmds' = [ncmds EXCEPT ![s] = @ + 1]
    /\ pc' = [pc EXCEPT ![s] = "status"]
    /\ wire' = [wire EXCEPT ![s] = @ \o reply]
    /\ cmd' = [cmd EXCEPT ![s] = c]
    /\ split' = [split EXCEPT ![s] = wire[s] # <<>>]
    /\ UNCHANGED <<client, bytes, charged, chkbuf, more, tries, stale, bread,
                   tmp, books>>

\* The connection to the server is given up, and what it sent with it.
Disconnect(s) ==
    /\ wire' = [wire EXCEPT ![s] = <<>>]
    /\ split' = [split EXCEPT ![s] = FALSE]

\* passcmd returns, or is left for good: its locals are gone.
Return(s, p) ==
    /\ pc' = [pc EXCEPT ![s] = p]
    /\ chkbuf' = [chkbuf EXCEPT ![s] = checkbuf_init]
    /\ more' = [more EXCEPT ![s] = TRUE]
    /\ stale' = [stale EXCEPT ![s] = FALSE]
    /\ cmd' = [cmd EXCEPT ![s] = "none"]
    /\ tries' = [tries EXCEPT ![s] = 0]
    /\ bread' = [bread EXCEPT ![s] = 0]
    /\ tmp' = [tmp EXCEPT ![s] = 0]

\* close_child(true) calls the accounting module, which gets a connection to
\* the database or books nothing.
OpenBooks(s) ==
    /\ \/ Return(s, "lock") /\ UNCHANGED account
       \/ Return(s, "leave") /\ account' = [account EXCEPT ![s] = "lost"]
    /\ UNCHANGED <<dllock, rows, leaked>>

\* The loop ends: QUIT, end of file, a timeout, an error, or no bytes left.
\* client_quit drops the connection to the server.
Leave(s) ==
    /\ pc[s] \in {"command", "ended"}
    /\ OpenBooks(s)
    /\ Disconnect(s)
    /\ UNCHANGED <<client, bytes, charged, ncmds>>
-----------------------------------------------------------------------------
(* passcmd.                                                                *)

\* The status line.  BODY and ARTICLE try again when the server has not got
\* the article; a line without a number has, as 2xx has, a body to come.
ReadStatus(s, reply) ==
    LET line  == wire[s][FirstEnd(wire[s])]
        rest  == AfterLine(wire[s])
        again == /\ line = "430" /\ cmd[s] = "article"
                 /\ tries[s] < NoSuchArticleRetries
    IN  /\ pc[s] = "status" /\ LineEnds(wire[s]) # {}
        /\ wire' = [wire EXCEPT ![s] = IF again THEN rest \o reply ELSE rest]
        /\ \/ /\ again
              /\ tries' = [tries EXCEPT ![s] = @ + 1]
              /\ UNCHANGED <<pc, chkbuf, more, stale, cmd, bread, tmp>>
           \/ line = "430" /\ ~ again /\ Return(s, "command")
           \/ /\ line # "430"
              /\ pc' = [pc EXCEPT ![s] = "body"]
              /\ UNCHANGED locals
        /\ UNCHANGED <<client, bytes, charged, split, ncmds, books>>

\* sdown: the client is told that the server is down.  A timeout and a failed
\* read are errors, and end the session; a server that closes is not.
ServerDown(s, failed) ==
    /\ pc[s] \in {"status", "body"}
    /\ Return(s, IF failed THEN "ended" ELSE "command")
    /\ Disconnect(s)
    /\ UNCHANGED <<client, bytes, charged, ncmds, books>>

\* nreadserver delivers n bytes of what is there.
ReadPiece(s, n) ==
    LET rcv == SubSeq(wire[s], 1, n)
    IN  /\ pc[s] = "body" /\ n <= Len(wire[s])
        /\ wire' = [wire EXCEPT ![s] = SubSeq(@, n + 1, Len(@))]
        /\ more' = [more EXCEPT ![s] = ~ checkbuf_isend(chkbuf[s], rcv)]
        /\ chkbuf' = [chkbuf EXCEPT ![s] = Updated(@, rcv)]
        /\ stale' = [stale EXCEPT ![s] = n < 5]
        /\ split' = [split EXCEPT ![s] = @ \/ (n < 5 /\ stale[s])]
        /\ bread' = [bread EXCEPT ![s] = n]
        /\ pc' = [pc EXCEPT ![s] = "charge"]
        /\ UNCHANGED <<client, bytes, charged, cmd, tries, tmp,
                       ncmds, books>>

\* slwriteclient fails, for the client is gone or does not read: the piece is
\* not charged, and the session ends.
WriteFails(s) ==
    /\ pc[s] = "charge"
    /\ Return(s, "ended")
    /\ Disconnect(s)
    /\ UNCHANGED <<client, bytes, charged, ncmds, books>>

\* On with the body, or out of the loop.
Resume(s) ==
    \/ /\ more[s]
       /\ pc' = [pc EXCEPT ![s] = "body"]
       /\ bread' = [bread EXCEPT ![s] = 0]
       /\ tmp' = [tmp EXCEPT ![s] = 0]
       /\ UNCHANGED <<chkbuf, more, stale, cmd, tries>>
    \/ ~ more[s] /\ Return(s, "command")

\* The client has the piece and is charged for it; bytesleft is read once for
\* the test and for the subtraction.
Charge(s) ==
    LET acct  == cmd[s] = "article"
        taken == acct /\ bytesleft[key[s]] > 0
    IN  /\ pc[s] = "charge"
        /\ bytes' = [bytes EXCEPT ![s] = IF acct THEN @ + bread[s] ELSE @]
        /\ \/ /\ taken /\ Quiet(key[s])
              /\ tmp' = [tmp EXCEPT ![s] = bytesleft[key[s]]]
              /\ pc' = [pc EXCEPT ![s] = "store"]
              /\ UNCHANGED <<charged, chkbuf, more, stale, cmd, tries, bread>>
           \/ /\ ~ taken
              /\ charged' = [charged EXCEPT ![key[s]] =
                               IF acct THEN @ + bread[s] ELSE @]
              /\ Resume(s)
        /\ UNCHANGED <<client, wire, split, ncmds, books>>

StoreLeft(s) ==
    /\ pc[s] = "store"
    /\ bytesleft' = [bytesleft EXCEPT ![key[s]] = tmp[s] - bread[s]]
    /\ charged' = [charged EXCEPT ![key[s]] = @ + bread[s]]
    /\ boundless' = [boundless EXCEPT ![key[s]] = @ \/ tmp[s] = bread[s]]
    /\ Resume(s)
    /\ UNCHANGED <<username, authenticated, key, refs, granted,
                   bytes, wire, split, ncmds, books>>
-----------------------------------------------------------------------------
(* close_child.                                                            *)

Login(s) == IF username[s] = NoName THEN Host[s] ELSE username[s]

Goto(s, p) == pc' = [pc EXCEPT ![s] = p]
BooksOnly == UNCHANGED <<bytes, charged, wire, split, ncmds,
                         client, locals>>

\* Mutant: dl_free, nobody waits.
dl_free_Any == TRUE

dl_free == dllock = 0

\* dl_waitlock sleeps until dllock is zero and then counts it up: two steps,
\* between which nobody else looks unless "race".
SpinEnds(s) ==
    /\ pc[s] = "lock" /\ dl_free
    /\ "race" \in Faults \/ ~ \E t \in Sessions : pc[t] = "take"
    /\ Goto(s, "take")
    /\ BooksOnly /\ UNCHANGED books

\* SELECT: is there a row of this login?
SelectRow(s) ==
    /\ pc[s] = "take"
    /\ dllock' = dllock + 1
    /\ Goto(s, IF rows[Login(s)] = <<>> THEN "insert" ELSE "update")
    /\ BooksOnly /\ UNCHANGED <<rows, account, leaked>>

\* It fails: the function returns, and dllock keeps its value.
SelectFails(s) ==
    /\ pc[s] = "take"
    /\ dllock' = dllock + 1
    /\ Goto(s, "leave")
    /\ account' = [account EXCEPT ![s] = "lost"]
    /\ leaked' = TRUE
    /\ BooksOnly /\ UNCHANGED rows

Insert(login, n) == [rows EXCEPT ![login] = Append(@, n)]
Update(login, n) ==
    [rows EXCEPT ![login] = [i \in DOMAIN @ |-> @[i] + n]]

\* INSERT a row, or UPDATE every row of the login.
WriteRow(s) ==
    /\ pc[s] \in {"insert", "update"}
    /\ rows' = IF pc[s] = "insert" THEN Insert(Login(s), bytes[s])
                                   ELSE Update(Login(s), bytes[s])
    /\ account' = [account EXCEPT ![s] = IF @ = "open" THEN "booked"
                                                       ELSE "twice"]
    /\ Goto(s, "unlock")
    /\ BooksOnly /\ UNCHANGED <<dllock, leaked>>

\* Nobody looks at the result of either.
WriteFailed(s) ==
    /\ pc[s] \in {"insert", "update"}
    /\ account' = [account EXCEPT ![s] = "lost"]
    /\ Goto(s, "unlock")
    /\ BooksOnly /\ UNCHANGED <<dllock, rows, leaked>>

\* Mutant: dl_unlock, the counter stays.
dl_unlock_None == dllock' = dllock

dl_unlock == dllock' = 0

Unlock(s) ==
    /\ pc[s] = "unlock"
    /\ dl_unlock
    /\ Goto(s, "leave")
    /\ BooksOnly /\ UNCHANGED <<rows, account, leaked>>

\* drop_user, and the process is gone.  (The semaphore is in Sessions.)
FreeClient(s) ==
    LET left == [k \in Keys |-> refs[k] - (IF k = key[s] THEN 1 ELSE 0)]
        Cleared(f, zero) == [k \in Keys |-> IF left[k] = 0 THEN zero ELSE f[k]]
    IN  /\ pc[s] = "leave"
        /\ Goto(s, "gone")
        /\ refs' = left
        /\ bytesleft' = Cleared(bytesleft, 0)
        /\ granted' = Cleared(granted, 0)
        /\ charged' = Cleared(charged, 0)
        /\ boundless' = Cleared(boundless, FALSE)
        /\ UNCHANGED <<username, authenticated, key,
                       bytes, wire, split, ncmds, locals, books>>

\* SIGTERM: the handler runs client_quit and close_child(true) and exits,
\* wherever the session is.
Term(s) ==
    /\ pc[s] \in TermPoints
    /\ OpenBooks(s)
    /\ Disconnect(s)
    /\ UNCHANGED <<client, bytes, charged, ncmds>>

\* SIGINT, SIGSEGV, SIGILL and SIGABRT: close_child(false).
Die(s) ==
    /\ pc[s] \in TermPoints
    /\ Return(s, "leave")
    /\ account' = [account EXCEPT ![s] = "lost"]
    /\ Disconnect(s)
    /\ UNCHANGED <<client, bytes, charged, ncmds, dllock, rows, leaked>>
-----------------------------------------------------------------------------
OfHost(h) == {s \in Sessions : Host[s] = h}

Init ==
    /\ pc = [s \in Sessions |-> "command"]
    /\ username = [s \in Sessions |-> NoName]
    /\ authenticated = [s \in Sessions |-> FALSE]
    /\ bytes = [s \in Sessions |-> 0]
    /\ key = [s \in Sessions |-> Host[s]]
    /\ refs = [k \in Keys |-> Cardinality(OfHost(k))]
    /\ bytesleft = [k \in Keys |-> IF OfHost(k) = {} THEN 0
                                   ELSE MaxSessionBytes]
    /\ wire = [s \in Sessions |-> <<>>]
    /\ chkbuf = [s \in Sessions |-> checkbuf_init]
    /\ more = [s \in Sessions |-> TRUE]
    /\ cmd = [s \in Sessions |-> "none"]
    /\ tries = [s \in Sessions |-> 0]
    /\ bread = [s \in Sessions |-> 0]
    /\ tmp = [s \in Sessions |-> 0]
    /\ dllock = 0
    /\ rows = [k \in Keys |-> <<>>]
    /\ ncmds = [s \in Sessions |-> 0]
    /\ stale = [s \in Sessions |-> FALSE]
    /\ split = [s \in Sessions |-> FALSE]
    /\ account = [s \in Sessions |-> "open"]
    /\ leaked = FALSE
    /\ granted = bytesleft
    /\ charged = [k \in Keys |-> 0]
    /\ boundless = [k \in Keys |-> OfHost(k) # {} /\ MaxSessionBytes = 0]

\* The answer of the server, or the end of waiting for it; close_child.
Read(s) ==
    \/ \E reply \in Replies(s) : ReadStatus(s, reply)
    \/ \E n \in Pieces[s] : ReadPiece(s, n)
    \/ \E failed \in BOOLEAN : ServerDown(s, failed)
    \/ WriteFails(s) \/ Charge(s) \/ StoreLeft(s)

Close(s) ==
    \/ SpinEnds(s) \/ SelectRow(s) \/ SelectFails(s)
    \/ WriteRow(s) \/ WriteFailed(s) \/ Unlock(s) \/ FreeClient(s)

Advance(s) == Read(s) \/ Leave(s) \/ Close(s)

Next == \E s \in Sessions :
    \/ \E name \in Names, r \in Outcomes, admitted \in BOOLEAN :
          cmdauthinfo(s, name, r, admitted)
    \/ \E c \in {"article", "xover"}, reply \in Replies(s) :
          Command(s, c, reply)
    \/ Advance(s) \/ Term(s) \/ Die(s)

Spec == Init /\ [][Next]_vars

\* A process that can go on does: a server, a client and a database answer or
\* time out, and a client that gives no more commands is timed out.
Fairness == \A s \in Sessions : WF_vars(Advance(s))

FairSpec == Spec /\ Fairness
-----------------------------------------------------------------------------
(* Properties.                                                             *)

\* The variables keep their types (CLIENT, USER and MASTER in nntpd.h).
TypeOK ==
    /\ pc \in [Sessions -> Points]
    /\ username \in [Sessions -> Names \cup {NoName}]
    /\ authenticated \in [Sessions -> BOOLEAN]
    /\ bytes \in [Sessions -> Nat]
    /\ key \in [Sessions -> Keys]
    /\ refs \in [Keys -> Int] /\ bytesleft \in [Keys -> Int]
    /\ wire \in [Sessions -> Seq(Byte)]
    /\ chkbuf \in [Sessions -> [1 .. 5 -> Byte \cup {"NUL"}]]
    /\ more \in [Sessions -> BOOLEAN]
    /\ cmd \in [Sessions -> {"article", "xover", "none"}]
    /\ tries \in [Sessions -> Nat]
    /\ bread \in [Sessions -> Nat] /\ tmp \in [Sessions -> Nat]
    /\ dllock \in Nat
    /\ rows \in [Keys -> Seq(Nat)]
    /\ ncmds \in [Sessions -> Nat]
    /\ stale \in [Sessions -> BOOLEAN] /\ split \in [Sessions -> BOOLEAN]
    /\ account \in [Sessions -> {"open", "booked", "twice", "lost"}]
    /\ leaked \in BOOLEAN
    /\ granted \in [Keys -> Int] /\ charged \in [Keys -> Int]
    /\ boundless \in [Keys -> BOOLEAN]

\* "check for \r\n.\r\n end of article in a buffer" (common.c): the loop of
\* passcmd waits for more only while there is more to come, and gives the
\* client back to the main loop only when all of the answer has been read.
EndFound(s) ==
    /\ pc[s] = "body" => wire[s] # <<>>
    /\ pc[s] = "command" => wire[s] = <<>>
EndOfArticle == \A s \in Sessions : EndFound(s)

\* The end of an article is found wherever the reads cut it, as long as no two
\* reads in a row bring less than five bytes.
EndOfArticleUnlessSplit == \A s \in Sessions : ~ split[s] => EndFound(s)

\* What close_child books under a name was read by sessions a module let in
\* under that name, where the ACL asks for AUTHINFO.
BookedToOwner ==
    \A s \in AuthHosts : bytes[s] > 0 =>
        authenticated[s] /\ Login(s) = key[s]

\* The table has one row for a login at most: two sessions of a user that end
\* together do not both find none (auth/daylimits.c).
OneRow == \A k \in Keys : Len(rows[k]) <= 1

Booked(k) == {s \in Sessions : account[s] = "booked" /\ Login(s) = k}

\* Every byte is booked once, in one row for each login: the row of a login is
\* the sum of the bytes of the sessions that ended under it, but for those whose
\* booking failed, and no session is booked twice.
BookedOnce ==
    /\ OneRow
    /\ \A s \in Sessions : account[s] # "twice"
    /\ \A s \in Sessions : pc[s] = "gone" => account[s] # "open"
    /\ \A k \in Keys : SumFunction(rows[k]) = SumFunctionOnSet(bytes, Booked(k))

OfKey(k) == {s \in Sessions : key[s] = k}
longest  == [s \in Sessions |-> Max({0} \cup {Len(a) : a \in ArticlesOf[s]})]

\* While there is some left of a quota, that and what the user's sessions have
\* been charged since it was granted add up to it; when it is spent they go on
\* to the end of the articles they are reading, and no further.  Coming out at
\* exactly none means no limit (Changes).
WithinQuota ==
    \A k \in Keys : ~ boundless[k] =>
        /\ bytesleft[k] > 0 => bytesleft[k] = granted[k] - charged[k]
        /\ charged[k] <= granted[k] + SumFunctionOnSet(longest, OfKey(k))

NoneSplit == \A s \in Sessions : ~ split[s]

\* A quota binds for as long as no end of an article comes in three pieces: of
\* an answer whose end was missed, or found too early, the rest is charged to
\* the next command (passcmd in reader.c).
QuotaBinds == []NoneSplit => []WithinQuota

\* Every session comes to its end, a server that stays silent and an article
\* whose end was missed included, unless it waits for a lock that a failed
\* SELECT took away.
AllEnd ==
    \A s \in Sessions : <>(pc[s] = "gone" \/ (leaked /\ pc[s] = "lock"))
=============================================================================
