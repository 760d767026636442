# nntpswitch in TLA+

nntpswitchd is a proxy for NNTP readers. A listener process accepts
connections and forks one child per client. The children share one table of
sessions, users, profiles and servers in `MAP_SHARED` memory (`MASTER` in
`nntpd.h`), guarded in part by one SysV semaphore. Each child authenticates its
client and forwards commands to back-end news servers it chooses by newsgroup,
by article and by load.

This directory holds TLA+ models of that program, the TLC configurations that
check them, and proofs checked by TLAPS. `PROJECT.json` lists the runs, the
line of source every definition translates, the findings and the hazards.

## 1. The system

| Component | Source | State | Operations |
|---|---|---|---|
| Listener | `daemon.c` | `reload`, `reopen`, the accepted socket | accept, `access_check`, `find_slot`, fork, reload |
| Sessions | `client.c`, `nntpd.c` | `CLIENT` slots, `USER` entries, `PROFILE.connections`, `PROFILE.numusers`, `master->connections`, `master->numusers` | `find_user`, `drop_user`, registration in `run_child`, admission, `close_child` |
| AUTHINFO | `reader.c` | the locals `newuser`, `newprf`; `client->authenticated` | `cmdauthinfo`, account sharing check |
| Semaphore | `semaphore.c` | one SysV semaphore with `SEM_UNDO` | `semlock_lock`, `semlock_unlock` |
| Back-end selection | `server.c` | `SERVER.connections`, `balance_pos`, `numservers` | `connect_groupserver`, `get_next_server`, `reload_servers` |
| Back-end connections | `socket.c` | `serversock`, `connected`, `groupserver`, `currserver`, `error` | `connect_server`, `disconnect_server`, `set_errormsg`, reads, writes, rate limits |
| Commands | `nntpd.c`, `reader.c` | `client->group`, the command buffer | GROUP, ARTICLE, STAT, XOVER, ... |
| Reading | `reader.c`, `common.c`, `socket.c` | `chkbuf` and the loop of `passcmd`; `client->bytes`, `USER.bytesleft` | `passcmd`, `checkbuf_isend`, the charge, the end of the main loop |
| Posting | `post.c` | `postsock` and the group connection | POST, IHAVE |
| Signals | `daemon.c` | handlers of TERM, INT, SEGV, CHLD, HUP | `close_child`, `client_quit`, `reload++` |
| Active file | `active.c`, `updategroups.c` | the newsgroup table | load, sort, search, reload |
| access.conf | `access.c`, `rconfig.c` | the tables of profiles, ACLs, aliases, wildmats, arguments, vhosts and authenticators in `MASTER` | load, reload, `getacl`, `getauth`, `getprofile` |
| Configuration | `config.c`, `auth/config.c`, `mkconfig.pl` | `cfg` | parsing |
| Auth modules | `auth.c`, `auth_*.c`, `auth/auth_*.c` | the `AUTHRESULT` of one AUTHINFO | ask a service for a user |
| Accounting | `acct_*.c`, `auth/acct_*.c`, `auth/log_acct.c` | none of their own | report a session |
| Daily limits | `auth/daylimits.c` | the table `miniac` of a database; the lock `master->dllock` | `do_acct_daylimit`, `get_userkbit` |
| Prefix maps | `auth/prefixmap.c` | one bit per /24 network and map | `load_prefixmap`, `prof_iplookup` |
| Time limits | `auth/timelimit.c` | none | which limit is in force |
| Patterns | `uwildmat.c` | none | `match_expression` |
| Statistics | `statistics.c`, `timerproc.c` | the counters above | periodic output, `cmdstatistics` |
| Tools | `log.c`, `common.c`, `hlist.c`, `tgetopt.c`, `curl.c`, `setproctitle.c`, `auth/ssl_socket.c`, `parsedate.y` | none shared | logging, buffers, options, TLS, dates |

**How they interact.** The listener reads the counters of profiles and slots
without the semaphore to decide whether to fork; the child counts itself only
later. Registration, AUTHINFO and closing change the same `USER` and `PROFILE`
records inside the semaphore; the admission checks that follow registration
read them outside it. The back-end counters have no lock at all. Signal
handlers call the functions of the code they interrupt.

**What is hard.** A session's counters are touched at six places (the
listener, registration, AUTHINFO before and after the account sharing check,
its undo, closing) and each must undo exactly what the others did, in the right
profile, whichever early return is taken and whatever the other sessions do
meanwhile. A handler that runs `close_child` inside a critical section waits
for its own semaphore. A back-end connection fails inside nearly every
function; `set_errormsg` then changes the session under the function's feet.
`balance_pos` is updated in two steps that others see. Lost updates of unsigned
counters wrap. SIGHUP makes the listener parse its files again over tables that
children read at the same time and hold pointers into. The end of an article
comes in whatever pieces the socket delivers, and the quota it is charged to
belongs to all sessions of a user, which read and store it without a lock. An
authentication module may fail at every call of its dialogue. The lock of the
day limits is a counter that is tested and incremented in two steps.

**What makes each component correct.**

- Sessions: a slot has one owner; each counter equals the number of things it
  counts; no address, user or profile exceeds its limit; every session ends.
- Semaphore: critical sections exclude each other and are always left.
- Back-end: `SERVER.connections` equals the number of connected sessions; a
  connected session is on a server that carries its group, with one open
  socket; selection ends; the balancer always offers a server that exists.
- access.conf: names are unique, references resolve at every moment, what a
  session points to stays what it is, counters survive, the file is in force
  once it is read.
- Reload and active file: a SIGHUP has an effect; a group belongs to the first
  level that lists it and is found; a table that passes for current is the file.
- Reading: `passcmd` stops at the end of the answer, not before and not after;
  a quota is charged once for every byte, by all sessions of the user, and ends
  them.
- Authentication: what is booked on a name was read under that name, by a
  session a module let in under it.
- Daily limits: one row for a login, every session booked once, the lock given
  back.

## 2. The modules

| Module | Models | Lines of code it follows |
|---|---|---|
| `Sessions` | listener, children, AUTHINFO, semaphore, handlers | `daemon.c` 165-315, 475-521; `client.c`; `nntpd.c` 119-280; `reader.c` 296-508; `semaphore.c` |
| `MCSessions` | instances of `Sessions` | |
| `Roster`, `SessionRoster` | what the session table promises, and the refinement mapping from `Sessions` | `nntpd.h` 426-532 |
| `Sessions_proofs` | types, slots, mutual exclusion, host limit, the counters of users and profiles | |
| `Limits_proofs` | the user table, the global counters, locking, the users of a profile, the limit of a user | |
| `Roster_proofs` | entries stay, `Sessions` implements `Roster` | |
| `Backend` | server selection, connections, commands, posting, reload | `server.c`; `socket.c`; `reader.c`; `nntpd.c` 289-631; `post.c` |
| `MCBackend` | instances of `Backend` | |
| `Backend_proofs` | types, what is known of a session while it selects, connects and fails, the positions of the balancer, the counters of the servers, the server of a group | |
| `Finite_proofs` | least numbers, cardinalities and sums, for the other proofs | |
| `Auth` | the authentication modules, as functions of their services' answers | `auth.c`; `auth_*.c`; `auth/auth_*.c` |
| `Reading` | articles, quota, AUTHINFO, the table of day limits | `reader.c` 54-132, 297-508; `common.c` 180-232; `socket.c` 262-381, 536-581; `nntpd.c` 286-401; `client.c` 91-224; `auth/daylimits.c` 15-82 |
| `MCReading` | instances of `Reading` | |
| `Reading_proofs` | types, names in the books, the table of day limits, the end of an article, the quota | |
| `Access` | loading access.conf again and again under its sessions | `access.c`; `rconfig.c` 20-65; `auth/prefixmap.c`; `daemon.c` 185-241; `nntpd.c` 124-176; `reader.c` 326-470 |
| `MCAccess` | three versions of access.conf, two lists of remote wildmats | |
| `Access_proofs` | names, pointers, counters, references and what is in force, however the files change | |
| `Reload` | SIGHUP, the active file, updategroups | `daemon.c` 243-346, 452-512; `active.c` 65-168; `updategroups.c` 48-242, 344-377 |
| `MCReload` | instances of `Reload` | |
| `Reload_proofs` | the merge of updategroups, the search of the table, its age | |

In all modules an operator commented *Mutant* is a bug the code could have
had. No specification uses one; each replaces the definition that follows it to
see the property it names break.

### Sessions

`client`, `user`, `connections`, `numusers`, `master_connections` and
`master_numusers` are the fields of `MASTER`; `sem` is the owner of the
semaphore; `pc[p]` is where child `p` stands, `slot[p]` the slot its global
`client` points to; `newuser` and `newprf` are the locals of `cmdauthinfo`.
`listener` is the master process.

A critical section is two steps: `semlock_lock`, which waits, and the body with
its unlock, which no other section can see inside of. What is read outside the
semaphore is a step of its own (`access_check`, `AdmitUser`, `AdmitProfile`,
`ReadCount`), so that others run between the read and its use. `ReadCount` and
`InitClient` split the unguarded `master->connections++` under the fault
`"race"`; `DriftBound` bounds what the lost updates add up to. `"fork"` and
`"affinity"` are system calls that fail. `SignalPoints` are the points a child
may catch a fatal signal at: the handler enters `close_child` and does not
return. One of them is `exit`, between the unlock of `close_child` and `_exit`,
where the handler frees the slot a second time, whoever has it by then.

`cmdauthinfo` is followed from the module's answer on. The dialogue of user and
password and the module are one answer, accepted with a profile or refused. Its
refusals are an action each (`AuthUnknown`, `AuthDisabled`,
`AuthTooManyConnections`, `AuthTooManyUsers`). The
account sharing check gives the semaphore away and takes it back
(`AccountSharingCheck`, points `as_check` and `as_lock`); a refusal after it
takes the semaphore again to undo (`undo_lock`, `undo_cs`). STATISTICS
(`stat_lock`, `stat_cs`) holds the semaphore while it writes to its client. A
slot whose profile is not set yet does it no harm: `Name` is the first field of
`PROFILE`, and a NULL name is printed as such (`statistics.c:126`).

`Roster` is the table as others may think of it: a set of clients, each with an
address, a name and a profile, who enter, move and leave, and counters that move
in the same step. `SessionRoster` maps a child to its entry from the end of
registration (`Registered`) to the end of `close_child`.

Time, log lines, rate limits, byte counters and the texts of replies are left
out. A user table entry is its key and its counter.

### Backend

`cl[p]` is the `CLIENT` of session `p` as far as servers go, `req[p]` the locals
of the functions it runs. `cl[p].sock` says what `serversock` refers to and
`open` counts the connections to group servers the process really holds, which
the code does not know. `connections` and `balance_pos` are shared; every read
and every store of them that another session could come between is a step:
`get_next_server` reads the position, `RollLevel` increments it, `WrapLevel`
resets it, `CheckRoom` tests the server.

What a server answers is nondeterministic within `Answers` (up, down, refuses
the password, mute); `Faults` adds connections that are lost, clients that
disappear, signals, reloads of `servers.conf`, and overlapping updates
(`pend` holds the store still to come). A dereference of NULL is `Crash`: the
SEGV handler ends the process without `client_quit`.

`default` in `servers.conf` and the parser's other fields are left out, as are
permissions (`readpat`) and the contents of replies: an article is found,
refused or missing.

### Auth and Reading

`Auth` is one operator per module: a record of what the calls of its dialogue
return goes in (`Answers`), the part of `AUTHRESULT` that decides comes out.
`Outcomes` is what `cmdauthinfo` may meet.
The answer to `auth_passwd` is a file: per line the fields `sscanf` stores of it,
none, one, two or all three. It does not look at what `sscanf` returns, so
`Field` takes a field the line lacks from the last line that had it, and from
line 0, what was on the stack, before any had.

`Reading` has one program point for each step of `passcmd` that others can see
between: the status line, a piece read and tested (`ReadPiece`), the write with
the charge (`Charge`), the store of the shared quota (`StoreLeft`). `wire[s]`
holds the bytes the server has sent and nobody has read; a byte is one of those
the code looks at or any other, and `Pieces` are the sizes a read may have.
`client->error` is the point `"ended"`. AUTHINFO is one step, with the refusals
of `cmdauthinfo` that depend on counters in the parameter `admitted`: its
interleavings are in `Sessions`. `close_child` is `do_acct_daylimit` step by
step and then `FreeClient`. `account`, `granted`, `charged`,
`boundless`, `stale`, `split` and `leaked` are for the properties: no action
reads them but to go on recording (`Charge` and the like).

### Access

`tables` has one sequence per kind of statement: what `MASTER` keeps in arrays
and counts of entries. A pointer into a table is an index, `NULL` is 0.
`loader` is the listener in `read_acs_file`: `todo` are the statements it has
left, `keys` what is left of the one it reads. An entry that exists is changed
setting by setting where it stands (`ReadKey`), so that children run in between;
a new one is filled beyond the end of the table (`draft`) and seen when its
counter goes up (`EndStatement`). The profile of an ACL and its seven flags,
eight stores, are one step (`OpenedAcl`), and so is a list of remote wildmats
(`rconf_getwmats`). `die` is what the parser ends the listener with - a name that
is not defined, a file that does not open (`OpenMayFail`, `FooterMayFail`), a
profile without a host name, a module nobody has; the children go on. Syntax
errors within a line and full tables ("Too many ...") end it too and are left
out. The file and the tables are data in `Files`:
a statement is a record, not a line. An included file is read in the place of
its `include`, one level deep (the path of the including file is kept in a
buffer per call, so deeper levels add nothing). The tables are as long as the
files need: `MAX_PROFILES` and the like end the program.

`loader.remote` is `cfg.RemoteConfig`: wildmats of the file are then skipped
(`Skipped`) and `rconf_getwmats` writes those of a server over the table. Of its
answers the model has those that list the wildmats there are first and in their
order; see below for the others.

An address has `AddrBits` bits and a prefix map tells apart `2^NetBits`
networks, 32 and 24 in the code. `MapSize` is the size `parse_prefix` computes in
an int of `AddrBits` bits, `(1 << (32 - len)) >> 8`: a shift by the width is one
by nothing on x86, so that a length of 0 has the size 0, as lengths above 24
have. A length of 1 is not in `Files` (`IsNet`): `1 << 31` is negative and
becomes a size beyond the map. `FileInForce` does not use `parse_prefix`: it asks
of every address whether a prefix covers it. Of a profile's
settings the model has those that point into other tables, the one that must not
be missing, the pattern whose name is looked up, and a limit. Of a session it
has what it takes from the tables: the ACL it was accepted by, its profile and
the authenticator it asked. Limits of users and hosts are in `Sessions`. A
module that names a profile itself looks it up as `getprofile` does; here it
takes the authenticator's. Files are replaced as a whole: `EditFile` between two
statements does not change what is being read. Vhosts are loaded and not used.

### Reload

`listener.at` goes through the loop of `daemon_select_loop` and the calls of
`daemon_reload`; `listener.newsgroups` is the table it has mapped,
`newsgroups[s]` the one child `s` was forked with. `numgroups` is in `MASTER`
and shared: `clearactive` sets it for every process. `update` is a run of
updategroups: the level it asks next, what it has collected, and the answers it
got (`lists`, for the properties only). `asked` remembers, for the properties
only, the time of the file when the last SIGHUP came.

`qsort` need not be stable: `Sorted` is the set of all orders of the entries
that ascend, and `update_group_dup` goes on from any of them. `bsearch` is the
halving of the C library, a function of the stretch it still has to look at.

A newsgroup is a number, its order that of `strcmp`. Each level has one server:
updategroups asks the first of a level only, once for each pattern that
`SplitList` makes of its groups (`Patterns`, `NextPattern`); each list is merged
and sorted by itself. A run that dies (`UpdateDies`: a server that does not
answer, more groups than `MAX_GROUPS`) writes nothing. Times are seconds and `clock` stops
at `MaxClock`; two runs of updategroups do not start in one second, since the
time of a file cannot tell them apart. `Overlap` lets updategroups write while
the listener loads, `HupPoints` says where a SIGHUP may arrive: see below for
what the passing run leaves out with them.

## 3. The runs

| Run | Shows |
|---|---|
| `SessionsCounters` | With failing forks and affinity calls, a prefix map and signals at every safe point: types, slots, `USER.connections`, the user table, `PROFILE.connections`, the host limit. |
| `SessionsAuthinfo` | With account sharing, modules that refuse or name profiles that are unknown, disabled or full, STATISTICS: locking on every early return, user limit, `PROFILE.numusers`, `master->connections`, stability of entries, and the refinement of `Roster`. |
| `SessionsBroken` | Signals anywhere up to the unlock of `close_child`, a table of one user, every fault: mutual exclusion holds, and under fairness every child ends and the listener returns unless the semaphore is blocked in one of two ways (`Blocked`). Deadlock is reached here and is not checked: the run exists to see what survives it. |
| `BackendCommands` | Two sessions, failing commands, vanishing clients, SIGTERM, overlapping updates of `balance_pos`: `SERVER.connections`, connection, socket, group and the balancer's position stay consistent. |
| `BackendFaults` | Every command and fault in one session: selection ends while one server of the level answers; types. |
| `AccessReload` | Three versions of access.conf, one with a mistake half way, with local or remote wildmats, loaded in any order while two sessions start, authenticate and end. The listener may die: deadlock is not checked. |
| `ReloadHup` | updategroups, one level of which is asked for two patterns, changes of servers.conf, SIGHUP and SIGTERM around a listener with two children. The listener may end: deadlock is not checked. |
| `Reading` | Two sessions of a user, reads of one, three, five and six bytes, a quota of two bytes, every authentication module and every answer of its service, a database that fails: ends are found, quota and books add up and carry the right name, every session ends. The sessions do end: deadlock is not checked. |

Runs that find a disagreement between the code and what it says of itself
(`findings` quotes both):

| Run | Finding |
|---|---|
| `PrefixUsers` | `PROFILE.numusers` drifts when a user's sessions stand in two profiles: `drop_user` takes him off another profile than `find_user` counted him in. |
| `TableFull` | AUTHINFO dereferences NULL when the user table is full, inside the critical section: everyone waits for ever. Deadlock is not checked, since the system does stop. |
| `SplitEnd` | The end of an article that arrives in reads of fewer than five bytes is seen too early, or missed: `checkbuf_isend` does not keep a short read. |
| `ServersDown` | `connect_groupserver` never returns with every server of a balanced level down. |

**What the runs leave out, and why.** The constants of the passing runs exclude
the behaviours below. Each is in the code, was met while modelling, and comes
back when the constant named is changed.

| Behaviour | Source | Comes back with |
|---|---|---|
| `master->connections++` runs outside the semaphore; a lost increment leaves it low. | `nntpd.c:132` | `SessionsAuthinfo`, `Faults = {"race"}`: `MasterConnections` |
| A signal inside `close_child`'s critical section: the process waits for its own semaphore. | `daemon.c:496` | `TableFull`, `SignalPoints = {"close_cs"}`: `LockReleased` |
| A signal between the unlock of `close_child` and `_exit`: the handler closes the slot again, which may be another session's by then. | `client.c:221`, `daemon.c:496` | `SessionsCounters`, `"exit"` in `SignalPoints`: `SlotOwnership` |
| `MaxConnections` and, through AUTHINFO, `MaxUsers` admit one more than configured, and more while children have not counted themselves. | `daemon.c:173`, `reader.c:403` | |
| `add_level_usage` pushes `balance_pos` past its level before it resets it: a session that reads it in between finds no server, and its GROUP fails with every server up. | `server.c:289` | `BackendCommands`, `Policy <- Balance`, with the invariant `BalancerOffers` |
| A server that refuses the password is taken off a counter it was never added to; the counter wraps and a server with `MaxConnections` then counts as full. | `socket.c:701` | `BackendCommands`, `HasAuth = {1, 2, 3}` and `Answers <- Rejecting`: `ServerConnections` |
| A SIGHUP that arrives while `daemon_reload` runs is forgotten by its `reload = 0`; one between the test of `reload` and `select` waits for the next connection. | `daemon.c:249`, `daemon.c:321` | `ReloadHup`, `HupPoints <- Reloading` and `Overlap = TRUE`: `HupHonoured` |
| updategroups writes the active file in place. A listener that loads it meanwhile takes half a table and, within the second, the time of the whole. | `active.c:132`, `updategroups.c:362` | `ReloadHup`, `Overlap = TRUE`: `UpToDate` |
| A child with an older newsgroup table searches it with the length of the new one. | `active.c:130` | `LookupComplete` is about children with the current table |
| An entry that access.conf no longer has stays in force, and so does a setting its profile no longer has; a new range that an older one holds is never reached. | `access.c:721`, `access.c:735` | |
| An ACL in use has none of its flags for a moment, a prefix map none of its networks. | `access.c:578`, `prefixmap.c:63` | |
| A prefix of length 1 writes beyond its map, and an ACL of one has an undefined range. | `prefixmap.c:89`, `access.c:566` | `IsNet` leaves it out |
| A prefix of length 0 in a map lets nobody pass; an ACL of length 0 takes everybody. | `prefixmap.c:89`, `access.c:563` | in the run, and in what `FileInForce` says |
| A wildmat that the server names for the first time is written at its place in the answer, and the answer's length becomes the table's: an answer in another order overwrites a wildmat profiles refer to, a shorter one loses some. | `rconfig.c:52`, `rconfig.c:61` | `rconf_getwmats` without `IsPrefix`: `EntriesStable` |
| SIGTERM between the increment and the reset of `balance_pos` leaves it past its level; `get_next_server` then finds no server until the next reload. | `server.c:289` | `BackendCommands`, `Policy <- Balance` and `SignalPoints <- Anywhere`: `PositionInRange` |
| A GROUP that finds no server leaves the session with the group it had. | `server.c:388` | `BackendCommands`, `Policy <- Balance`: `GroupOnServer` |
| SIGINT and SIGSEGV end a session without `client_quit`; so does a STAT that is not answered, in a session with an error. | `daemon.c:492`, `nntpd.c:568` | `BackendCommands`, `"int"` in `Faults` or `"stat"` in `Commands`: `ServerConnections` |
| `SERVER.connections` is incremented and decremented without a lock: of two overlapping updates one is lost. | `socket.c:709` | `BackendCommands`, `"race"` in `Faults`: `ServerConnections` |
| A reload of `servers.conf` zeroes the counters of connected servers. | `server.c:127` | `BackendCommands`, `"reload"` in `Faults`: `ServerConnections` |
| STAT loses the server and keeps the group; XOVER then writes to a closed socket, and ARTICLE by message-id can move the session to a server that does not carry the group. | `nntpd.c:574`, `nntpd.c:510` | `BackendCommands`, `"stat"` in `Commands`: `GroupOnServer` |
| LISTGROUP takes the 0 of a `group()` that found no server for success. | `nntpd.c:486` | |
| A refused POST disconnects the group server through the post socket: the group connection is forgotten, open. | `post.c:229` | `BackendCommands`, `"post"` in `Commands`: `ConnectedServer` |
| With every server of a balanced level at `MaxConnections`, `get_next_server` calls itself without end. | `server.c:318` | `ServersDown` with three sessions, `MaxConnections <- OneEach` and `Answers <- Up`: `SelectionEnds` |
| Two processes that close at once may both see `dllock` at zero: both find no row and insert one, and later updates count double. | `daylimits.c:22` | `Reading`, `Faults = {"race"}`: `BookedOnce` |
| A read and a store of `bytesleft` of two sessions overlap: one charge is lost. | `reader.c:120` | `Reading`, `Faults = {"race"}`: `QuotaBinds` |
| SIGTERM in `close_child`: the session is booked twice, or waits for the lock it holds itself. | `daemon.c:501` | `Reading`, `TermPoints` with `Closing`: `BookedOnce`, `AllEnd` |
| A SELECT that fails keeps `dllock`: every later session waits in `close_child` for ever. | `daylimits.c:59` | `AllEnd` without its exception for `leaked` |
| The name of an AUTHINFO that was refused is the name the session is booked on, where the ACL does not ask for AUTHINFO. | `reader.c:318`, `client.c:166` | `Reading`: `BookedToOwner` for all sessions |
| What is left of an answer whose end was seen too early is charged to the next command, beyond the quota. | `common.c:190` | `Reading`, longer articles: `QuotaBinds` without `NoneSplit` |
| A quota that comes out at exactly zero is no limit any more. | `reader.c:119` | `QuotaBinds` without its exception for `boundless` |
| AUTHINFO of one session grants the quota of its user anew, to his other sessions too, and replaces `MaxSessionBytes` even by no limit. | `reader.c:474` | |
| A line of a password file with a name and a password and nothing else is judged by the reason of the line before: after `...:ok` a line `bob:secret:` lets bob in. The first line is judged by what is on the stack. | `auth_passwd.c:34` | in the run: nothing forbids it |
| `auth_json` without a profile in the answer refuses a session and tells it 281. | `auth_json.c:103` | |

**Bounds.** `Sessions` runs with two or three slots and children: two sessions
suffice for each pair of interleaved operations and three for a user with a
pending AUTHINFO while two others come and go. There are two addresses (one of
them outside the prefix map), two profiles (the ACL's and the authenticated
users'), one or two user names, and `MAX_USERS` from 1 (full at once) to 5
(never full). `UIntMax` is 7: larger than any count that is right and small
enough to see a wrap. `DriftBound` is 1: one lost update is enough to break or
not to break each property. `SessionsAuthinfo` has a third profile, which is
disabled, and lets one session and one user into the second at a time.
`Backend` runs with two sessions, three servers of which two share a level, two
newsgroups on different levels. `Access` has four-bit addresses and three-bit
networks, so that prefixes of no length, of a network or more and of less than
one are all there, and two client addresses, so that a map can hold part of an
ACL's range and a prefix can be too long to matter; its files change every kind
of entry, reorder, drop and add some, and two sessions are enough for one to
come between the other's counts. `Reload` has two levels with unsorted, overlapping and repeating lists,
one of which asks its server for two patterns, and three seconds: the file
loaded, the file written after it, and one more.
`Reading` has the two shortest articles that matter, an empty one and one with a
line that is a (doubled) dot; reads shorter than, equal to and longer than the
five bytes of the buffer; two sessions, since the lock and the quota are about
two; two commands for the session that has to authenticate and three for the
other, enough to authenticate, spend the quota and try once more. Password files
have up to two lines and what is on the stack before them: a field is left from
the line before or from the stack, and no third line makes a difference.
`OpenBound` bounds the connections a process has forgotten, `RaceBound` the
positions that may race; both only cut repetitions of what has been seen.
`SYMMETRY` permutes the children, which no formula tells apart, and is not used
with liveness.

**Fairness.** `Sessions!FairSpec`: the listener goes on with a connection it
accepted; a child runs (`WF` of `Advance`); a waiter gets a semaphore that is
freed again and again (`SF` of `semlock_lock`: `semop` queues waiters); a
session's command loop ends (`SF` of `Quit`: `ClientReadTimeout` and
`MaxSessionTime` end it, however often the client authenticates in between).
`Backend!FairSpec`: a function that has been called runs on (`WF` of
`Advance`); the alarm of `connect` and the timeouts of `select` bound every
wait in it. `Reload!FairSpec`: the listener runs on once its `select` has
returned; nobody has to connect, to signal or to write. `Reading!FairSpec`: a
session that can go on does (`WF` of `Advance`): reads, writes and the database
answer or time out, and a client that gives no more commands is timed out.
`SessionEnds` has to except `Blocked`, since a client need not read what
STATISTICS writes and a handler may wait for its own semaphore. `Access` has no
liveness. Clients and signals are never forced.

## 4. The proofs

All for every value of the constants that satisfies the named assumptions of
the module: in `Sessions` `SizeAssumption`, `ValueAssumption`,
`ConfigAssumption` and `FaultAssumption`; in `Backend` `ServerAssumption`,
`RedundancyAssumption` and `FaultAssumption`; in `Reading` `QuotaAssumption`,
`ReadingAssumption`, `FaultAssumption` and, for `ReadingEndsArticles` and
`ReadingQuotaBinds`, `ArticleAssumption`; in `Access` `FileAssumption`,
`RemoteAssumption`, `SessionsAssumption` and `PowerAssumption` (powers of two, of which the provers know nothing); in `Reload`
`ListAssumption`. TLC evaluates them on every run.

| Module | Theorem | States | Assumes also |
|---|---|---|---|
| `Sessions_proofs` | `SessionTypes` | `Spec => []TypeOK` | `NoLateSignal` |
| | `SlotsOwned` | `Spec => []SlotOwnership` | `NoLateSignal` |
| | `SemaphoreExcludes` | `Spec => []MutualExclusion` | |
| | `HostsLimited` | `Spec => []HostLimit` | `NoLateSignal` |
| | `UsersCounted` | `Spec => []UserConnections` | `SafeSignals` |
| | `ProfilesCounted` | `Spec => []ProfileConnections` | `SafeSignals` |
| `Limits_proofs` | `TableKept` | `Spec => []UserTable` | `SafeSignals` |
| | `MasterCounted` | `Spec => []MasterConnections` | `SafeSignals`, `NoLostCount` |
| | `LockKept` | `Spec => []LockDiscipline` | `SafeSignals`, `Roomy` |
| | `ProfileUsersCounted` | `Spec => []ProfileUsers` | `SafeSignals`, `Settled(P)` |
| | `UserLimitKept` | `Spec => []UserLimit` | `SafeSignals`, `Roomy`, `HostsApart` |
| `Roster_proofs` | `EntriesStay` | `Spec => EntryStable` | `SafeSignals` |
| | `RosterImplemented` | `Spec => ImplementsRoster` | `SafeSignals` |
| `Reading_proofs` | `ReadingTypes` | `Spec => []TypeOK` | |
| | `ReadingBookedToOwner` | `Spec => []BookedToOwner` | |
| | `ReadingOneRow` | `Spec => []OneRow` | `"race" \notin Faults` |
| | `ReadingBooksOnce` | `Spec => []BookedOnce` | `"race" \notin Faults`, `TermPoints \subseteq Serving` |
| | `ReadingEndsArticles` | `Spec => []EndOfArticleUnlessSplit` | |
| | `ReadingQuotaBinds` | `Spec => QuotaBinds` | `"race" \notin Faults` |
| `Backend_proofs` | `BackendTypes` | `Spec => []TypeOK` | |
| | `ServerKnown` | `Spec => []ConnectedServer` | `"post" \notin Commands` |
| | `PositionsReset` | `Spec => []PositionInRange` | `"wrap" \notin SignalPoints` |
| | `ServersCounted` | `Spec => []ServerConnections` | `Counting` |
| | `GroupCarried` | `Spec => []GroupOnServer` | `Direct`, `"stat" \notin Commands` |
| `Access_proofs` | `TypeCorrect` | `Spec => []TypeOK` | |
| | `UniqueNames` | `Spec => []NamesUnique` | |
| | `StableEntries` | `Spec => EntriesStable` | |
| | `CountersKept` | `Spec => []ConnectionsKept` | |
| | `DefinedRefs` | `Spec => []RefsDefined` | `CarefulFiles` |
| | `FilesInForce` | `Spec => []FileInForce` | `CarefulFiles` |
| `Reload_proofs` | `TypeCorrect` | `Spec => []TypeOK` | |
| | `FirstLevelKept` | `Spec => []FirstLevelWins` | |
| | `LookupKept` | `Spec => []LookupComplete` | |
| | `TableUpToDate` | `Spec => []UpToDate` | `~Overlap` |

**What the assumptions say.**

- `NoLateSignal`: no signal between the unlock of `close_child` and `_exit`. It is
  needed: the row of the table above. `SafeSignals` implies it.
- `SafeSignals`: signals are caught at `SafePoints`: registered, outside the
  critical sections, not half way through AUTHINFO. It is needed: the handler of
  a signal caught in AUTHINFO closes a session whose new user is never dropped.
- `NoLostCount`: no overlapping `master->connections++` (the first row of the
  table above) and no `sched_setaffinity` that fails, which ends the child
  without `close_child`.
- `Roomy`: `MAX_USERS` is at least twice the number of children, or no less than
  the number of names. Both limits are 8192 in `nntpd.h:67`, so this says that
  fewer than half of the slots are in use. A child needs two entries while
  AUTHINFO moves it from one to the other. With a full table `find_user` returns
  NULL, and the finding of `TableFull` follows.
- `Settled(P)`: every name is used with one profile, `P` of it. Without it
  the finding of `PrefixUsers` follows.
- `HostsApart`: no client's host has a name that is the name of a user.
  Otherwise sessions that are let in without a limit share an entry with those
  that are limited.
- `Counting` leaves out the five faults of the list above that break the counter
  of a server (SIGINT, reload, overlapping updates, STAT, a refused password) and
  says that a `uint` can count the sessions.
- `Direct`: a server that newsgroups are listed by is asked without the balancer
  (`single`, or `backup` with no limit of its own). Otherwise the balancer may
  offer nothing, and the session keeps its group: the row of the table above.
  STAT is left out for the other such row.
- `CarefulFiles`: every file lists the profile `default` before an ACL that names
  none, and before an `include` with such an ACL, as `etc/access.conf:182` and
  `etc/access.conf:197` say. `access.c:441` demands it of the other profiles only;
  an ACL that comes too early is taken, without a profile, and keeps none when
  the default profile comes: what it refers to and what it says then differ.
- `~Overlap`: updategroups does not write while the listener loads, see above.

The run `SessionsAuthinfo` satisfies what the theorems of `Limits_proofs` assume;
the run `BackendCommands` satisfies the assumptions of all five theorems about
`Backend`; the files of `MCAccess` are careful.

**Sessions.** `StructureInv == TypeOK /\ OwnsSlot /\ ListenerOwns /\ ClientFacts`
holds whatever fails and wherever signals strike before a slot is given back
(`NoLateSignal`). `SlotOwnership` alone is not
inductive: that `find_slot` hands out no slot in use needs that a slot not in use
is entirely free and that the listener's slot between `find_slot` and `fork` is
nobody else's (`ListenerOwns`); that AUTHINFO and `close_child` name a profile
that exists needs what is known of the client at each program point
(`ClientFacts`). On it rest types, slots and the limit of an address.
`SessionInv` adds `ClosesWhole`, what signals at `SafePoints` leave true
besides: a child closes with its profile set and no AUTHINFO under way.
`UsersCounted` and `ProfilesCounted` add the counters to it (`UserInv`). Their
arithmetic is in the lemmas `RefsChange`, `PendingChange`, `FindUserCounts`, `DropUserCounts` and `MemberCount`: what one
step does to the cardinality of the set a counter stands for. `SizeAssumption` (a
`uint` can count every slot and child) keeps `Inc` from wrapping; that `Dec` does
not is part of what is proved. `MutualExclusion` needs only that `sem` is its own
set's member; `HostLimit` needs that only the listener, which is one process,
adds a session to an address.

**Limits.** The invariants stand on each other: `UserInv`, `TableInv` (one entry
for each key, counted by `master->numusers`), `HeldInv` (a slot with a user is a
child's), `PlacedInv` (AUTHINFO always has an entry to go to), `LimitInv`.
`HeldInv` and `Roomy` give the entry: the entries in use are fewer than
`MAX_USERS` when one more is asked for, by counting children and their pending
entries. `UserLimitKept` is the hard one. Sessions of one user may have different
limits, and each was checked against its own at a moment that is past. The
invariant is not a bound on their number: it is `Within`, that at most `m` of
the user's checked sessions have a limit of `m` or less, for every `m`. Then they
can be put in an order in which each is within its own limit, and the last of
them has a limit that covers all. A session that joins after a check, and any
that leaves, keep it (`WithinChange`); that the counter it is checked against is
at least the number of checked sessions is `UsersCounted`.

**Roster.** `RosterImplemented` is the step simulation: `RegisterEnters`,
`SwitchMoves` and `CloseLeaves` are the three steps of a child that others see,
and every other step leaves the roster alone (`RosterStep`). It needs the
counter invariants (an entry that others refer to is not freed, so it keeps its
key), `HostLimit` for the limit of an address, and
`GrantInv`: what AUTHINFO is about to store - the profile, the key of the new
user - is something it may grant.

**Reading.** `ReadingBookedToOwner` rests on `Owned`: a session that is let in
carries the name a module accepted, and where the ACL asks for AUTHINFO nobody is
inside `passcmd`, or has read a byte, who is not. What the modules answer is of
no matter to it. `ReadingOneRow` is the mutual
exclusion of `dllock` plus what its holder has found in the table (`Locked`).
`ReadingBooksOnce` adds where each session is on its way to being booked
(`Paid`: an UPDATE finds a row) and that the sums agree (`Balanced`); a step of
the serving part changes nothing booked (`ServingStep`), and a row written is
what it was and the bytes of one session more (`RowWritten`).

`ReadingEndsArticles` is about articles and reads of any length. `Window(a, k)`
is the last five bytes when `k` bytes of article `a` have come, and `WindowStep`
the fact about `checkbuf_isend` that carries the proof: the window after the
next `n` bytes is made of the window before and of those bytes, and with five or
more of those alone. The invariant `Stream` says that `chkbuf` is the window
unless the last read was a short one (`stale`), in which case the next one is
long or the answer counts as `split`. `ArticleAssumption` says of articles what
the doubling of dots gives: only after the last byte do the last five read
CR LF . CR LF.

`ReadingQuotaBinds` needs that invariant, since a session that has found the end
of its article has nothing left to be charged for. `QuotaBinds` is a temporal
formula for that reason: it speaks of behaviours in which no end comes in three
pieces, and fails without (a longer article, reads of one, three and seven bytes
and a quota of five show it). `Due` is what a session still has to read, `room`
how much less that is than its longest article, and `Entry` the invariant of an
entry: the counter is the number of sessions that live under it; a quota that is
not spent adds up; one that is overdrawn is so by no more than the sum of the
rooms. While it is not spent nobody has used any room; the session that
overdraws it has read at least that much of its article, and from then on every
byte that is charged was in somebody's `Due`. `Storing` is the part the missing
lock makes necessary: what was tested is what is subtracted from. The sums are
over finite sets of sessions (`Finite_proofs`: `SumChange` when one session
moves, `SumAtLeast`, `SumMonotone`).

**Backend.** The theorems about `Backend` rest on one invariant, `Inv`, which says of every
session what the code relies on but never tests: a connected session has its
server and an open socket (`Sound`); one that is not has forgotten its server
(`Settled`), except while a server is chosen, where one that was tried and
failed is still in `groupserver` until `Down` clears it (`Placed`). It holds
whatever fails, because `set_errormsg` and `disconnect_server` leave a session
that is either. Every function has a lemma of its own. `PositionsReset` adds
`Positions`: a session that has still to store an incremented position stands
before the reset of that same level, so whenever a store pushes a position past
its level the one who stored it resets it next. `ServersCounted` adds
`Counts`; its arithmetic is in `OnChange`, which says how the set a counter
stands for changes when a session goes from one server to another, and
`TallyCount`. `GroupCarried` is about what the code says in a comment only:
whoever changes the server resets the group first. `group` sets the group before
the server is chosen, so that in between the two disagree; `GroupInv` says what
then holds instead (`Asks`): the target is the server of the group, and a choice
that comes to nothing will clear the group, because `primary` is set. While an
article is looked for (`Searches`) there is no group unless the session already
is on its server. Every server that is tried has the pattern of the target
(`Candidate`), since servers of a level share one (`LevelPattern`).

**Access.** Four invariants, each on the one before. `Inv`: every table is a
sequence of entries of its kind with names of their own, the listener is where it
says, and what it fills in is not in the table yet. Every step leaves the tables
as they are, changes the settings of one entry or adds one at the end (`Grown`),
whatever is in the file; `UniqueNames` and `StableEntries` follow. `RefInv`:
references, of entries, of the draft and of sessions, stay inside their tables,
and a profile's counter is the number of sessions counted in it - here it matters
that a profile read a second time keeps its counter. `DefInv`: what is in a table
has what it needs; with `Ready`, that the default profile is in its table or
still to come before anyone needs it. First matches (`Find`) are least elements
of sets of numbers, which exist by well-founded induction (`LeastNumber`).
`ForceInv` follows the listener through the file (`Progress`): the lines read so
far unfold to the statements `U`, of which `d` are done with, and of the open one
`c` keys (`Reached`, `Consumed`). For those, and only those, the tables are right
already: every name that was used was found (`NamesTold`), the last statement of
a name so far is what its entry says (`StatementsTold`), the last setting of a
field is in force (`SettingsTold`), and the open entry says what its first `c`
keys say (`SaysSoFar`). What makes it inductive is that a name once found stays
where it was found (`KnownStays`) and that a store touches the entry of the open
statement only (`Touches`, `OtherInTable`). An include moves its statements in
front of the rest (`LineJoins`); that the unfolding of all lines is the file with
its includes in place (`ExpandedUnfolds`) needs the recursion of `FlattenSeq`
solved for every length (`FlattenedIs`). Of a prefix map the property asks which
addresses pass, not which bits are set: `PrefixMarks` says that the bits of a
prefix are those of the networks it covers, in the arithmetic of `parse_prefix`,
by division (`DivExact`) and the powers of `PowerAssumption`. `SkipWildmatForce`
is a wildmat that the remote ones stand in for: `Skipped` statements are done
with, and claimed by nobody. `WildmatsKeep` says that a remote list keeps the
names and places there are (`PrefixElim`).

**Reload.** `FirstLevelKept` is about a search and a loop, which are functions
defined by recursion: that `bsearch` and the loop of `getlist_active` satisfy
their equations, and what they compute, is proved by looking at the least
stretch, or the least number of steps, for which it fails (`LeastNumber`).
`SearchSound` and `SearchComplete` say that `bsearch` finds an entry if and only
if there is one, in a table that ascends, `QsortFacts` that `qsort` keeps the
entries and makes the table ascend, and `GetlistFacts` puts them together: the
search goes through the first `ng` entries only, which are the sorted ones.
The invariant `TableInv` has that every table anybody holds, or is collecting,
is in order (`InOrder`), a half written file included: a prefix of a table in
order is in order. `TableUpToDate` adds `FileInv`: the time of each table is
that of the file it was read from.

**Model-checked only**: every liveness property (`SessionEnds`,
`ListenerReturns`, `SelectionEnds`, `HupHonoured`, `AllEnd`), since TLAPS has no
rules for fairness here. Every safety property a passing run checks has a theorem.

## 5. What is not modelled

- SIGKILL, which no handler sees (a slot leaked by a failed fork is modelled, and counts).
- The parsers of `config.c` and `server.c`: their results are
  constants, constrained as the parser or `check_server_redundancy` constrains
  them. `Sessions` takes the results of `access.c` as constants in the same way.
- The text of access.conf: how a line is split into words.
- What outside services answer is nondeterministic: `Auth` has what each module
  makes of the answers, not the wire formats. Of the accounting modules only
  `acct_daylimit` keeps anything; the others report and forget.
- The rate limiters of `socket.c`: floating point, and all that follows from
  them is how long a session sleeps.
- `timelimit.c` and `uwildmat.c`: pure functions of their input and the time of
  day.
- The timer process: it writes counters out, and zeroes `rbytes` without a lock,
  so that what a session adds meanwhile may be missing from the report. Nothing
  but the report reads `rbytes`.
- `LIST`, `XGTITLE`, `NEWGROUPS`, `DATE`, `HELP`: they read shared tables and
  write to the client; a failing write is `WriteFails`.
- `ihave` past its first test: `post.c:566` takes every descriptor for a
  failure.

## 6. Plan

Done, in this order:

1. `Sessions`, `MCSessions`: the life of a session; `Sessions_proofs`.
2. `Backend`, `MCBackend`: selection, connections and commands.
3. `Access`, `Reload`: what a SIGHUP changes under the sessions.
4. `Roster`, `SessionRoster`, `Roster_proofs`: what the session table promises.
   STATISTICS in `Sessions`, which holds the semaphore while it writes.
5. `Auth`, `Reading`: the modules, the end of an article, the quota, the day
   limits; `Reading_proofs`.
6. `Backend_proofs`: the connections and the counters of the servers, for every
   number of sessions and servers.
7. `Access_proofs`, `Reload_proofs`, `Limits_proofs`: tables that change under
   their readers, the active file, the limits of users.

Left, in the order of importance:

8. Theorems with fewer assumptions: an inductive invariant for `Backend` that
   keeps the faults `Counting` and `Direct` leave out and says what they break.
9. `TimeLimit`, `Wildmat`: pure functions against reference definitions over
   bounded inputs.
10. `Timer`: the statistics process, which reads and resets `rbytes` without the
    semaphore.
11. Composition: `Sessions` with `Backend`, so that a session that ends is off
    both tables.
