------------------------------- MODULE Access -------------------------------
(***************************************************************************)
(* access.conf, read and read again under the sessions that use it.        *)
(*                                                                         *)
(* The listener parses the file statement by statement into tables of      *)
(* MASTER, which the children share (access.c, prefixmap.c).  SIGHUP makes *)
(* it parse the file anew over the same tables: an entry that exists is    *)
(* overwritten where it stands, a new one is appended, none is removed.    *)
(* The children hold pointers into the tables and read them meanwhile; no  *)
(* lock keeps them out.  A mistake in the file ends the listener, not the  *)
(* children.                                                               *)
(*                                                                         *)
(* A statement is a record: kind, name and what else it says.  Stores that *)
(* children may come between are steps, but for the profile and the flags  *)
(* of an ACL that are set before its flags are read, and for the patterns  *)
(* of wildmats, which no child of this module reads.  The tables are as    *)
(* long as the files need, and lines that are no statement are left out.   *)
(* Operators commented "Mutant" are bugs the code could have had and       *)
(* belong to no specification.                                             *)
(***************************************************************************)
EXTENDS Integers, FiniteSets, SequencesExt

CONSTANTS
    Sessions,       \* the children
    Users,          \* the user names clients give
    Matches,        \* per mask of an auth statement: the users it matches
    Files,          \* what access.conf may contain: sequences of statements
    Includes,       \* per file name: the statements of an included file
    AuthModules,    \* authmap
    AcctModules,    \* acctmap
    RemoteConfigs,  \* the values of cfg.RemoteConfig
    RemoteWildmats, \* the lists of wildmats cfg.WildmatURL may answer with
    AddrBits,       \* bits of an address, and of an int (the code: 32)
    NetBits,        \* bits a prefix map tells networks apart by (24)
    Clients         \* the addresses clients come from

NULL == 0
Addresses == 0 .. 2 ^ AddrBits - 1
Kinds == {"wildmat", "alias", "args", "profile", "vhost", "acl", "auth", "pfxmap"}
Flags == {"read", "stats", "post", "apost", "deny", "auth", "unlimit"}
Places == {"none", "forked", "named", "on", "module", "authenticated"}
Counted == {"on", "module", "authenticated"}

\* A network of addresses.  1 << 31 is no positive int: of a length of 1 an
\* ACL makes an undefined range, and a prefix map is written beyond its end.
IsNet(net) ==
    /\ net.len \in (0 .. AddrBits) \ {1}
    /\ \E q \in 0 .. 2 ^ net.len - 1 : net.start = q * 2 ^ (AddrBits - net.len)

\* A file is a sequence of statements, whose settings are sequences too.  A
\* line without a value is no setting.
IsSequence(q) == q \in Seq(Range(q))
IsStatement(s) ==
    /\ {"kind", "name"} \subseteq DOMAIN s
    /\ s.kind \in {"profile", "vhost", "acl", "pfxmap"} => IsSequence(s.keys)
    /\ s.kind = "profile" => \A j \in DOMAIN s.keys :
           s.keys[j].field = "Hostname" => s.keys[j].value # ""
    /\ s.kind = "acl" => IsNet(s.name)
    /\ s.kind = "pfxmap" => \A j \in DOMAIN s.keys : IsNet(s.keys[j])
IsFile(f) == IsSequence(f) /\ \A i \in DOMAIN f : IsStatement(f[i])

ASSUME FileAssumption ==
    /\ AddrBits \in Nat /\ NetBits \in 1 .. AddrBits - 1
    /\ Clients \subseteq Addresses
    /\ \A f \in Files \cup Range(Includes) : IsFile(f)
    /\ \A n \in DOMAIN Includes : \A i \in DOMAIN Includes[n] :
           Includes[n][i].kind # "include"
    /\ \A m \in DOMAIN Matches : Matches[m] \subseteq Users

\* A list of the server names no wildmat twice.
ASSUME RemoteAssumption ==
    /\ RemoteConfigs \subseteq BOOLEAN
    /\ \A w \in RemoteWildmats :
           /\ IsSequence(w) /\ \A i \in DOMAIN w : DOMAIN w[i] = {"name", "value"}
           /\ \A i, j \in DOMAIN w : w[i].name = w[j].name => i = j

\* Powers of two, of which the provers know nothing.
ASSUME PowerAssumption ==
    /\ 2 ^ 0 = 1
    /\ \A m, n \in 0 .. AddrBits :
           /\ 2 ^ m \in Nat \ {0}
           /\ m < n => 2 ^ m < 2 ^ n
           /\ m + n <= AddrBits => 2 ^ (m + n) = 2 ^ m * 2 ^ n

\* The children are as many as shared memory has slots.
ASSUME SessionsAssumption == IsFiniteSet(Sessions) /\ 0 \in Addresses

VARIABLES
    disk,           \* access.conf as it is now
    loader,         \* the listener: what it does, what it has left to read
    tables,         \* per kind of statement: the table it fills
    sess            \* per child: its CLIENT

vars == <<disk, loader, tables, sess>>

-----------------------------------------------------------------------------
(* The tables.                                                             *)

\* getprofile, getalias, getwildmatptr, get_args, getvhost, getauthmask,
\* getpfxmap and getacl_real: the first entry of that name, or NULL.
Find(kind, name) ==
    LET hits == {i \in DOMAIN tables[kind] : tables[kind][i].name = name}
    IN  IF hits = {} THEN NULL ELSE CHOOSE i \in hits : \A j \in hits : i <= j

\* The name of an ACL is its range: start and prefix length.
Covers(range, addr) ==
    addr \in range.start .. range.start + 2 ^ (AddrBits - range.len) - 1

getacl(addr) ==
    LET hits == {i \in DOMAIN tables.acl : Covers(tables.acl[i].name, addr)}
    IN  IF hits = {} THEN NULL ELSE CHOOSE i \in hits : \A j \in hits : i <= j

getauth(user) ==
    LET hits == {i \in DOMAIN tables.auth : user \in Matches[tables.auth[i].name]}
    IN  IF hits = {} THEN NULL ELSE CHOOSE i \in hits : \A j \in hits : i <= j

\* A map has one bit per network.  The processor shifts by the count modulo
\* the width of an int: the prefix of length 0 shifts by nothing.
NetSize == 2 ^ (AddrBits - NetBits)
MapSize(len) == 2 ^ ((AddrBits - len) % AddrBits) \div NetSize
parse_prefix(prefix) ==
    LET first == prefix.start \div NetSize
    IN  first .. first + MapSize(prefix.len) - 1

pfx_iplookup(addr, map) == addr \div NetSize \in map

\* The profile an address outside the map of profile p falls back to.
prof_iplookup(p, addr) ==
    LET conf == tables.profile[p].conf
    IN  IF \/ conf.PrefixMap = NULL
           \/ pfx_iplookup(addr, tables.pfxmap[conf.PrefixMap].map)
        THEN NULL ELSE conf.FailProfile

-----------------------------------------------------------------------------
(* What one statement stores.                                              *)

OrElse(name, default) == IF name = "" THEN default ELSE name

Blank ==
    [profile |-> [ReadPat |-> "", Accounting |-> NULL, PrefixMap |-> NULL,
                  FailProfile |-> NULL, Hostname |-> "", FooterFile |-> "",
                  MaxConnections |-> 0],
     vhost   |-> [Banner |-> ""]]

\* Mutant for ConnectionsKept: the counter comes along with the copy.
InheritedCounts(kind, name) ==
    IF name = "default"
    THEN [name |-> name, conf |-> Blank[kind], connections |-> 0]
    ELSE [tables[kind][Find(kind, "default")] EXCEPT !.name = name]

\* parsecfg_profile, parsecfg_vhost: "default" starts from nothing, another
\* entry from a copy of the default one, its counter reset.
Inherited(kind, name) ==
    IF name = "default"
    THEN [name |-> name, conf |-> Blank[kind], connections |-> 0]
    ELSE [tables[kind][Find(kind, "default")]
              EXCEPT !.name = name, !.connections = 0]

\* Mutant for FileInForce: the flags of an ACL that exists are kept.
OpenedAclKeeps(s, i) ==
    [name |-> s.name, flags |-> IF i # NULL THEN tables.acl[i].flags ELSE {},
     profile |-> Find("profile", OrElse(s.profile, "default"))]

\* parsecfg_acl: the profile is set and every flag cleared.
OpenedAcl(s, i) ==
    [name |-> s.name, flags |-> {},
     profile |-> Find("profile", OrElse(s.profile, "default"))]

\* The entry after the first stores of statement s; i is where it was found.
Opened(s, i) ==
    CASE s.kind \in {"profile", "vhost"} ->
             IF i # NULL THEN tables[s.kind][i] ELSE Inherited(s.kind, s.name)
      [] s.kind = "acl" -> OpenedAcl(s, i)
      [] s.kind = "auth" ->
             [name |-> s.name, alias |-> Find("alias", OrElse(s.alias, "auth_default")),
              profile |-> IF i # NULL THEN tables.auth[i].profile ELSE NULL]
      [] s.kind = "pfxmap" -> [name |-> s.name, map |-> {}]
      [] OTHER -> [name |-> s.name, value |-> s.value]

\* What is stored after that, one by one: settings of a profile, flags of an
\* ACL, prefixes of a map, the profile of an authenticator.
KeysOf(s) ==
    CASE s.kind \in {"profile", "vhost", "acl", "pfxmap"} -> s.keys
      [] s.kind = "auth" -> <<OrElse(s.profile, "default")>>
      [] OTHER -> <<>>

Resolve(field, value) ==
    CASE field = "Accounting"  -> Find("alias", value)
      [] field = "PrefixMap"   -> Find("pfxmap", value)
      [] field = "FailProfile" -> Find("profile", value)
      [] OTHER -> value

Stored(kind, e, key) ==
    CASE kind \in {"profile", "vhost"} ->
             [e EXCEPT !.conf[key.field] = Resolve(key.field, key.value)]
      [] kind = "acl"    -> [e EXCEPT !.flags = @ \cup {key}]
      [] kind = "auth"   -> [e EXCEPT !.profile = Find("profile", key)]
      [] kind = "pfxmap" -> [e EXCEPT !.map = @ \cup parse_prefix(key)]

-----------------------------------------------------------------------------
(* Where the parser dies.                                                  *)

StatementFails(s) ==
    CASE s.kind \in {"profile", "vhost"} ->
             s.name # "default" /\ Find(s.kind, s.name) = NULL
                                /\ Find(s.kind, "default") = NULL
      [] s.kind = "acl" -> s.profile # "" /\ Find("profile", s.profile) = NULL
      [] s.kind = "auth" -> \/ Find("alias", OrElse(s.alias, "auth_default")) = NULL
                            \/ Find("profile", OrElse(s.profile, "default")) = NULL
      [] s.kind = "include" -> s.name \notin DOMAIN Includes
      [] OTHER -> s.kind \notin Kinds

Pointers == {"Accounting", "PrefixMap", "FailProfile"}

\* Mutant for RefsDefined: ReadPat takes any name.
SettingFailsNoPat(key) ==
    \/ key.field \notin DOMAIN Blank.profile
    \/ key.field \in Pointers /\ Resolve(key.field, key.value) = NULL

\* profile_copycfg
SettingFails(key) ==
    \/ key.field \notin DOMAIN Blank.profile
    \/ key.field = "ReadPat" /\ Find("wildmat", key.value) = NULL
    \/ key.field \in Pointers /\ Resolve(key.field, key.value) = NULL

KeyFails(kind, key) ==
    CASE kind = "profile" -> SettingFails(key)
      [] kind = "vhost"   -> key.field \notin DOMAIN Blank.vhost
      [] kind = "acl"     -> key \notin Flags
      [] OTHER -> FALSE

EntryFails(kind, e) == kind = "profile" /\ e.conf.Hostname = ""

\* The file a statement or an entry names may not open, nor access.conf.
OpenMayFail ==
    \/ loader.todo = loader.file
    \/ /\ loader.todo # <<>>
       /\ Head(loader.todo).kind \in {"include", "pfxmap"}
FooterMayFail(kind, e) == kind = "profile" /\ e.conf.FooterFile # ""

\* load_access_conf; a profile without Accounting is a NULL dereference.
ConfigFails ==
    \/ Find("profile", "default") = NULL
    \/ Find("alias", "auth_default") = NULL
    \/ Find("alias", "acct_default") = NULL
    \/ \E i \in DOMAIN tables.auth :
           tables.alias[tables.auth[i].alias].value \notin AuthModules
    \/ \E i \in DOMAIN tables.profile :
           LET a == tables.profile[i].conf.Accounting
           IN  a = NULL \/ tables.alias[a].value \notin AcctModules

-----------------------------------------------------------------------------
(* The listener.                                                           *)

Statement == Head(loader.todo)
IsNew == loader.entry > Len(tables[Statement.kind])
Entry == IF IsNew THEN loader.draft ELSE tables[Statement.kind][loader.entry]

\* A new entry is filled beyond the end of the table, where nobody looks.
Write(kind, i, e) ==
    LET old == i <= Len(tables[kind])
    IN  /\ tables' = IF old THEN [tables EXCEPT ![kind][i] = e] ELSE tables
        /\ loader' = [loader EXCEPT
               !.at = "keys", !.entry = i, !.draft = IF old THEN NULL ELSE e,
               !.keys = IF loader.at = "read" THEN KeysOf(Statement) ELSE Tail(@)]

\* The administrator replaces access.conf.
EditFile(f) ==
    /\ disk' = f
    /\ UNCHANGED <<loader, tables, sess>>

\* Mutant for EntriesStable: as reload_servers does, clear and load.
reload_clear(remote) ==
    /\ loader.at = "select"
    /\ loader' = [loader EXCEPT !.at = "read", !.file = disk, !.todo = disk,
                                !.remote = remote]
    /\ tables' = [k \in Kinds |-> <<>>]
    /\ UNCHANGED <<disk, sess>>

Names(t) == [i \in DOMAIN t |-> t[i].name]

\* The wildmats come from cfg.WildmatURL, if it answers.  The ones there are
\* keep their places and others follow when the answer lists them so; other
\* answers write over wildmats or lose them, and are left out.
rconf_getwmats ==
    \/ UNCHANGED tables
    \/ \E w \in RemoteWildmats :
           /\ IsPrefix(Names(tables.wildmat), Names(w))
           /\ tables' = [tables EXCEPT !.wildmat = w]

\* daemon_reload, and the start of the program; nntpswitch.conf, which says
\* whether the wildmats are remote, is read anew after every reload.
reload_access_conf(remote) ==
    /\ loader.at = "select"
    /\ loader' = [loader EXCEPT !.at = "read", !.file = disk, !.todo = disk,
                                !.remote = remote]
    /\ IF remote THEN rconf_getwmats ELSE UNCHANGED tables
    /\ UNCHANGED <<disk, sess>>

ReadInclude ==
    /\ loader.at = "read" /\ loader.todo # <<>>
    /\ Statement.kind = "include" /\ ~ StatementFails(Statement)
    /\ loader' = [loader EXCEPT !.todo = Includes[Statement.name] \o Tail(@)]
    /\ UNCHANGED <<disk, tables, sess>>

\* A statement that wildmats of the server stand in for.
Skipped(s) == loader.remote /\ s.kind = "wildmat"

SkipWildmat ==
    /\ loader.at = "read" /\ loader.todo # <<>> /\ Skipped(Statement)
    /\ loader' = [loader EXCEPT !.todo = Tail(@)]
    /\ UNCHANGED <<disk, tables, sess>>

\* Mutant for NamesUnique: every reload appends its ACLs.
ReadStatementAgain ==
    /\ loader.at = "read" /\ loader.todo # <<>>
    /\ Statement.kind \in Kinds /\ ~ Skipped(Statement)
    /\ ~ StatementFails(Statement)
    /\ LET found == Find(Statement.kind, Statement.name)
       IN  Write(Statement.kind,
                 IF found # NULL /\ Statement.kind # "acl"
                 THEN found ELSE Len(tables[Statement.kind]) + 1,
                 Opened(Statement, found))
    /\ UNCHANGED <<disk, sess>>

ReadStatement ==
    /\ loader.at = "read" /\ loader.todo # <<>>
    /\ Statement.kind \in Kinds /\ ~ Skipped(Statement)
    /\ ~ StatementFails(Statement)
    /\ LET found == Find(Statement.kind, Statement.name)
       IN  Write(Statement.kind,
                 IF found # NULL THEN found ELSE Len(tables[Statement.kind]) + 1,
                 Opened(Statement, found))
    /\ UNCHANGED <<disk, sess>>

ReadKey ==
    /\ loader.at = "keys" /\ loader.keys # <<>>
    /\ ~ KeyFails(Statement.kind, Head(loader.keys))
    /\ Write(Statement.kind, loader.entry,
             Stored(Statement.kind, Entry, Head(loader.keys)))
    /\ UNCHANGED <<disk, sess>>

EndStatement ==
    /\ loader.at = "keys" /\ loader.keys = <<>>
    /\ ~ EntryFails(Statement.kind, Entry)
    /\ tables' = IF IsNew
                 THEN [tables EXCEPT ![Statement.kind] = Append(@, loader.draft)]
                 ELSE tables
    /\ loader' = [loader EXCEPT !.at = "read", !.todo = Tail(@), !.entry = NULL,
                                !.draft = NULL]
    /\ UNCHANGED <<disk, sess>>

load_access_conf ==
    /\ loader.at = "read" /\ loader.todo = <<>> /\ ~ ConfigFails
    /\ loader' = [loader EXCEPT !.at = "select"]
    /\ UNCHANGED <<disk, tables, sess>>

die ==
    /\ \/ /\ loader.at = "read"
          /\ \/ OpenMayFail
             \/ IF loader.todo = <<>> THEN ConfigFails
                ELSE StatementFails(Statement)
       \/ /\ loader.at = "keys"
          /\ IF loader.keys # <<>>
             THEN KeyFails(Statement.kind, Head(loader.keys))
             ELSE \/ EntryFails(Statement.kind, Entry)
                  \/ FooterMayFail(Statement.kind, Entry)
    /\ loader' = [loader EXCEPT !.at = "dead", !.todo = <<>>, !.keys = <<>>,
                                !.draft = NULL]
    /\ UNCHANGED <<disk, tables, sess>>

\* access_check; the limits of hosts and users are those of module Sessions.
access_check(s, addr) ==
    LET a == getacl(addr)
    IN  /\ loader.at = "select" /\ sess[s].at = "none" /\ a # NULL
        /\ LET p == tables.acl[a].profile
           IN  IF p = NULL
               THEN loader' = [loader EXCEPT !.at = "dead"] /\ UNCHANGED sess
               ELSE /\ "deny" \notin tables.acl[a].flags
                    /\ tables.profile[p].connections
                           <= tables.profile[p].conf.MaxConnections
                    /\ sess' = [sess EXCEPT ![s] =
                           [@ EXCEPT !.at = "forked", !.addr = addr, !.acl = a]]
                    /\ UNCHANGED loader
        /\ UNCHANGED <<disk, tables>>

-----------------------------------------------------------------------------
(* The children.  At "forked" and "named" one initializes its CLIENT, at   *)
(* "module" it waits for the module of its authenticator.                  *)

run_child(s) ==
    /\ sess[s].at = "forked"
    /\ sess' = [sess EXCEPT ![s].at = "named",
                            ![s].profile = tables.acl[sess[s].acl].profile]
    /\ UNCHANGED <<disk, loader, tables>>

\* The profile of the ACL is read a second time for its prefix map.
Register(s) ==
    LET fail == prof_iplookup(tables.acl[sess[s].acl].profile, sess[s].addr)
        p    == IF fail # NULL THEN fail ELSE sess[s].profile
    IN  /\ sess[s].at = "named"
        /\ sess' = [sess EXCEPT ![s].at = "on", ![s].profile = p]
        /\ tables' = [tables EXCEPT !.profile[p].connections = @ + 1]
        /\ UNCHANGED <<disk, loader>>

FindModule(s, user) ==
    LET a == getauth(user)
    IN  /\ sess[s].at = "on" /\ a # NULL
        /\ tables.alias[tables.auth[a].alias].value \in AuthModules
        /\ sess' = [sess EXCEPT ![s].at = "module", ![s].auth = a]
        /\ UNCHANGED <<disk, loader, tables>>

NewProfile(s) ==
    LET p    == tables.auth[sess[s].auth].profile
        fail == prof_iplookup(p, sess[s].addr)
    IN  IF fail # NULL THEN fail ELSE p

\* The module refuses the user, or his new profile is full.
cmdauthinfo_refused(s) ==
    /\ sess[s].at = "module"
    /\ sess' = [sess EXCEPT ![s].at = "on"]
    /\ UNCHANGED <<disk, loader, tables>>

\* Mutant for TypeOK: the profile of the ACL is dropped, and no floor kept.
DroppedAcl(s) ==
    [tables EXCEPT !.profile[tables.acl[sess[s].acl].profile].connections = @ - 1]

Dropped(s) ==
    [tables EXCEPT !.profile[sess[s].profile].connections = IF @ = 0 THEN @ ELSE @ - 1]

cmdauthinfo(s) ==
    LET old == sess[s].profile
        new == NewProfile(s)
        n   == tables.profile[new].connections
    IN  /\ sess[s].at = "module"
        /\ new # old => n <= tables.profile[new].conf.MaxConnections
        /\ sess' = [sess EXCEPT ![s].at = "authenticated", ![s].profile = new]
        /\ tables' = IF new = old THEN tables
                     ELSE [Dropped(s) EXCEPT !.profile[new].connections = @ + 1]
        /\ UNCHANGED <<disk, loader>>

close_child(s) ==
    /\ sess[s].at \in Counted
    /\ tables' = Dropped(s)
    /\ sess' = [sess EXCEPT ![s] = [at |-> "none", addr |-> 0, acl |-> NULL,
                                    profile |-> NULL, auth |-> NULL]]
    /\ UNCHANGED <<disk, loader>>

-----------------------------------------------------------------------------
\* The master memory is zeroed; the program starts by reading the file.
Init ==
    /\ disk \in Files
    /\ loader = [at |-> "select", remote |-> FALSE, file |-> <<>>,
                 todo |-> <<>>, keys |-> <<>>, entry |-> NULL, draft |-> NULL]
    /\ tables = [k \in Kinds |-> <<>>]
    /\ sess = [s \in Sessions |-> [at |-> "none", addr |-> 0, acl |-> NULL,
                                   profile |-> NULL, auth |-> NULL]]

Listener ==
    \/ \E remote \in RemoteConfigs : reload_access_conf(remote)
    \/ ReadInclude \/ SkipWildmat \/ ReadStatement \/ ReadKey
    \/ EndStatement \/ load_access_conf \/ die
    \/ \E s \in Sessions, a \in Clients : access_check(s, a)

Child(s) ==
    \/ run_child(s) \/ Register(s) \/ cmdauthinfo_refused(s) \/ cmdauthinfo(s)
    \/ close_child(s)
    \/ \E u \in Users : FindModule(s, u)

Next ==
    \/ Listener
    \/ \E s \in Sessions : Child(s)
    \/ \E f \in Files : EditFile(f)

Spec == Init /\ [][Next]_vars

-----------------------------------------------------------------------------
(* Properties.                                                             *)

\* The children's pointers and the counters of profiles are what MASTER and
\* CLIENT declare: entries of the tables and numbers of connections.
TypeOK ==
    /\ disk \in Files
    /\ loader.at \in {"select", "read", "keys", "dead"}
    /\ DOMAIN tables = Kinds
    /\ sess \in [Sessions -> [at : Places, addr : Addresses,
                              acl : 0 .. Len(tables.acl),
                              profile : 0 .. Len(tables.profile),
                              auth : 0 .. Len(tables.auth)]]
    /\ \A i \in DOMAIN tables.profile :
           tables.profile[i].connections \in 0 .. Cardinality(Sessions)

\* The default profile is listed before what relies on it without a name, as
\* etc/access.conf demands: an ACL without a profile, an include with such ACLs.
IsDefault(s) == s.kind = "profile" /\ s.name = "default"
Listed(f, i) == \E m \in 1 .. i - 1 : IsDefault(f[m])
Unnamed(s) == s.kind = "acl" /\ s.profile = ""
Relies(s) ==
    \/ Unnamed(s)
    \/ /\ s.kind = "include" /\ s.name \in DOMAIN Includes
       /\ \E i \in DOMAIN Includes[s.name] :
              Unnamed(Includes[s.name][i]) /\ ~ Listed(Includes[s.name], i)
DefaultListed(f) == \A i \in DOMAIN f : Relies(f[i]) => Listed(f, i)

\* A table never has two entries of one name, however often and with whatever
\* changes the file is read: the second would be configured and never used.
NamesUnique ==
    \A k \in Kinds : \A i, j \in DOMAIN tables[k] :
        tables[k][i].name = tables[k][j].name => i = j

ProfileDefined(e) ==
    /\ e.conf.Hostname # ""
    /\ e.conf.ReadPat = "" \/ Find("wildmat", e.conf.ReadPat) # NULL
    /\ e.conf.Accounting \in 0 .. Len(tables.alias)
    /\ e.conf.PrefixMap \in 0 .. Len(tables.pfxmap)
    /\ e.conf.FailProfile \in 0 .. Len(tables.profile)

\* What one table says of another exists, at every moment a child may look:
\* half way through a reload, and after one that died of a mistake.
RefsDefined ==
    /\ \A i \in DOMAIN tables.acl : tables.acl[i].profile \in DOMAIN tables.profile
    /\ \A i \in DOMAIN tables.auth :
           /\ tables.auth[i].alias \in DOMAIN tables.alias
           /\ tables.auth[i].profile \in DOMAIN tables.profile
    /\ \A i \in DOMAIN tables.profile : ProfileDefined(tables.profile[i])
    /\ \A s \in Sessions :
           /\ sess[s].at # "none" => sess[s].acl \in DOMAIN tables.acl
           /\ sess[s].at \notin {"none", "forked"} =>
                  sess[s].profile \in DOMAIN tables.profile
           /\ sess[s].at = "module" => sess[s].auth \in DOMAIN tables.auth

\* PROFILE.connections counts the sessions in the profile, whatever profiles a
\* reload adds or rewrites under them.
ConnectionsKept ==
    \A i \in DOMAIN tables.profile :
        tables.profile[i].connections =
            Cardinality({s \in Sessions : sess[s].at \in Counted /\ sess[s].profile = i})

\* No step moves, renames or removes an entry: the pointers sessions hold mean
\* the same ACL, profile and authenticator for as long as they hold them.
EntriesStable ==
    [][\A k \in Kinds : IsPrefix(Names(tables[k]), Names(tables[k])')]_vars

\* The statements of a file, included ones in their place.
Expanded(file) ==
    FlattenSeq([i \in DOMAIN file |-> IF file[i].kind = "include"
                                      THEN Includes[file[i].name] ELSE <<file[i]>>])

SameEntry(s, t) == s.kind = t.kind /\ s.name = t.name

\* Setting j of statement i is the last of its field in the file.
LastSetting(f, i, j) ==
    \A m \in i .. Len(f) : SameEntry(f[i], f[m]) =>
        \A n \in DOMAIN f[m].keys :
            f[m].keys[n].field = f[i].keys[j].field => m = i /\ n <= j

SaysWhat(s, e) ==
    CASE s.kind = "acl" ->
             /\ e.flags = Range(s.keys)
             /\ e.profile = Find("profile", OrElse(s.profile, "default"))
      [] s.kind = "auth" ->
             /\ e.alias = Find("alias", OrElse(s.alias, "auth_default"))
             /\ e.profile = Find("profile", OrElse(s.profile, "default"))
      [] s.kind = "pfxmap" ->
             \A a \in Addresses : pfx_iplookup(a, e.map) <=>
                 \E p \in Range(s.keys) : p.len \in 2 .. NetBits /\ Covers(p, a)
      [] OTHER -> e.value = s.value

\* Once a file is read, everything it says is in force: each statement that is
\* the last of its name, and each last setting of a profile or vhost.  A map
\* lets an address pass if and only if a prefix of it covers the address, where
\* the prefixes of length 0 and those longer than a network count for nothing.
\* A wildmat of the file counts for nothing when wildmats are remote.
FileInForce ==
    loader.at = "select" =>
        LET f == Expanded(loader.file)
        IN  \A i \in DOMAIN f :
                LET e == tables[f[i].kind][Find(f[i].kind, f[i].name)]
                IN  IF f[i].kind \in {"profile", "vhost"}
                    THEN \A j \in DOMAIN f[i].keys : LastSetting(f, i, j) =>
                             e.conf[f[i].keys[j].field] =
                                 Resolve(f[i].keys[j].field, f[i].keys[j].value)
                    ELSE /\ ~ Skipped(f[i])
                         /\ \A m \in i + 1 .. Len(f) : ~ SameEntry(f[i], f[m])
                         => SaysWhat(f[i], e)
=============================================================================
