-------------------------------- MODULE Auth --------------------------------
(***************************************************************************)
(* The authentication modules (auth_*.c, auth/auth_*.c).                   *)
(*                                                                         *)
(* A module is a sequence of calls to a service, each of which may fail,   *)
(* that fills an AUTHRESULT in.  An answer is what the calls of one module *)
(* return, those it never comes to included; Result is what the module     *)
(* makes of it.  Nothing is left of names and passwords: the services      *)
(* judge them.  Posting rights, speeds and patterns are left out.          *)
(***************************************************************************)
EXTENDS Naturals, FiniteSetsExt

CONSTANTS
    Quotas,             \* the quotas a service may state, in bytes
    PasswdLines         \* how many lines a password file has at most

ASSUME QuotaAssumption == Quotas \subseteq Nat /\ PasswdLines \in Nat

\* AUTHRESULT.
Verdict(accepted, profile, bytes) ==
    [authenticated |-> accepted, profile |-> profile, bytes |-> bytes]

\* The rest as new_authresult left it.
If(accepted) == Verdict(accepted, "none", 0)
new_authresult == If(FALSE)
-----------------------------------------------------------------------------
(* The answers.  A BOOLEAN is a call that succeeds or an option that is    *)
(* well formed; a read that gets nothing is "none".                        *)

\* What sscanf stores of a line that is no comment: its first none to three
\* fields.  u and p say whether it is the user's name and password.
Whole == [u : BOOLEAN, p : BOOLEAN, r : {"ok", "np", "reason"}]
Lines == {<<>>} \cup [u : BOOLEAN] \cup [u : BOOLEAN, p : BOOLEAN] \cup Whole

\* A password file.  Line 0 stands for what the three buffers hold before the
\* first line is read: nothing has been stored in them.
PasswdFiles ==
    {f \in UNION {[0 .. n -> Lines] : n \in 0 .. PasswdLines} : f[0] \in Whole}

Answers ==
    [mod : {"ignore"}, true : BOOLEAN]
    \cup [mod : {"passwd"}, open : BOOLEAN, file : PasswdFiles]
    \cup [mod : {"pop3"}, args : BOOLEAN, connect : BOOLEAN,
          greeting : {"none", "+OK", "-ERR"}, user : {"none", "+OK", "-ERR"},
          pass : {"none", "+OK", "-ERR"}]
    \cup [mod : {"remote"}, args : BOOLEAN, connect : BOOLEAN,
          user : {0, 381, 482}, pass : {0, 281, 482}]
    \cup [mod : {"ldap"}, init : BOOLEAN, search : BOOLEAN, entry : BOOLEAN,
          bind : BOOLEAN]
    \cup [mod : {"mysql", "postgres"}, args : BOOLEAN, connect : BOOLEAN,
          query : BOOLEAN, rows : {0, 1}]
    \cup [mod : {"radius", "raddaylim"}, args : BOOLEAN, request : BOOLEAN,
          send : {"none", "accept", "reject"},
          profile : {"none", "known", "unknown"}]
    \cup [mod : {"http"}, url : BOOLEAN, get : BOOLEAN, fields : 0 .. 4,
          auth : {0, 1}, bytes : Quotas, profile : {"known", "unknown"}]
    \cup [mod : {"json"}, url : BOOLEAN, get : BOOLEAN, r : BOOLEAN,
          d : BOOLEAN, oq : BOOLEAN, msg : BOOLEAN,
          prf : {"none", "known", "unknown"}, b : Quotas \cup {0}]
-----------------------------------------------------------------------------
(* What the modules make of them.                                          *)

auth_ignore(a) == If(a.true)

\* A field the line does not have is what an earlier line left of it: nobody
\* looks at what sscanf returns.
Field(file, i, f) ==
    file[Max({j \in 0 .. i : f \in DOMAIN file[j]})][f]

\* The first line after which the buffers have the user's name decides.
auth_passwd(a) ==
    If(/\ a.open
       /\ \E i \in DOMAIN a.file \ {0} :
             /\ Field(a.file, i, "u")
             /\ \A j \in 1 .. i - 1 : ~ Field(a.file, j, "u")
             /\ Field(a.file, i, "p")
             /\ Field(a.file, i, "r") \in {"ok", "np"})

\* Only the answer to PASS is looked at; the one to USER has to come.
auth_pop3(a) ==
    If(/\ a.args /\ a.connect /\ a.greeting = "+OK"
       /\ a.user # "none" /\ a.pass = "+OK")

auth_remote(a) == If(a.args /\ a.connect /\ a.user # 0 /\ a.pass = 281)

auth_ldap(a) == If(a.init /\ a.search /\ a.entry /\ a.bind)

auth_mysql(a)    == If(a.args /\ a.connect /\ a.query /\ a.rows > 0)
auth_postgres(a) == If(a.connect /\ a.query /\ a.rows > 0)

\* The attributes of a reply are taken over whatever its code is.
auth_radius(a) ==
    IF a.args /\ a.request
    THEN Verdict(a.send = "accept",
                 IF a.send = "none" THEN "none" ELSE a.profile, 0)
    ELSE new_authresult

\* Radius first, and then a profile there must be.
auth_raddaylim(a) ==
    IF a.profile # "none" THEN auth_radius(a) ELSE new_authresult

auth_http(a) ==
    IF /\ a.url /\ a.get /\ a.fields = 4 /\ a.auth # 0
       /\ a.profile = "known"
    THEN Verdict(TRUE, a.profile, a.bytes)
    ELSE new_authresult

\* A message and a profile there must be; the bytes may be left out.
auth_json(a) ==
    IF a.url /\ a.get /\ a.msg /\ a.prf # "none"
    THEN Verdict(a.r /\ ~ a.d /\ ~ a.oq, a.prf, a.b) ELSE new_authresult

\* find_auth_mod and the call through its result.
Result(a) ==
    CASE a.mod = "ignore"    -> auth_ignore(a)
      [] a.mod = "passwd"    -> auth_passwd(a)
      [] a.mod = "pop3"      -> auth_pop3(a)
      [] a.mod = "remote"    -> auth_remote(a)
      [] a.mod = "ldap"      -> auth_ldap(a)
      [] a.mod = "mysql"     -> auth_mysql(a)
      [] a.mod = "postgres"  -> auth_postgres(a)
      [] a.mod = "radius"    -> auth_radius(a)
      [] a.mod = "raddaylim" -> auth_raddaylim(a)
      [] a.mod = "http"      -> auth_http(a)
      [] a.mod = "json"      -> auth_json(a)

\* What cmdauthinfo may meet.
Outcomes == {Result(a) : a \in Answers}
=============================================================================
