------------------------------ MODULE MCAccess ------------------------------
(***************************************************************************)
(* Versions of access.conf for TLC.                                        *)
(***************************************************************************)
EXTENDS Access, TLC

CONSTANTS s1, s2, u

Set(f, v) == [field |-> f, value |-> v]
Net(s, l) == [start |-> s, len |-> l]
Simple(k, n, v) == [kind |-> k, name |-> n, value |-> v]
Entered(k, n, keys) == [kind |-> k, name |-> n, keys |-> keys]
Acl(range, p, flags) ==
    [kind |-> "acl", name |-> range, profile |-> p, keys |-> flags]
Auth(mask, a, p) == [kind |-> "auth", name |-> mask, alias |-> a, profile |-> p]
Include(n) == [kind |-> "include", name |-> n]

Default ==
    Entered("profile", "default", <<Set("Hostname", "h"), Set("ReadPat", "all"),
        Set("Accounting", "acct_default"), Set("MaxConnections", 2)>>)
Gold(pat, max) ==
    Entered("profile", "gold", <<Set("ReadPat", pat), Set("PrefixMap", "lan"),
        Set("FailProfile", "default"), Set("MaxConnections", max)>>)

Shared == <<Simple("alias", "auth_default", "ignore"),
            Simple("alias", "acct_default", "none")>>

\* Two ranges that start alike, a map of two networks and of a prefix longer
\* than a network, a mask for everybody.
First ==
    <<Include("shared"), Simple("wildmat", "all", "*"),
      Entered("pfxmap", "lan", <<Net(0, 2), Net(12, 4)>>), Default, Gold("all", 1),
      Acl(Net(0, 3), "gold", <<"read", "auth">>), Acl(Net(0, 0), "", <<"read">>),
      Auth("*", "", "gold")>>

\* A wildmat, a profile and a mask are new, an ACL loses a flag and its
\* profile, the map gets another network and a prefix for all, and a profile is
\* spelled out twice.
Second ==
    <<Simple("wildmat", "some", "a*"), Simple("wildmat", "all", "b*"),
      Simple("args", "url", "u"), Entered("vhost", "default", <<Set("Banner", "hi")>>),
      Entered("pfxmap", "lan", <<Net(0, 0), Net(4, 3)>>),
      Entered("profile", "silver", <<Set("MaxConnections", 1)>>), Gold("some", 2),
      Entered("profile", "gold", <<Set("FooterFile", "f"), Set("MaxConnections", 1)>>),
      Acl(Net(0, 3), "silver", <<"read">>), Acl(Net(0, 2), "gold", <<"deny">>),
      Auth("u", "auth_default", "silver"), Auth("*", "", "default")>>

\* A mistake half way.
Broken == <<Entered("profile", "gold", <<Set("MaxConnections", 2),
                                         Set("ReadPat", "none"), Set("Hostname", "g")>>),
            Acl(Net(0, 0), "gold", <<"read">>)>>

Configs == {First, Second, Broken}

\* The lists of wildmats begin as the files do.
Lists == {<<[name |-> "all", value |-> "r*"]>>,
          <<[name |-> "all", value |-> "*"], [name |-> "some", value |-> "s*"]>>}
Included == [shared |-> Shared]
Everybody == [m \in {"*", "u"} |-> Users]

\* The files the theorem about RefsDefined speaks of.
ASSUME FilesListDefault == \A f \in Files : DefaultListed(f)

Children == Permutations(Sessions)
=============================================================================
