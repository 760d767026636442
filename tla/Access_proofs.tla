--------------------------- MODULE Access_proofs ---------------------------
(***************************************************************************)
(* Proofs about Access, for any files, any number of sessions and any      *)
(* order of reloads and sessions.                                          *)
(***************************************************************************)
EXTENDS Access, Finite_proofs, SequenceTheorems

-----------------------------------------------------------------------------
(* Sequences.                                                              *)

LEMMA SeqFacts ==
    ASSUME NEW q, IsSequence(q)
    PROVE  Len(q) \in Nat /\ DOMAIN q = 1 .. Len(q) /\ q = [i \in 1 .. Len(q) |-> q[i]]
  BY LenProperties DEF IsSequence

LEMMA SeqIntro ==
    ASSUME NEW n \in Nat, NEW S, NEW q \in [1 .. n -> S]
    PROVE  IsSequence(q) /\ Len(q) = n
<1>1. q \in Seq(S)
  BY SeqDef
<1>2. q \in Seq(Range(q))
  BY <1>1, SeqOfRange
<1>3. Len(q) \in Nat /\ DOMAIN q = 1 .. Len(q) /\ DOMAIN q = 1 .. n
  BY <1>2, LenProperties
<1>4. IsSequence(q)
  BY <1>2 DEF IsSequence
<1>5. Len(q) = n
  BY <1>3
<1> QED
  BY <1>4, <1>5

LEMMA SeqAppend ==
    ASSUME NEW q, IsSequence(q), NEW e
    PROVE  /\ IsSequence(Append(q, e)) /\ Len(Append(q, e)) = Len(q) + 1
           /\ \A i \in DOMAIN q : Append(q, e)[i] = q[i]
           /\ Append(q, e)[Len(q) + 1] = e
<1> DEFINE S == Range(q) \cup {e}
<1>1. q \in Seq(S)
  BY SeqMonotonic DEF IsSequence
<1>2. e \in S
  OBVIOUS
<1>3. /\ Append(q, e) \in Seq(S) /\ Len(Append(q, e)) = Len(q) + 1
      /\ \A i \in 1 .. Len(q) : Append(q, e)[i] = q[i]
      /\ Append(q, e)[Len(q) + 1] = e
  <2> HIDE DEF S
  <2> QED
    BY <1>1, <1>2, AppendProperties
<1>4. IsSequence(Append(q, e))
  BY <1>3, SeqOfRange DEF IsSequence
<1> QED
  BY <1>3, <1>4, SeqFacts

LEMMA SeqTail ==
    ASSUME NEW q, IsSequence(q), q # <<>>
    PROVE  /\ IsSequence(Tail(q)) /\ Len(Tail(q)) = Len(q) - 1 /\ Len(q) >= 1
           /\ \A i \in 1 .. Len(q) - 1 : Tail(q)[i] = q[i + 1]
           /\ Head(q) = q[1]
<1>1. q \in Seq(Range(q))
  BY DEF IsSequence
<1>2. Len(q) \in Nat /\ Len(q) >= 1
  BY <1>1, EmptySeq, SeqFacts
<1>3. /\ Tail(q) \in Seq(Range(q)) /\ Len(Tail(q)) = Len(q) - 1
      /\ \A i \in 1 .. Len(Tail(q)) : Tail(q)[i] = q[i + 1]
      /\ Head(q) = q[1]
  BY <1>1, HeadTailProperties
<1>4. IsSequence(Tail(q))
  BY <1>3, SeqOfRange DEF IsSequence
<1> QED
  BY <1>2, <1>3, <1>4

LEMMA SeqConcat ==
    ASSUME NEW q, IsSequence(q), NEW r, IsSequence(r)
    PROVE  /\ IsSequence(q \o r) /\ Len(q \o r) = Len(q) + Len(r)
           /\ \A i \in 1 .. Len(q) : (q \o r)[i] = q[i]
           /\ \A i \in 1 .. Len(r) : (q \o r)[Len(q) + i] = r[i]
<1> DEFINE S == Range(q) \cup Range(r)
<1>1. q \in Seq(S) /\ r \in Seq(S)
  BY SeqMonotonic DEF IsSequence
<1>2. q \o r \in Seq(S) /\ Len(q \o r) = Len(q) + Len(r)
  <2> HIDE DEF S
  <2> QED
    BY <1>1, ConcatProperties
<1>3. \A i \in 1 .. Len(q) + Len(r) :
          (q \o r)[i] = IF i <= Len(q) THEN q[i] ELSE r[i - Len(q)]
  <2> HIDE DEF S
  <2> QED
    BY <1>1, ConcatProperties
<1>4. Len(q) \in Nat /\ Len(r) \in Nat
  BY SeqFacts
<1>5. IsSequence(q \o r)
  BY <1>2, SeqOfRange DEF IsSequence
<1> QED
  BY <1>2, <1>3, <1>4, <1>5

-----------------------------------------------------------------------------
(* The tables grow.                                                        *)

ConfFields(k) ==
    IF k = "profile"
    THEN {"ReadPat", "Accounting", "PrefixMap", "FailProfile", "Hostname",
          "FooterFile", "MaxConnections"}
    ELSE {"Banner"}

Fields(k) ==
    CASE k \in {"profile", "vhost"} -> {"name", "conf", "connections"}
      [] k = "acl" -> {"name", "flags", "profile"}
      [] k = "auth" -> {"name", "alias", "profile"}
      [] k = "pfxmap" -> {"name", "map"}
      [] OTHER -> {"name", "value"}

Shape(k, e) ==
    /\ DOMAIN e = Fields(k)
    /\ k \in {"profile", "vhost"} => DOMAIN e.conf = ConfFields(k)

LEMMA BlankFields ==
    /\ DOMAIN Blank.profile = ConfFields("profile")
    /\ DOMAIN Blank.vhost = ConfFields("vhost")
<1>1. Blank.profile = [ReadPat |-> "", Accounting |-> NULL, PrefixMap |-> NULL,
                       FailProfile |-> NULL, Hostname |-> "",
                       FooterFile |-> "", MaxConnections |-> 0]
  BY DEF Blank
<1>2. Blank.vhost = [Banner |-> ""]
  BY DEF Blank
<1> QED
  BY <1>1, <1>2 DEF ConfFields

IsTable(k, t) ==
    /\ IsSequence(t)
    /\ \A i \in DOMAIN t : Shape(k, t[i])
    /\ \A i, j \in DOMAIN t : t[i].name = t[j].name => i = j

Layout == DOMAIN tables = Kinds /\ \A k \in Kinds : IsTable(k, tables[k])

\* Every entry stays where it is, under its name.
Extends(t, u) ==
    Len(t) <= Len(u) /\ \A i \in DOMAIN t : u[i].name = t[i].name

Grown == \A k \in Kinds : Extends(tables[k], tables'[k])

LEMMA TableFacts ==
    ASSUME NEW k, NEW t, IsTable(k, t)
    PROVE  Len(t) \in Nat /\ DOMAIN t = 1 .. Len(t)
  BY SeqFacts DEF IsTable

LEMMA ExtendsSelf ==
    ASSUME NEW k, NEW t, IsTable(k, t)
    PROVE  Extends(t, t)
  BY TableFacts DEF Extends

LEMMA NothingGrows ==
    ASSUME Layout, UNCHANGED tables
    PROVE  Layout' /\ Grown
  BY ExtendsSelf DEF Layout, Grown

\* A step that changes one table.
LEMMA TableChange ==
    ASSUME Layout, NEW k \in Kinds, NEW t, IsTable(k, t), Extends(tables[k], t),
           tables' = [tables EXCEPT ![k] = t]
    PROVE  Layout' /\ Grown
<1>1. DOMAIN tables' = Kinds
  BY DEF Layout
<1>2. ASSUME NEW j \in Kinds
      PROVE  IsTable(j, tables'[j]) /\ Extends(tables[j], tables'[j])
  <2>1. CASE j = k
    BY <2>1 DEF Layout
  <2>2. CASE j # k
    BY <2>2, ExtendsSelf DEF Layout
  <2> QED
    BY <2>1, <2>2
<1> QED
  BY <1>1, <1>2 DEF Layout, Grown

LEMMA EntryChange ==
    ASSUME NEW k, NEW t, IsTable(k, t), NEW i \in DOMAIN t, NEW e, Shape(k, e),
           e.name = t[i].name
    PROVE  IsTable(k, [t EXCEPT ![i] = e]) /\ Extends(t, [t EXCEPT ![i] = e])
<1> DEFINE u == [t EXCEPT ![i] = e]
<1>1. Len(t) \in Nat /\ DOMAIN t = 1 .. Len(t)
  BY TableFacts
<1>2. u \in [1 .. Len(t) -> Range(t) \cup {e}]
  BY <1>1 DEF Range
<1>3. IsSequence(u) /\ Len(u) = Len(t)
  <2> HIDE DEF u
  <2> QED
    BY <1>1, <1>2, SeqIntro
<1>4. DOMAIN u = DOMAIN t /\ \A j \in DOMAIN t : u[j] = IF j = i THEN e ELSE t[j]
  BY <1>1
<1>5. \A j \in DOMAIN t : u[j].name = t[j].name
  BY <1>4
<1> HIDE DEF u
<1>6. IsTable(k, u)
  BY <1>3, <1>4, <1>5 DEF IsTable
<1>7. Extends(t, u)
  BY <1>1, <1>3, <1>5 DEF Extends
<1> QED
  BY <1>6, <1>7 DEF u

LEMMA EntryAdded ==
    ASSUME NEW k, NEW t, IsTable(k, t), NEW e, Shape(k, e),
           \A i \in DOMAIN t : t[i].name # e.name
    PROVE  IsTable(k, Append(t, e)) /\ Extends(t, Append(t, e))
<1>1. Len(t) \in Nat /\ DOMAIN t = 1 .. Len(t)
  BY TableFacts
<1>2. /\ IsSequence(Append(t, e)) /\ Len(Append(t, e)) = Len(t) + 1
      /\ \A i \in DOMAIN t : Append(t, e)[i] = t[i]
      /\ Append(t, e)[Len(t) + 1] = e
  BY SeqAppend DEF IsTable
<1>3. DOMAIN Append(t, e) = 1 .. Len(t) + 1
  BY <1>2, SeqFacts
<1>4. ASSUME NEW i \in DOMAIN Append(t, e)
      PROVE  \/ i \in DOMAIN t /\ Append(t, e)[i] = t[i]
             \/ i = Len(t) + 1 /\ Append(t, e)[i] = e
  <2>1. i \in 1 .. Len(t) \/ i = Len(t) + 1
    BY <1>1, <1>3
  <2> QED
    BY <1>1, <1>2, <2>1
<1>5. \A i \in DOMAIN Append(t, e) : Shape(k, Append(t, e)[i])
  BY <1>4 DEF IsTable
<1>6. ASSUME NEW i \in DOMAIN Append(t, e), NEW j \in DOMAIN Append(t, e),
             Append(t, e)[i].name = Append(t, e)[j].name
      PROVE  i = j
  BY <1>4, <1>6 DEF IsTable
<1> QED
  BY <1>1, <1>2, <1>5, <1>6 DEF IsTable, Extends

\* The counters of profiles are all that children change.
Recounted ==
    /\ DOMAIN tables' = Kinds
    /\ \A k \in Kinds \ {"profile"} : tables'[k] = tables[k]
    /\ IsSequence(tables'.profile) /\ Len(tables'.profile) = Len(tables.profile)
    /\ \A i \in DOMAIN tables.profile :
           LET e == tables.profile[i]
               d == tables'.profile[i]
           IN  DOMAIN d = DOMAIN e /\ d.name = e.name /\ d.conf = e.conf

LEMMA RecountedGrows ==
    ASSUME Layout, Recounted
    PROVE  Layout' /\ Grown
<1>1. ASSUME NEW k \in Kinds
      PROVE  IsTable(k, tables'[k]) /\ Extends(tables[k], tables'[k])
  <2>1. CASE k # "profile"
    BY <2>1, ExtendsSelf DEF Layout, Recounted
  <2>2. CASE k = "profile"
    <3>1. IsTable(k, tables.profile) /\ IsSequence(tables'.profile)
      BY <2>2 DEF Layout, Recounted
    <3>2. DOMAIN tables'.profile = DOMAIN tables.profile
      BY <3>1, SeqFacts DEF Recounted, IsTable
    <3> QED
      BY <2>2, <3>1, <3>2, TableFacts DEF Recounted, IsTable, Shape, Extends
  <2> QED
    BY <2>1, <2>2
<1> QED
  BY <1>1 DEF Recounted, Layout, Grown

-----------------------------------------------------------------------------
(* Looking up a name.                                                      *)

Named(t, name) ==
    LET hits == {i \in DOMAIN t : t[i].name = name}
    IN  IF hits = {} THEN NULL ELSE CHOOSE i \in hits : \A j \in hits : i <= j

LEMMA FindIsNamed ==
    ASSUME NEW k, NEW name
    PROVE  /\ Find(k, name) = Named(tables[k], name)
           /\ Find(k, name)' = Named(tables'[k], name)
  BY DEF Find, Named

LEMMA NamedFacts ==
    ASSUME NEW k, NEW t, IsTable(k, t), NEW name
    PROVE  \/ /\ Named(t, name) = NULL
              /\ \A i \in DOMAIN t : t[i].name # name
           \/ /\ Named(t, name) \in DOMAIN t
              /\ Named(t, name) # NULL
              /\ t[Named(t, name)].name = name
<1> DEFINE hits == {i \in DOMAIN t : t[i].name = name}
<1>1. DOMAIN t = 1 .. Len(t)
  BY TableFacts
<1>2. CASE hits = {}
  BY <1>2 DEF Named
<1>3. CASE hits # {}
  <2>1. PICK i \in hits : TRUE
    BY <1>3
  <2>2. hits = {i}
    BY <1>1, <2>1 DEF IsTable
  <2>3. Named(t, name) = CHOOSE j \in hits : \A m \in hits : j <= m
    BY <1>3 DEF Named
  <2>4. Named(t, name) \in hits
    BY <1>1, <2>2, <2>3
  <2> QED
    BY <1>1, <2>4 DEF NULL
<1> QED
  BY <1>2, <1>3

LEMMA FindFacts ==
    ASSUME Layout, NEW k \in Kinds, NEW name
    PROVE  \/ /\ Find(k, name) = NULL
              /\ \A i \in DOMAIN tables[k] : tables[k][i].name # name
           \/ /\ Find(k, name) \in DOMAIN tables[k]
              /\ Find(k, name) # NULL
              /\ tables[k][Find(k, name)].name = name
<1>1. IsTable(k, tables[k])
  BY DEF Layout
<1> QED
  BY <1>1, NamedFacts, FindIsNamed

LEMMA FindType ==
    ASSUME Layout, NEW k \in Kinds, NEW name
    PROVE  Find(k, name) \in 0 .. Len(tables[k])
  BY FindFacts, TableFacts DEF Layout, NULL

\* Where a name has been found it stays.
LEMMA NamedStays ==
    ASSUME NEW k, NEW t, IsTable(k, t), NEW u, IsTable(k, u), Extends(t, u),
           NEW name, Named(t, name) # NULL
    PROVE  Named(u, name) = Named(t, name)
<1>1. Named(t, name) \in DOMAIN t /\ t[Named(t, name)].name = name
  BY NamedFacts
<1>2. Named(t, name) \in DOMAIN u /\ u[Named(t, name)].name = name
  BY <1>1, TableFacts DEF Extends
<1>3. Named(u, name) \in DOMAIN u /\ u[Named(u, name)].name = name
  BY <1>2, NamedFacts
<1> QED
  BY <1>2, <1>3 DEF IsTable

LEMMA FindStays ==
    ASSUME Layout, Layout', Grown, NEW k \in Kinds, NEW name,
           Find(k, name) # NULL
    PROVE  Find(k, name)' = Find(k, name)
<1>1. /\ IsTable(k, tables[k]) /\ IsTable(k, tables'[k])
      /\ Extends(tables[k], tables'[k])
  BY DEF Layout, Grown
<1> QED
  BY <1>1, NamedStays, FindIsNamed

-----------------------------------------------------------------------------
(* What the listener reads.                                                *)

KeyKinds == {"profile", "vhost", "acl", "auth", "pfxmap"}
LoaderFields == {"at", "remote", "file", "todo", "keys", "entry", "draft"}

\* Between the first store of a statement and its end.
Filling ==
    LET k == Statement.kind
    IN  /\ loader.todo # <<>> /\ k \in Kinds
        /\ IsSequence(loader.keys)
        /\ loader.keys # <<>> => k \in KeyKinds
        /\ loader.entry \in 1 .. Len(tables[k]) + 1
        /\ Shape(k, Entry) /\ Entry.name = Statement.name
        /\ IsNew => \A i \in DOMAIN tables[k] :
                        tables[k][i].name # Statement.name

LoaderOK ==
    /\ DOMAIN loader = LoaderFields
    /\ loader.at \in {"select", "read", "keys", "dead"}
    /\ IsFile(loader.todo)
    /\ loader.at = "keys" => Filling

Inv == Layout /\ LoaderOK /\ disk \in Files

LEMMA HeadStatement ==
    ASSUME LoaderOK, loader.todo # <<>>
    PROVE  /\ IsFile(Tail(loader.todo)) /\ Statement = loader.todo[1]
           /\ Statement.kind \in {"profile", "vhost", "acl", "pfxmap"}
                  => IsSequence(Statement.keys)
           /\ IsStatement(Statement)
<1>1. IsSequence(loader.todo) /\ DOMAIN loader.todo = 1 .. Len(loader.todo)
  BY SeqFacts DEF LoaderOK, IsFile
<1>2. /\ IsSequence(Tail(loader.todo)) /\ Len(loader.todo) >= 1
      /\ Len(Tail(loader.todo)) = Len(loader.todo) - 1
      /\ \A i \in 1 .. Len(loader.todo) - 1 :
             Tail(loader.todo)[i] = loader.todo[i + 1]
      /\ Head(loader.todo) = loader.todo[1]
  BY <1>1, SeqTail
<1>3. DOMAIN Tail(loader.todo) = 1 .. Len(loader.todo) - 1
  BY <1>2, SeqFacts
<1>4. Len(loader.todo) \in Nat /\ IsFile(loader.todo)
  BY <1>1, SeqFacts DEF LoaderOK
<1>5. ASSUME NEW i \in DOMAIN Tail(loader.todo)
      PROVE  i + 1 \in DOMAIN loader.todo
                 /\ Tail(loader.todo)[i] = loader.todo[i + 1]
  BY <1>1, <1>2, <1>3, <1>4
<1>6. 1 \in DOMAIN loader.todo
  BY <1>1, <1>2, <1>4
<1> QED
  BY <1>2, <1>4, <1>5, <1>6 DEF IsFile, IsStatement, Statement

LEMMA KeysSequence ==
    ASSUME LoaderOK, loader.todo # <<>>, Statement.kind \in Kinds
    PROVE  /\ IsSequence(KeysOf(Statement))
           /\ KeysOf(Statement) # <<>> => Statement.kind \in KeyKinds
<1>1. CASE Statement.kind \in {"profile", "vhost", "acl", "pfxmap"}
  BY <1>1, HeadStatement DEF KeysOf, KeyKinds
<1>2. CASE Statement.kind = "auth"
  <2> DEFINE n == OrElse(Statement.profile, "default")
  <2>1. KeysOf(Statement) = <<n>>
    BY <1>2 DEF KeysOf
  <2>2. <<n>> \in [1 .. 1 -> {n}]
    OBVIOUS
  <2>3. IsSequence(<<n>>)
    BY <2>2, SeqIntro
  <2> QED
    BY <1>2, <2>1, <2>3 DEF KeyKinds
<1>3. CASE Statement.kind \notin KeyKinds
  <2>1. KeysOf(Statement) = <<>>
    BY <1>3 DEF KeysOf, KeyKinds
  <2> QED
    BY <2>1, EmptySeq DEF IsSequence
<1> QED
  BY <1>1, <1>2, <1>3 DEF KeyKinds

LEMMA InheritedShape ==
    ASSUME Layout, NEW k \in {"profile", "vhost"}, NEW name,
           name = "default" \/ Find(k, "default") # NULL
    PROVE  /\ Shape(k, Inherited(k, name)) /\ Inherited(k, name).name = name
           /\ Inherited(k, name).connections = 0
<1>1. CASE name = "default"
  BY <1>1, BlankFields DEF Inherited, Shape, Fields
<1>2. CASE name # "default"
  <2> DEFINE d == tables[k][Find(k, "default")]
  <2>1. Shape(k, d)
    BY <1>2, FindFacts DEF Layout, IsTable, Kinds
  <2>2. Inherited(k, name) = [d EXCEPT !.name = name, !.connections = 0]
    BY <1>2 DEF Inherited
  <2> HIDE DEF d
  <2>3. DOMAIN d = {"name", "conf", "connections"}
    BY <2>1 DEF Shape, Fields
  <2> QED
    BY <2>1, <2>2, <2>3 DEF Shape, Fields
<1> QED
  BY <1>1, <1>2

LEMMA OpenedShape ==
    ASSUME Layout, NEW s, s.kind \in Kinds, ~ StatementFails(s),
           NEW i, i = Find(s.kind, s.name)
    PROVE  Shape(s.kind, Opened(s, i)) /\ Opened(s, i).name = s.name
<1>1. CASE s.kind \in {"profile", "vhost"}
  <2>1. CASE i # NULL
    BY <1>1, <2>1, FindFacts DEF Opened, Layout, IsTable
  <2>2. CASE i = NULL
    <3>1. s.name = "default" \/ Find(s.kind, "default") # NULL
      BY <1>1, <2>2 DEF StatementFails
    <3> QED
      BY <1>1, <2>2, <3>1, InheritedShape DEF Opened
  <2> QED
    BY <2>1, <2>2
<1>2. CASE s.kind = "acl"
  BY <1>2 DEF Opened, OpenedAcl, Shape, Fields
<1>3. CASE s.kind = "auth"
  BY <1>3 DEF Opened, Shape, Fields
<1>4. CASE s.kind = "pfxmap"
  BY <1>4 DEF Opened, Shape, Fields
<1>5. CASE s.kind \notin KeyKinds
  BY <1>5 DEF Opened, Shape, Fields, KeyKinds
<1> QED
  BY <1>1, <1>2, <1>3, <1>4, <1>5 DEF KeyKinds

LEMMA StoredShape ==
    ASSUME NEW k \in KeyKinds, NEW e, Shape(k, e), NEW key
    PROVE  Shape(k, Stored(k, e, key)) /\ Stored(k, e, key).name = e.name
<1>1. CASE k \in {"profile", "vhost"}
  <2>1. DOMAIN e = {"name", "conf", "connections"}
    BY <1>1 DEF Shape, Fields
  <2>2. Stored(k, e, key) =
            [e EXCEPT !.conf =
                 [e.conf EXCEPT ![key.field] = Resolve(key.field, key.value)]]
    BY <1>1, <2>1 DEF Stored
  <2> QED
    BY <1>1, <2>1, <2>2 DEF Shape, Fields
<1>2. CASE k = "acl"
  BY <1>2 DEF Stored, Shape, Fields
<1>3. CASE k = "auth"
  BY <1>3 DEF Stored, Shape, Fields
<1>4. CASE k = "pfxmap"
  BY <1>4 DEF Stored, Shape, Fields
<1> QED
  BY <1>1, <1>2, <1>3, <1>4 DEF KeyKinds

-----------------------------------------------------------------------------
(* The steps of the listener.                                              *)

\* What Write leaves: the entry is e, in its table or in the draft.
LEMMA WriteStep ==
    ASSUME Layout, DOMAIN loader = LoaderFields,
           loader.todo # <<>>, NEW k \in Kinds, k = Statement.kind,
           NEW i \in 1 .. Len(tables[k]) + 1, NEW e, Shape(k, e),
           i \in DOMAIN tables[k] => e.name = tables[k][i].name,
           Write(k, i, e)
    PROVE  /\ Layout' /\ Grown
           /\ DOMAIN loader' = LoaderFields
           /\ loader'.at = "keys" /\ loader'.todo = loader.todo
           /\ loader'.file = loader.file /\ loader'.remote = loader.remote
           /\ loader'.entry = i
           /\ loader'.keys = IF loader.at = "read" THEN KeysOf(Statement)
                             ELSE Tail(loader.keys)
           /\ Statement' = Statement /\ Entry' = e
           /\ Len(tables'[k]) = Len(tables[k])
           /\ IsNew' <=> i \notin DOMAIN tables[k]
           /\ \A j \in DOMAIN tables[k] :
                  tables'[k][j] = IF j = i THEN e ELSE tables[k][j]
           /\ \A m \in Kinds \ {k} : tables'[m] = tables[m]
<1> DEFINE t == tables[k]
           u == [t EXCEPT ![i] = e]
<1>1. IsTable(k, t) /\ Len(t) \in Nat /\ DOMAIN t = 1 .. Len(t)
  BY TableFacts DEF Layout
<1>2. /\ DOMAIN loader' = LoaderFields
      /\ loader'.at = "keys" /\ loader'.todo = loader.todo
      /\ loader'.file = loader.file /\ loader'.remote = loader.remote
      /\ loader'.entry = i
      /\ loader'.keys = IF loader.at = "read" THEN KeysOf(Statement)
                        ELSE Tail(loader.keys)
      /\ loader'.draft = IF i <= Len(t) THEN NULL ELSE e
  BY DEF Write, LoaderFields
<1>3. Statement' = Statement
  BY <1>2 DEF Statement
<1>4. CASE i <= Len(t)
  <2>1. i \in DOMAIN t
    BY <1>1, <1>4
  <2>2. tables' = [tables EXCEPT ![k] = u]
    BY <1>4 DEF Write
  <2>3. IsTable(k, u) /\ Extends(t, u)
    BY <1>1, <2>1, EntryChange
  <2>4. Layout' /\ Grown
    BY <2>2, <2>3, TableChange
  <2>5. tables'[k] = u /\ \A m \in Kinds \ {k} : tables'[m] = tables[m]
    BY <2>2 DEF Layout
  <2>6. DOMAIN u = DOMAIN t /\ \A j \in DOMAIN t : u[j] = IF j = i THEN e ELSE t[j]
    BY <2>1
  <2>7. Len(u) = Len(t)
    BY <1>1, <2>3, <2>6, TableFacts
  <2>8. ~ IsNew'
    BY <1>1, <1>2, <1>3, <1>4, <2>5, <2>7 DEF IsNew
  <2>9. Entry' = e
    BY <1>2, <1>3, <2>1, <2>5, <2>6, <2>8 DEF Entry
  <2> QED
    BY <1>2, <1>3, <2>1, <2>4, <2>5, <2>6, <2>7, <2>8, <2>9
<1>5. CASE ~ i <= Len(t)
  <2>1. i \notin DOMAIN t
    BY <1>1, <1>5
  <2>2. tables' = tables
    BY <1>5 DEF Write
  <2>3. Layout' /\ Grown
    BY <2>2, NothingGrows
  <2>4. IsNew'
    BY <1>1, <1>2, <1>3, <1>5, <2>2 DEF IsNew
  <2>5. Entry' = e
    BY <1>2, <1>5, <2>4 DEF Entry
  <2>6. \A j \in DOMAIN t : j # i
    BY <2>1
  <2> QED
    BY <1>2, <1>3, <2>1, <2>2, <2>3, <2>4, <2>5, <2>6
<1> QED
  BY <1>4, <1>5

LEMMA FileJoin ==
    ASSUME NEW f, IsFile(f), NEW g, IsFile(g)
    PROVE  IsFile(f \o g)
<1>0. /\ IsSequence(f) /\ Len(f) \in Nat /\ DOMAIN f = 1 .. Len(f)
      /\ IsSequence(g) /\ Len(g) \in Nat /\ DOMAIN g = 1 .. Len(g)
  BY SeqFacts DEF IsFile
<1>1. /\ IsSequence(f \o g) /\ Len(f \o g) = Len(f) + Len(g)
      /\ \A i \in 1 .. Len(f) : (f \o g)[i] = f[i]
      /\ \A i \in 1 .. Len(g) : (f \o g)[Len(f) + i] = g[i]
  BY <1>0, SeqConcat
<1>2. DOMAIN (f \o g) = 1 .. Len(f) + Len(g)
  BY <1>1, SeqFacts
<1>3. ASSUME NEW i \in DOMAIN (f \o g)
      PROVE  \/ i \in DOMAIN f /\ (f \o g)[i] = f[i]
             \/ i - Len(f) \in DOMAIN g /\ (f \o g)[i] = g[i - Len(f)]
  <2>1. CASE i <= Len(f)
    BY <1>0, <1>1, <1>2, <2>1
  <2>2. CASE ~ i <= Len(f)
    <3>1. i - Len(f) \in 1 .. Len(g) /\ Len(f) + (i - Len(f)) = i
      BY <1>0, <1>1, <1>2, <2>2
    <3> QED
      BY <1>0, <1>1, <3>1
  <2> QED
    BY <2>1, <2>2
<1> QED
  BY <1>1, <1>3 DEF IsFile

LEMMA PrefixIntro ==
    ASSUME NEW j, NEW k, NEW t, IsTable(j, t), NEW u, IsTable(k, u), Extends(t, u)
    PROVE  IsPrefix(Names(t), Names(u))
<1> DEFINE n == Len(t)
           m == Len(u)
           p == Names(t)
           q == Names(u)
           S == {t[i].name : i \in 1 .. n} \cup {u[i].name : i \in 1 .. m}
<1>1. n \in Nat /\ DOMAIN t = 1 .. n /\ m \in Nat /\ DOMAIN u = 1 .. m /\ n <= m
  BY TableFacts DEF Extends
<1>2. p \in [1 .. n -> S] /\ q \in [1 .. m -> S]
  BY <1>1 DEF Names
<1>3. \A i \in 1 .. n : p[i] = q[i]
  BY <1>1 DEF Extends, Names
<1> HIDE DEF n, m, p, q, S
<1>4. Len(p) = n /\ Len(q) = m
  BY <1>1, <1>2, SeqIntro
<1>5. /\ SubSeq(p, 1, n) \in Seq(S) /\ SubSeq(q, 1, n) \in Seq(S)
      /\ Len(SubSeq(p, 1, n)) = n /\ Len(SubSeq(q, 1, n)) = n
      /\ \A i \in 1 .. n : SubSeq(p, 1, n)[i] = SubSeq(q, 1, n)[i]
  <2>1. \A i \in 1 .. n : p[i] \in S /\ q[i] \in S
    BY <1>1, <1>2
  <2>2. /\ SubSeq(p, 1, n) \in Seq(S)
        /\ Len(SubSeq(p, 1, n)) = IF 1 <= n THEN n - 1 + 1 ELSE 0
        /\ \A i \in 1 .. n - 1 + 1 : SubSeq(p, 1, n)[i] = p[1 + i - 1]
    BY <1>1, <2>1, SubSeqProperties
  <2>3. /\ SubSeq(q, 1, n) \in Seq(S)
        /\ Len(SubSeq(q, 1, n)) = IF 1 <= n THEN n - 1 + 1 ELSE 0
        /\ \A i \in 1 .. n - 1 + 1 : SubSeq(q, 1, n)[i] = q[1 + i - 1]
    BY <1>1, <2>1, SubSeqProperties
  <2>4. n - 1 + 1 = n /\ (IF 1 <= n THEN n - 1 + 1 ELSE 0) = n
    BY <1>1
  <2>5. \A i \in 1 .. n : 1 + i - 1 = i
    OBVIOUS
  <2> QED
    BY <1>3, <2>2, <2>3, <2>4, <2>5
<1>6. SubSeq(p, 1, n) = SubSeq(q, 1, n)
  BY <1>5, SeqEqual
<1> QED
  BY <1>1, <1>4, <1>6 DEF IsPrefix, p, q

LEMMA PrefixElim ==
    ASSUME NEW j, NEW k, NEW t, IsTable(j, t), NEW u, IsTable(k, u),
           IsPrefix(Names(t), Names(u))
    PROVE  Extends(t, u)
<1> DEFINE n == Len(t)
           m == Len(u)
           p == Names(t)
           q == Names(u)
           S == {t[i].name : i \in 1 .. n} \cup {u[i].name : i \in 1 .. m}
<1>1. n \in Nat /\ DOMAIN t = 1 .. n /\ m \in Nat /\ DOMAIN u = 1 .. m
  BY TableFacts
<1>2. p \in [1 .. n -> S] /\ q \in [1 .. m -> S]
  BY <1>1 DEF Names
<1>3. IsPrefix(p, q)
  OBVIOUS
<1>4. \A i \in 1 .. n : p[i] = t[i].name
  BY <1>1 DEF Names
<1>5. \A i \in 1 .. m : q[i] = u[i].name
  BY <1>1 DEF Names
<1> HIDE DEF n, m, p, q, S
<1>6. Len(p) = n /\ Len(q) = m
  BY <1>1, <1>2, SeqIntro
<1>7. n <= m /\ SubSeq(p, 1, n) = SubSeq(q, 1, n)
  BY <1>1, <1>3, <1>6 DEF IsPrefix
<1>8. ASSUME NEW i \in 1 .. n PROVE p[i] = q[i]
  <2>1. \A h \in 1 .. n : p[h] \in S /\ q[h] \in S
    BY <1>1, <1>2, <1>7
  <2>2. \A h \in 1 .. n - 1 + 1 : SubSeq(p, 1, n)[h] = p[1 + h - 1]
    BY <1>1, <2>1, SubSeqProperties
  <2>3. \A h \in 1 .. n - 1 + 1 : SubSeq(q, 1, n)[h] = q[1 + h - 1]
    BY <1>1, <2>1, SubSeqProperties
  <2>4. n - 1 + 1 = n /\ 1 + i - 1 = i
    BY <1>1
  <2>5. SubSeq(p, 1, n)[i] = p[1 + i - 1] /\ SubSeq(q, 1, n)[i] = q[1 + i - 1]
    BY <2>2, <2>3, <2>4
  <2> QED
    BY <1>7, <2>4, <2>5
<1>9. \A i \in 1 .. n : u[i].name = t[i].name
  BY <1>1, <1>4, <1>5, <1>7, <1>8
<1> QED
  BY <1>1, <1>7, <1>9 DEF Extends, n, m

\* Wildmats of the server: the table of wildmats is the only one to change.
OnlyWildmats == \A k \in Kinds \ {"wildmat"} : tables'[k] = tables[k]

LEMMA RemoteGrows ==
    ASSUME Layout, rconf_getwmats
    PROVE  Layout' /\ Grown /\ OnlyWildmats
<1>1. CASE UNCHANGED tables
  BY <1>1, NothingGrows DEF OnlyWildmats
<1>2. CASE \E w \in RemoteWildmats :
               /\ IsPrefix(Names(tables.wildmat), Names(w))
               /\ tables' = [tables EXCEPT !.wildmat = w]
  <2>1. PICK w \in RemoteWildmats :
                 /\ IsPrefix(Names(tables.wildmat), Names(w))
                 /\ tables' = [tables EXCEPT !.wildmat = w]
    BY <1>2
  <2>2. "wildmat" \in Kinds /\ IsTable("wildmat", tables.wildmat)
    BY DEF Kinds, Layout
  <2>3. IsTable("wildmat", w)
    BY RemoteAssumption DEF IsTable, Shape, Fields
  <2>4. Extends(tables.wildmat, w)
    BY <2>1, <2>2, <2>3, PrefixElim
  <2>5. Layout' /\ Grown
    BY <2>1, <2>2, <2>3, <2>4, TableChange
  <2>6. OnlyWildmats
    BY <2>1 DEF Layout, OnlyWildmats
  <2> QED
    BY <2>5, <2>6
<1> QED
  BY <1>1, <1>2 DEF rconf_getwmats

LEMMA ReloadChanges ==
    ASSUME Layout, NEW remote, reload_access_conf(remote)
    PROVE  Layout' /\ Grown /\ OnlyWildmats
<1>1. CASE UNCHANGED tables
  BY <1>1, NothingGrows DEF OnlyWildmats
<1>2. CASE rconf_getwmats
  BY <1>2, RemoteGrows
<1> QED
  BY <1>1, <1>2 DEF reload_access_conf

LEMMA ReloadStep ==
    ASSUME Inv, NEW remote, reload_access_conf(remote)
    PROVE  Inv' /\ Grown
<1>1. Layout' /\ Grown
  BY ReloadChanges DEF Inv
<1>2. IsFile(disk)
  BY FileAssumption DEF Inv
<1> QED
  BY <1>1, <1>2 DEF Inv, LoaderOK, LoaderFields, reload_access_conf

LEMMA ReadIncludeStep ==
    ASSUME Inv, ReadInclude
    PROVE  Inv' /\ Grown
<1>1. Layout' /\ Grown
  BY NothingGrows DEF Inv, ReadInclude
<1>2. IsFile(Includes[Statement.name])
  <2>1. Includes[Statement.name] \in Range(Includes)
    BY DEF ReadInclude, StatementFails, Range, Kinds
  <2> QED
    BY <2>1, FileAssumption
<1>3. IsFile(Includes[Statement.name] \o Tail(loader.todo))
  BY <1>2, FileJoin, HeadStatement DEF Inv, ReadInclude
<1> QED
  BY <1>1, <1>3 DEF Inv, LoaderOK, LoaderFields, ReadInclude

LEMMA SkipWildmatStep ==
    ASSUME Inv, SkipWildmat
    PROVE  Inv' /\ Grown
<1>1. Layout' /\ Grown
  BY NothingGrows DEF Inv, SkipWildmat
<1>2. IsFile(Tail(loader.todo))
  BY HeadStatement DEF Inv, SkipWildmat
<1> QED
  BY <1>1, <1>2 DEF Inv, LoaderOK, LoaderFields, SkipWildmat

LEMMA ReadStatementStep ==
    ASSUME Inv, ReadStatement
    PROVE  Inv' /\ Grown
<1> DEFINE k == Statement.kind
           found == Find(k, Statement.name)
           i == IF found # NULL THEN found ELSE Len(tables[k]) + 1
           e == Opened(Statement, found)
<1>1. /\ loader.at = "read" /\ loader.todo # <<>> /\ k \in Kinds
      /\ ~ StatementFails(Statement) /\ Write(k, i, e)
      /\ disk' = disk
  BY DEF ReadStatement
<1>2. /\ Layout /\ DOMAIN loader = LoaderFields /\ IsFile(loader.todo)
      /\ LoaderOK
  BY DEF Inv, LoaderOK
<1>3. Shape(k, e) /\ e.name = Statement.name
  BY <1>1, <1>2, OpenedShape
<1>4. \/ /\ found = NULL /\ i = Len(tables[k]) + 1
         /\ \A j \in DOMAIN tables[k] : tables[k][j].name # Statement.name
      \/ i \in DOMAIN tables[k] /\ tables[k][i].name = Statement.name
  BY <1>1, <1>2, FindFacts
<1>5. Len(tables[k]) \in Nat /\ DOMAIN tables[k] = 1 .. Len(tables[k])
  BY <1>1, <1>2, TableFacts DEF Layout
<1>6. i \in 1 .. Len(tables[k]) + 1
  BY <1>4, <1>5
<1>7. IsSequence(KeysOf(Statement)) /\ (KeysOf(Statement) # <<>> => k \in KeyKinds)
  BY <1>1, <1>2, KeysSequence
<1> HIDE DEF k, found, i, e
<1>8. i \in DOMAIN tables[k] => e.name = tables[k][i].name
  BY <1>3, <1>4, <1>5
<1>9. /\ Layout' /\ Grown
      /\ DOMAIN loader' = LoaderFields
      /\ loader'.at = "keys" /\ loader'.todo = loader.todo
      /\ loader'.entry = i /\ loader'.keys = KeysOf(Statement)
      /\ Statement' = Statement /\ Entry' = e
      /\ Len(tables'[k]) = Len(tables[k])
      /\ IsNew' <=> i \notin DOMAIN tables[k]
      /\ \A j \in DOMAIN tables[k] :
             tables'[k][j] = IF j = i THEN e ELSE tables[k][j]
  BY <1>1, <1>2, <1>3, <1>6, <1>8, WriteStep DEF k
<1>10. DOMAIN tables'[k] = DOMAIN tables[k]
  BY <1>1, <1>5, <1>9, TableFacts DEF Layout
<1>11. Filling'
  BY <1>1, <1>3, <1>4, <1>5, <1>6, <1>7, <1>9, <1>10 DEF Filling, k
<1> QED
  BY <1>1, <1>2, <1>9, <1>11 DEF Inv, LoaderOK

LEMMA ReadKeyStep ==
    ASSUME Inv, ReadKey
    PROVE  Inv' /\ Grown
<1> DEFINE k == Statement.kind
           i == loader.entry
           e == Stored(k, Entry, Head(loader.keys))
<1>1. /\ loader.at = "keys" /\ loader.keys # <<>> /\ Write(k, i, e)
      /\ disk' = disk
  BY DEF ReadKey
<1>2. /\ Layout /\ DOMAIN loader = LoaderFields /\ IsFile(loader.todo)
      /\ Filling
  BY <1>1 DEF Inv, LoaderOK
<1>3. /\ k \in KeyKinds /\ k \in Kinds /\ Shape(k, Entry)
      /\ Entry.name = Statement.name /\ i \in 1 .. Len(tables[k]) + 1
      /\ loader.todo # <<>> /\ IsSequence(loader.keys)
  BY <1>1, <1>2 DEF Filling
<1>4. Shape(k, e) /\ e.name = Statement.name
  BY <1>3, StoredShape
<1>5. Len(tables[k]) \in Nat /\ DOMAIN tables[k] = 1 .. Len(tables[k])
  BY <1>2, <1>3, TableFacts DEF Layout
<1>6. IsNew <=> i \notin DOMAIN tables[k]
  BY <1>3, <1>5 DEF IsNew
<1>7. i \in DOMAIN tables[k] => Entry = tables[k][i]
  BY <1>6 DEF Entry
<1>8. IsSequence(Tail(loader.keys))
  BY <1>1, <1>3, SeqTail
<1>9. IsNew => \A j \in DOMAIN tables[k] : tables[k][j].name # Statement.name
  BY <1>2 DEF Filling
<1> HIDE DEF k, i, e
<1>10. /\ Layout' /\ Grown
       /\ DOMAIN loader' = LoaderFields
       /\ loader'.at = "keys" /\ loader'.todo = loader.todo
       /\ loader'.entry = i /\ loader'.keys = Tail(loader.keys)
       /\ Statement' = Statement /\ Entry' = e
       /\ Len(tables'[k]) = Len(tables[k])
       /\ IsNew' <=> i \notin DOMAIN tables[k]
       /\ \A j \in DOMAIN tables[k] :
              tables'[k][j] = IF j = i THEN e ELSE tables[k][j]
  <2>1. i \in DOMAIN tables[k] => e.name = tables[k][i].name
    BY <1>3, <1>4, <1>7
  <2>2. k = Statement.kind
    BY DEF k
  <2> QED
    BY <1>1, <1>2, <1>3, <1>4, <2>1, <2>2, WriteStep
<1>11. DOMAIN tables'[k] = DOMAIN tables[k]
  BY <1>3, <1>5, <1>10, TableFacts DEF Layout
<1>12. Filling'
  BY <1>3, <1>4, <1>5, <1>6, <1>8, <1>9, <1>10, <1>11 DEF Filling, k
<1> QED
  BY <1>1, <1>2, <1>10, <1>12 DEF Inv, LoaderOK

LEMMA EndStatementStep ==
    ASSUME Inv, EndStatement
    PROVE  Inv' /\ Grown
<1> DEFINE k == Statement.kind
<1>1. /\ Layout /\ Filling /\ LoaderOK
  BY DEF Inv, LoaderOK, EndStatement
<1>2. IsFile(Tail(loader.todo))
  BY <1>1, HeadStatement DEF Filling
<1>3. /\ DOMAIN loader' = LoaderFields /\ loader'.at = "read"
      /\ loader'.todo = Tail(loader.todo) /\ disk' = disk
  BY <1>1 DEF EndStatement, LoaderOK, LoaderFields
<1>4. Layout' /\ Grown
  <2>1. CASE IsNew
    <3>1. k \in Kinds /\ IsTable(k, tables[k])
      BY <1>1 DEF Layout, Filling
    <3>2. /\ Shape(k, loader.draft)
          /\ \A i \in DOMAIN tables[k] : tables[k][i].name # loader.draft.name
      BY <1>1, <2>1 DEF Filling, Entry
    <3>3. tables' = [tables EXCEPT ![k] = Append(tables[k], loader.draft)]
      BY <1>1, <2>1 DEF EndStatement
    <3> HIDE DEF k
    <3>4. /\ IsTable(k, Append(tables[k], loader.draft))
          /\ Extends(tables[k], Append(tables[k], loader.draft))
      BY <3>1, <3>2, EntryAdded
    <3> QED
      BY <1>1, <3>1, <3>3, <3>4, TableChange
  <2>2. CASE ~ IsNew
    BY <1>1, <2>2, NothingGrows DEF EndStatement
  <2> QED
    BY <2>1, <2>2
<1> QED
  BY <1>2, <1>3, <1>4 DEF Inv, LoaderOK

LEMMA ListenerIdles ==
    ASSUME Inv, DOMAIN loader' = LoaderFields,
           loader'.at \in {"select", "read", "dead"},
           loader'.todo \in {loader.todo, <<>>}, UNCHANGED <<disk, tables>>
    PROVE  Inv' /\ Grown
<1>1. Layout' /\ Grown
  BY NothingGrows DEF Inv
<1>2. IsFile(<<>>)
  <2>1. IsSequence(<<>>)
    BY EmptySeq DEF IsSequence
  <2> QED
    BY <2>1 DEF IsFile
<1>3. IsFile(loader'.todo)
  BY <1>2 DEF Inv, LoaderOK
<1> QED
  BY <1>1, <1>3 DEF Inv, LoaderOK

LEMMA OtherListenerSteps ==
    ASSUME Inv, \/ load_access_conf \/ die
                \/ \E s \in Sessions, a \in Clients : access_check(s, a)
    PROVE  Inv' /\ Grown
<1>1. DOMAIN loader = LoaderFields
  BY DEF Inv, LoaderOK
<1>2. CASE load_access_conf
  <2>1. loader' = [loader EXCEPT !.at = "select"] /\ UNCHANGED <<disk, tables>>
    BY <1>2 DEF load_access_conf
  <2>2. /\ DOMAIN loader' = LoaderFields /\ loader'.at = "select"
        /\ loader'.todo = loader.todo
    BY <1>1, <2>1 DEF LoaderFields
  <2> QED
    BY <2>1, <2>2, ListenerIdles
<1>3. CASE die
  <2>1. /\ loader' = [loader EXCEPT !.at = "dead", !.todo = <<>>, !.keys = <<>>,
                                    !.draft = NULL]
        /\ UNCHANGED <<disk, tables>>
    BY <1>3 DEF die
  <2>2. /\ DOMAIN loader' = LoaderFields /\ loader'.at = "dead"
        /\ loader'.todo = <<>>
    BY <1>1, <2>1 DEF LoaderFields
  <2> QED
    BY <2>1, <2>2, ListenerIdles
<1>4. CASE \E s \in Sessions, a \in Clients : access_check(s, a)
  <2>1. /\ loader.at = "select" /\ UNCHANGED <<disk, tables>>
        /\ loader' = loader \/ loader' = [loader EXCEPT !.at = "dead"]
    BY <1>4 DEF access_check
  <2>2. /\ DOMAIN loader' = LoaderFields /\ loader'.at \in {"select", "dead"}
        /\ loader'.todo = loader.todo
    BY <1>1, <2>1 DEF LoaderFields
  <2> QED
    BY <2>1, <2>2, ListenerIdles
<1> QED
  BY <1>2, <1>3, <1>4

-----------------------------------------------------------------------------
(* The steps of the children.                                              *)

\* An entry of the table of profiles with another counter.
Counter(t, p, n) == [t EXCEPT ![p].connections = n]

LEMMA CounterChange ==
    ASSUME NEW t, IsTable("profile", t), NEW p \in DOMAIN t, NEW n
    PROVE  /\ IsTable("profile", Counter(t, p, n)) /\ Len(Counter(t, p, n)) = Len(t)
           /\ DOMAIN Counter(t, p, n) = DOMAIN t
           /\ \A i \in DOMAIN t :
                  /\ DOMAIN Counter(t, p, n)[i] = DOMAIN t[i]
                  /\ Counter(t, p, n)[i].name = t[i].name
                  /\ Counter(t, p, n)[i].conf = t[i].conf
                  /\ Counter(t, p, n)[i].connections =
                         IF i = p THEN n ELSE t[i].connections
<1> DEFINE e == [t[p] EXCEPT !.connections = n]
           u == [t EXCEPT ![p] = e]
<1>1. Counter(t, p, n) = u
  BY DEF Counter
<1>2. \A i \in DOMAIN t : DOMAIN t[i] = {"name", "conf", "connections"}
  BY DEF IsTable, Shape, Fields
<1>3. /\ DOMAIN e = DOMAIN t[p] /\ e.name = t[p].name /\ e.conf = t[p].conf
      /\ e.connections = n
  BY <1>2
<1>4. Shape("profile", e)
  BY <1>2, <1>3 DEF IsTable, Shape
<1>5. DOMAIN u = DOMAIN t /\ \A i \in DOMAIN t : u[i] = IF i = p THEN e ELSE t[i]
  OBVIOUS
<1> HIDE DEF e
<1>6. IsTable("profile", u) /\ Extends(t, u)
  BY <1>3, <1>4, EntryChange
<1> HIDE DEF u
<1>7. Len(u) = Len(t)
  BY <1>5, <1>6, TableFacts
<1> QED
  BY <1>1, <1>3, <1>5, <1>6, <1>7

LEMMA CounterNowhere ==
    ASSUME NEW t, IsTable("profile", t), NEW p, p \notin DOMAIN t, NEW n
    PROVE  Counter(t, p, n) = t
<1>1. t = [i \in DOMAIN t |-> t[i]]
  BY SeqFacts DEF IsTable
<1> QED
  BY <1>1 DEF Counter

\* What holds of the table of profiles t after counting.
SameProfiles(t, u) ==
    /\ IsTable("profile", u) /\ Len(u) = Len(t) /\ DOMAIN u = DOMAIN t
    /\ \A i \in DOMAIN t :
           DOMAIN u[i] = DOMAIN t[i] /\ u[i].name = t[i].name /\ u[i].conf = t[i].conf

LEMMA CounterSame ==
    ASSUME NEW t, IsTable("profile", t), NEW p, NEW n
    PROVE  SameProfiles(t, Counter(t, p, n))
<1>1. CASE p \in DOMAIN t
  BY <1>1, CounterChange DEF SameProfiles
<1>2. CASE p \notin DOMAIN t
  BY <1>2, CounterNowhere DEF SameProfiles
<1> QED
  BY <1>1, <1>2

LEMMA RecountStep ==
    ASSUME Layout, NEW t, tables' = [tables EXCEPT !.profile = t],
           SameProfiles(tables.profile, t)
    PROVE  Recounted
<1>1. DOMAIN tables' = Kinds /\ "profile" \in Kinds
  BY DEF Layout, Kinds
<1>2. tables'.profile = t /\ \A k \in Kinds \ {"profile"} : tables'[k] = tables[k]
  BY <1>1 DEF Layout
<1> QED
  BY <1>1, <1>2 DEF Recounted, SameProfiles, IsTable

LEMMA ChildRecounts ==
    ASSUME Layout, NEW s \in Sessions, Child(s)
    PROVE  (UNCHANGED tables \/ Recounted) /\ UNCHANGED <<disk, loader>>
<1> DEFINE t == tables.profile
<1>1. IsTable("profile", t) /\ "profile" \in DOMAIN tables
  BY DEF Layout, Kinds
<1>2. CASE \/ run_child(s) \/ cmdauthinfo_refused(s)
           \/ \E u \in Users : FindModule(s, u)
  BY <1>2 DEF run_child, cmdauthinfo_refused, FindModule
<1>3. CASE Register(s)
  <2>1. PICK p, n : tables' = [tables EXCEPT !.profile = Counter(t, p, n)]
    BY <1>1, <1>3 DEF Register, Counter
  <2>2. SameProfiles(t, Counter(t, p, n))
    BY <1>1, CounterSame
  <2> QED
    BY <1>3, <2>1, <2>2, RecountStep DEF Register
<1>4. CASE close_child(s)
  <2>1. PICK p, n : tables' = [tables EXCEPT !.profile = Counter(t, p, n)]
    BY <1>1, <1>4 DEF close_child, Dropped, Counter
  <2>2. SameProfiles(t, Counter(t, p, n))
    BY <1>1, CounterSame
  <2> QED
    BY <1>4, <2>1, <2>2, RecountStep DEF close_child
<1>5. CASE cmdauthinfo(s)
  <2>1. CASE tables' = tables
    BY <1>5, <2>1 DEF cmdauthinfo
  <2>2. CASE tables' # tables
    <3>1. PICK p, n : Dropped(s) = [tables EXCEPT !.profile = Counter(t, p, n)]
      BY <1>1 DEF Dropped, Counter
    <3> DEFINE u == Counter(t, p, n)
    <3>2. Dropped(s).profile = u
      BY <1>1, <3>1
    <3>3. PICK q, m : tables' = [Dropped(s) EXCEPT !.profile = Counter(u, q, m)]
      BY <1>1, <1>5, <2>2, <3>2 DEF cmdauthinfo, Counter
    <3>4. tables' = [tables EXCEPT !.profile = Counter(u, q, m)]
      BY <3>1, <3>3
    <3>5. SameProfiles(t, u)
      BY <1>1, CounterSame
    <3>6. SameProfiles(u, Counter(u, q, m))
      BY <3>5, CounterSame DEF SameProfiles
    <3>7. SameProfiles(t, Counter(u, q, m))
      BY <3>5, <3>6 DEF SameProfiles
    <3> QED
      BY <1>5, <3>4, <3>7, RecountStep DEF cmdauthinfo
  <2> QED
    BY <2>1, <2>2
<1> QED
  BY <1>2, <1>3, <1>4, <1>5 DEF Child
LEMMA ChildStep ==
    ASSUME Inv, NEW s \in Sessions, Child(s)
    PROVE  Inv' /\ Grown
<1>1. Layout /\ (UNCHANGED tables \/ Recounted) /\ UNCHANGED <<disk, loader>>
  BY ChildRecounts DEF Inv
<1>2. Layout' /\ Grown
  BY <1>1, NothingGrows, RecountedGrows
<1>3. ASSUME loader.at = "keys" PROVE Filling'
  <2> DEFINE k == Statement.kind
  <2>1. Filling /\ Statement' = Statement /\ k \in Kinds
    BY <1>1, <1>3 DEF Inv, LoaderOK, Filling, Statement
  <2>2. CASE UNCHANGED tables
    BY <1>1, <2>1, <2>2 DEF Filling, Entry, IsNew
  <2>3. CASE Recounted
    <3>1. /\ Len(tables'[k]) = Len(tables[k])
          /\ DOMAIN tables'[k] = DOMAIN tables[k]
          /\ \A i \in DOMAIN tables[k] : tables'[k][i].name = tables[k][i].name
      <4>1. CASE k # "profile"
        BY <2>1, <2>3, <4>1 DEF Recounted
      <4>2. CASE k = "profile"
        <5>1. DOMAIN tables'.profile = DOMAIN tables.profile
          BY <1>1, <2>3, SeqFacts DEF Recounted, Layout, IsTable, Kinds
        <5> QED
          BY <2>3, <4>2, <5>1 DEF Recounted
      <4> QED
        BY <4>1, <4>2
    <3>2. IsNew' = IsNew
      BY <1>1, <2>1, <3>1 DEF IsNew
    <3>3. /\ IsTable(k, tables[k]) /\ IsTable(k, tables'[k])
          /\ DOMAIN tables[k] = 1 .. Len(tables[k]) /\ Len(tables[k]) \in Nat
      BY <1>1, <1>2, <2>1, TableFacts DEF Layout
    <3>4. Shape(k, Entry') /\ Entry'.name = Entry.name
      <4>1. CASE IsNew
        BY <1>1, <2>1, <3>2, <4>1 DEF Entry, Filling
      <4>2. CASE ~ IsNew
        <5>1. loader.entry \in DOMAIN tables[k]
          BY <2>1, <3>3, <4>2 DEF IsNew, Filling
        <5> QED
          BY <1>1, <2>1, <3>1, <3>2, <3>3, <4>2, <5>1 DEF Entry, IsTable
      <4> QED
        BY <4>1, <4>2
    <3> QED
      BY <1>1, <2>1, <3>1, <3>2, <3>4 DEF Filling
  <2> QED
    BY <1>1, <2>2, <2>3
<1> QED
  BY <1>1, <1>2, <1>3 DEF Inv, LoaderOK

-----------------------------------------------------------------------------
(* Names.                                                                  *)

LEMMA InitInv == Init => Inv
<1> SUFFICES ASSUME Init PROVE Inv
  OBVIOUS
<1>1. IsSequence(<<>>) /\ DOMAIN <<>> = {}
  BY EmptySeq DEF IsSequence
<1>2. IsFile(<<>>)
  BY <1>1 DEF IsFile
<1>3. \A k \in Kinds : IsTable(k, <<>>)
  BY <1>1 DEF IsTable
<1> QED
  BY <1>2, <1>3 DEF Init, Inv, Layout, LoaderOK, LoaderFields

LEMMA NextInv == Inv /\ [Next]_vars => Inv' /\ Grown
<1> SUFFICES ASSUME Inv, [Next]_vars PROVE Inv' /\ Grown
  OBVIOUS
<1>1. CASE Listener
  BY <1>1, ReloadStep, ReadIncludeStep, SkipWildmatStep, ReadStatementStep,
     ReadKeyStep, EndStatementStep, OtherListenerSteps DEF Listener
<1>2. CASE \E s \in Sessions : Child(s)
  BY <1>2, ChildStep
<1>3. ASSUME UNCHANGED <<loader, tables>>, disk' \in Files
      PROVE  Inv' /\ Grown
  <2>1. Layout' /\ Grown
    BY <1>3, NothingGrows DEF Inv
  <2>2. Filling => Filling'
    BY <1>3 DEF Filling, Entry, IsNew, Statement
  <2> QED
    BY <1>3, <2>1, <2>2 DEF Inv, LoaderOK
<1>4. CASE \E f \in Files : EditFile(f)
  BY <1>3, <1>4 DEF EditFile
<1>5. CASE UNCHANGED vars
  BY <1>3, <1>5 DEF vars, Inv
<1> QED
  BY <1>1, <1>2, <1>4, <1>5 DEF Next

LEMMA InvHolds == Spec => []Inv
  BY InitInv, NextInv, PTL DEF Spec

\* However often access.conf is read, whatever is in it, and at whatever point
\* the parser dies: no table has two entries of one name.
THEOREM UniqueNames == Spec => []NamesUnique
<1>1. Inv => NamesUnique
  BY DEF Inv, Layout, IsTable, NamesUnique
<1> QED
  BY <1>1, InvHolds, PTL

\* No step moves, renames or removes an entry: a pointer that a session took
\* before a reload means the same entry during it and after it.
THEOREM StableEntries == Spec => EntriesStable
<1>1. ASSUME Inv, Inv', Grown
      PROVE  \A k \in Kinds : IsPrefix(Names(tables[k]), Names(tables[k])')
  <2>1. ASSUME NEW k \in Kinds
        PROVE  IsPrefix(Names(tables[k]), Names(tables'[k]))
    BY <1>1, <2>1, PrefixIntro DEF Inv, Layout, Grown
  <2> QED
    BY <2>1 DEF Names
<1>2. Inv /\ Inv' /\ [Next]_vars =>
          [\A k \in Kinds : IsPrefix(Names(tables[k]), Names(tables[k])')]_vars
  BY <1>1, NextInv
<1>3. Spec => [][\A k \in Kinds : IsPrefix(Names(tables[k]), Names(tables[k])')]_vars
  BY <1>2, InvHolds, PTL DEF Spec
<1> QED
  BY <1>3 DEF EntriesStable

-----------------------------------------------------------------------------
(* References: what an entry says of other tables is there.                *)

IsLayout(T) == DOMAIN T = Kinds /\ \A k \in Kinds : IsTable(k, T[k])

EntryRefs(T, k, e) ==
    /\ k = "acl" => e.profile \in 0 .. Len(T.profile)
    /\ k = "auth" => /\ e.alias \in DOMAIN T.alias
                     /\ e.profile \in 0 .. Len(T.profile)
    /\ k = "profile" =>
           /\ e.conf.ReadPat = "" \/ Named(T.wildmat, e.conf.ReadPat) # NULL
           /\ e.conf.Accounting \in 0 .. Len(T.alias)
           /\ e.conf.PrefixMap \in 0 .. Len(T.pfxmap)
           /\ e.conf.FailProfile \in 0 .. Len(T.profile)

Refs ==
    \A k \in Kinds : \A i \in DOMAIN tables[k] :
        /\ EntryRefs(tables, k, tables[k][i])
        /\ k = "auth" => tables[k][i].profile # NULL

\* No other profile exists before the default one.
DefaultFirst ==
    DOMAIN tables.profile # {} => Find("profile", "default") # NULL

\* The entry being filled, in its table or not yet.
Draft ==
    loader.at = "keys" =>
        LET k == Statement.kind
            p == OrElse(Statement.profile, "default")
        IN  /\ EntryRefs(tables, k, Entry)
            /\ k = "acl" /\ DOMAIN tables.profile # {} => Entry.profile # NULL
            /\ k = "auth" =>
                   IF loader.keys = <<>> THEN Entry.profile # NULL
                   ELSE loader.keys = <<p>> /\ Find("profile", p) # NULL
            /\ k = "profile" /\ Statement.name # "default" =>
                   Find("profile", "default") # NULL
            /\ k = "profile" /\ IsNew => Entry.connections = 0

SessOK ==
    /\ sess \in [Sessions -> [at : Places, addr : Addresses,
                              acl : 0 .. Len(tables.acl),
                              profile : 0 .. Len(tables.profile),
                              auth : 0 .. Len(tables.auth)]]
    /\ \A s \in Sessions :
           /\ sess[s].at # "none" =>
                  sess[s].acl # NULL /\ tables.acl[sess[s].acl].profile # NULL
           /\ sess[s].at \notin {"none", "forked"} => sess[s].profile # NULL
           /\ sess[s].at = "module" => sess[s].auth # NULL

RefInv ==
    /\ Inv /\ Refs /\ DefaultFirst /\ Draft /\ SessOK /\ ConnectionsKept

LEMMA LayoutIs == (Layout <=> IsLayout(tables)) /\ (Layout' <=> IsLayout(tables'))
  BY DEF Layout, IsLayout

LEMMA RefsStay ==
    ASSUME NEW T, IsLayout(T), NEW U, IsLayout(U),
           \A k \in Kinds : Extends(T[k], U[k]),
           NEW k, NEW e, EntryRefs(T, k, e)
    PROVE  EntryRefs(U, k, e)
<1>1. \A j \in Kinds : /\ Len(T[j]) \in Nat /\ DOMAIN T[j] = 1 .. Len(T[j])
                       /\ Len(U[j]) \in Nat /\ DOMAIN U[j] = 1 .. Len(U[j])
                       /\ Len(T[j]) <= Len(U[j])
  BY TableFacts DEF IsLayout, Extends
<1>2. {"acl", "auth", "profile", "alias", "pfxmap", "wildmat"} \subseteq Kinds
  BY DEF Kinds
<1>3. /\ 0 .. Len(T.profile) \subseteq 0 .. Len(U.profile)
      /\ 0 .. Len(T.alias) \subseteq 0 .. Len(U.alias)
      /\ 0 .. Len(T.pfxmap) \subseteq 0 .. Len(U.pfxmap)
      /\ DOMAIN T.alias \subseteq DOMAIN U.alias
  BY <1>1, <1>2
<1>4. k = "acl" => e.profile \in 0 .. Len(U.profile)
  BY <1>3 DEF EntryRefs
<1>5. k = "auth" => e.alias \in DOMAIN U.alias /\ e.profile \in 0 .. Len(U.profile)
  BY <1>3 DEF EntryRefs
<1>6. ASSUME k = "profile"
      PROVE  e.conf.ReadPat = "" \/ Named(U.wildmat, e.conf.ReadPat) # NULL
  <2>1. CASE Named(T.wildmat, e.conf.ReadPat) # NULL
    <3>1. /\ IsTable("wildmat", T.wildmat) /\ IsTable("wildmat", U.wildmat)
          /\ Extends(T.wildmat, U.wildmat)
      BY <1>2 DEF IsLayout
    <3> DEFINE pat == e.conf.ReadPat
               t == T.wildmat
               u == U.wildmat
    <3>2. Named(t, pat) # NULL
      BY <2>1
    <3> HIDE DEF pat, t, u
    <3>3. Named(u, pat) = Named(t, pat)
      BY <3>1, <3>2, NamedStays DEF t, u
    <3> QED
      BY <3>2, <3>3 DEF pat, t, u
  <2> QED
    BY <1>6, <2>1 DEF EntryRefs
<1>7. k = "profile" => /\ e.conf.Accounting \in 0 .. Len(U.alias)
                       /\ e.conf.PrefixMap \in 0 .. Len(U.pfxmap)
                       /\ e.conf.FailProfile \in 0 .. Len(U.profile)
  BY <1>3 DEF EntryRefs
<1> QED
  BY <1>4, <1>5, <1>6, <1>7 DEF EntryRefs

LEMMA RefsKept ==
    ASSUME Layout, Layout', Grown, NEW k, NEW e, EntryRefs(tables, k, e)
    PROVE  EntryRefs(tables', k, e)
  BY LayoutIs, RefsStay DEF Grown

LEMMA Lengths ==
    ASSUME Layout, Layout', Grown
    PROVE  \A k \in Kinds :
               /\ Len(tables[k]) \in Nat /\ DOMAIN tables[k] = 1 .. Len(tables[k])
               /\ Len(tables'[k]) \in Nat
               /\ DOMAIN tables'[k] = 1 .. Len(tables'[k])
               /\ Len(tables[k]) <= Len(tables'[k])
  BY TableFacts DEF Layout, Grown, Extends

-----------------------------------------------------------------------------
(* A table changes: at most one entry is written or added.                 *)

Rewritten(k, i, e) ==
    /\ \A m \in Kinds \ {k} : tables'[m] = tables[m]
    /\ DOMAIN tables'[k] = DOMAIN tables[k] \cup {i}
    /\ \A j \in DOMAIN tables'[k] :
           tables'[k][j] = IF j = i THEN e ELSE tables[k][j]

\* What the entry has to be for the references and counters to survive it.
Sound(k, i, e) ==
    /\ EntryRefs(tables, k, e)
    /\ k = "auth" => e.profile # NULL
    /\ k = "acl" /\ DOMAIN tables.profile # {} => e.profile # NULL
    /\ k = "profile" =>
           /\ e.name = "default" \/ Find("profile", "default") # NULL
           /\ e.connections = IF i \in DOMAIN tables.profile
                              THEN tables.profile[i].connections ELSE 0

LEMMA RewrittenKeeps ==
    ASSUME RefInv, Layout', Grown, NEW k \in Kinds, NEW i, NEW e,
           Rewritten(k, i, e), Sound(k, i, e), UNCHANGED sess
    PROVE  Refs' /\ DefaultFirst' /\ SessOK' /\ ConnectionsKept'
<1>1. Layout /\ Refs /\ DefaultFirst /\ SessOK /\ ConnectionsKept
  BY DEF RefInv, Inv
<1>2. \A m \in Kinds :
          /\ Len(tables[m]) \in Nat /\ DOMAIN tables[m] = 1 .. Len(tables[m])
          /\ Len(tables'[m]) \in Nat /\ DOMAIN tables'[m] = 1 .. Len(tables'[m])
          /\ Len(tables[m]) <= Len(tables'[m])
  BY <1>1, Lengths
<1>3. {"acl", "auth", "profile"} \subseteq Kinds
  BY DEF Kinds
<1>4. Refs'
  <2> SUFFICES ASSUME NEW m \in Kinds, NEW j \in DOMAIN tables'[m]
               PROVE  /\ EntryRefs(tables', m, tables'[m][j])
                      /\ m = "auth" => tables'[m][j].profile # NULL
    BY DEF Refs, EntryRefs, Named
  <2>1. CASE m = k /\ j = i
    BY <1>1, <2>1, RefsKept DEF Rewritten, Sound
  <2>2. CASE ~ (m = k /\ j = i)
    <3>1. j \in DOMAIN tables[m] /\ tables'[m][j] = tables[m][j]
      BY <2>2 DEF Rewritten
    <3> QED
      BY <1>1, <3>1, RefsKept DEF Refs
  <2> QED
    BY <2>1, <2>2
<1>5. DefaultFirst'
  <2>1. CASE Find("profile", "default") # NULL
    BY <1>1, <1>3, <2>1, FindStays DEF DefaultFirst
  <2>2. CASE Find("profile", "default") = NULL /\ k = "profile"
    <3>1. i \in DOMAIN tables'.profile /\ tables'.profile[i].name = "default"
      BY <2>2 DEF Rewritten, Sound
    <3>2. IsTable("profile", tables'.profile)
      BY <1>3 DEF Layout
    <3>3. Named(tables'.profile, "default") # NULL
      BY <3>1, <3>2, NamedFacts
    <3> QED
      BY <3>3, FindIsNamed DEF DefaultFirst
  <2>3. CASE Find("profile", "default") = NULL /\ k # "profile"
    BY <1>1, <1>3, <2>3 DEF Rewritten, DefaultFirst, Find
  <2> QED
    BY <2>1, <2>2, <2>3
<1>6. SessOK'
  <2>1. sess' \in [Sessions -> [at : Places, addr : Addresses,
                                acl : 0 .. Len(tables'.acl),
                                profile : 0 .. Len(tables'.profile),
                                auth : 0 .. Len(tables'.auth)]]
    <3>1. /\ 0 .. Len(tables.acl) \subseteq 0 .. Len(tables'.acl)
          /\ 0 .. Len(tables.profile) \subseteq 0 .. Len(tables'.profile)
          /\ 0 .. Len(tables.auth) \subseteq 0 .. Len(tables'.auth)
      BY <1>2, <1>3
    <3> QED
      BY <1>1, <3>1 DEF SessOK
  <2>2. ASSUME NEW s \in Sessions, sess[s].at # "none"
        PROVE  tables'.acl[sess[s].acl].profile # NULL
    <3> DEFINE a == sess[s].acl
    <3>1. a \in DOMAIN tables.acl /\ tables.acl[a].profile # NULL
      BY <1>1, <1>2, <1>3, <2>2 DEF SessOK, NULL
    <3>2. CASE k = "acl" /\ a = i
      <4>1. EntryRefs(tables, "acl", tables.acl[a])
        BY <1>1, <1>3, <3>1 DEF Refs
      <4>2. tables.acl[a].profile \in DOMAIN tables.profile
        <5>1. tables.acl[a].profile \in 0 .. Len(tables.profile)
          BY <4>1 DEF EntryRefs
        <5>2. Len(tables.profile) \in Nat
              /\ DOMAIN tables.profile = 1 .. Len(tables.profile)
          BY <1>2, <1>3
        <5> QED
          BY <3>1, <5>1, <5>2 DEF NULL
      <4> QED
        BY <3>1, <3>2, <4>2 DEF Rewritten, Sound
    <3>3. CASE ~ (k = "acl" /\ a = i)
      BY <1>2, <1>3, <3>1, <3>3 DEF Rewritten
    <3> QED
      BY <3>2, <3>3
  <2> QED
    BY <1>1, <2>1, <2>2 DEF SessOK
<1>7. ConnectionsKept'
  <2> SUFFICES ASSUME NEW j \in DOMAIN tables'.profile
               PROVE  tables'.profile[j].connections =
                          Cardinality({s \in Sessions : /\ sess[s].at \in Counted
                                                        /\ sess[s].profile = j})
    BY DEF ConnectionsKept
  <2>1. CASE j \in DOMAIN tables.profile
    BY <1>1, <1>3, <2>1 DEF ConnectionsKept, Rewritten, Sound
  <2>2. CASE j \notin DOMAIN tables.profile
    <3>1. k = "profile" /\ j = i /\ tables'.profile[j].connections = 0
      BY <1>3, <2>2 DEF Rewritten, Sound
    <3>2. \A s \in Sessions : sess[s].profile \in 0 .. Len(tables.profile)
      BY <1>1 DEF SessOK
    <3>3. j \notin 0 .. Len(tables.profile)
      BY <1>2, <1>3, <2>2
    <3>4. {s \in Sessions : sess[s].at \in Counted /\ sess[s].profile = j} = {}
      BY <3>2, <3>3
    <3> QED
      BY <3>1, <3>4, FS_EmptySet
  <2> QED
    BY <2>1, <2>2
<1> QED
  BY <1>4, <1>5, <1>6, <1>7

LEMMA WildmatsKeep ==
    ASSUME RefInv, Layout', Grown, OnlyWildmats, UNCHANGED sess
    PROVE  Refs' /\ DefaultFirst' /\ SessOK' /\ ConnectionsKept'
<1>1. Layout /\ Refs
  BY DEF RefInv, Inv
<1>2. /\ tables'.acl = tables.acl /\ tables'.auth = tables.auth
      /\ tables'.profile = tables.profile
  BY DEF OnlyWildmats, Kinds
<1>3. Refs'
  <2> SUFFICES ASSUME NEW m \in Kinds, NEW j \in DOMAIN tables'[m]
               PROVE  /\ EntryRefs(tables', m, tables'[m][j])
                      /\ m = "auth" => tables'[m][j].profile # NULL
    BY DEF Refs, EntryRefs, Named
  <2>1. CASE m = "wildmat"
    BY <2>1 DEF EntryRefs
  <2>2. CASE m # "wildmat"
    <3>1. tables'[m] = tables[m]
      BY <2>2 DEF OnlyWildmats
    <3> QED
      BY <1>1, <3>1, RefsKept DEF Refs
  <2> QED
    BY <2>1, <2>2
<1>4. DefaultFirst'
  BY <1>2 DEF RefInv, DefaultFirst, Find
<1>5. SessOK'
  BY <1>2 DEF RefInv, SessOK
<1>6. ConnectionsKept'
  BY <1>2 DEF RefInv, ConnectionsKept
<1> QED
  BY <1>3, <1>4, <1>5, <1>6

LEMMA TablesIdle ==
    ASSUME RefInv, UNCHANGED <<tables, sess>>
    PROVE  Refs' /\ DefaultFirst' /\ SessOK' /\ ConnectionsKept'
<1>1. Refs'
  <2>1. \A k \in Kinds : \A i \in DOMAIN tables'[k] :
            /\ EntryRefs(tables', k, tables'[k][i])
            /\ k = "auth" => tables'[k][i].profile # NULL
    BY DEF RefInv, Refs
  <2> QED
    BY <2>1 DEF Refs, EntryRefs, Named
<1>2. DefaultFirst'
  BY DEF RefInv, DefaultFirst, Find
<1>3. SessOK'
  BY DEF RefInv, SessOK
<1>4. ConnectionsKept'
  BY DEF RefInv, ConnectionsKept
<1> QED
  BY <1>1, <1>2, <1>3, <1>4

-----------------------------------------------------------------------------
(* What the parser stores is sound.                                        *)

LEMMA OpenedSound ==
    ASSUME RefInv, NEW s, s.kind \in Kinds, ~ StatementFails(s),
           NEW i, i = Find(s.kind, s.name), NEW e, e = Opened(s, i)
    PROVE  /\ EntryRefs(tables, s.kind, e)
           /\ i # NULL => Sound(s.kind, i, e)
           /\ s.kind = "acl" /\ DOMAIN tables.profile # {} => e.profile # NULL
           /\ s.kind = "profile" /\ i = NULL => e.connections = 0
           /\ s.kind = "profile" /\ s.name # "default" =>
                  Find("profile", "default") # NULL
           /\ s.kind = "auth" =>
                  Find("profile", OrElse(s.profile, "default")) # NULL
<1>1. Layout /\ Refs /\ DefaultFirst
  BY DEF RefInv, Inv
<1>2. {"acl", "auth", "profile", "alias", "vhost"} \subseteq Kinds
  BY DEF Kinds
<1>3. i # NULL => i \in DOMAIN tables[s.kind] /\ tables[s.kind][i].name = s.name
  BY <1>1, FindFacts
<1>4. CASE s.kind = "profile"
  <2>1. s.name # "default" => Find("profile", "default") # NULL
    <3>1. CASE i = NULL
      BY <1>4, <3>1 DEF StatementFails
    <3>2. CASE i # NULL
      BY <1>1, <1>3, <1>4, <3>2 DEF DefaultFirst
    <3> QED
      BY <3>1, <3>2
  <2>2. CASE i # NULL
    <3>1. e = tables.profile[i] /\ i \in DOMAIN tables.profile
      BY <1>3, <1>4, <2>2 DEF Opened
    <3>2. EntryRefs(tables, "profile", e)
      BY <1>1, <1>2, <3>1 DEF Refs
    <3> QED
      BY <1>3, <1>4, <2>1, <2>2, <3>1, <3>2 DEF Sound
  <2>3. CASE i = NULL /\ s.name = "default"
    <3>1. e = [name |-> s.name, conf |-> Blank.profile, connections |-> 0]
      BY <1>4, <2>3 DEF Opened, Inherited
    <3>2. /\ Len(tables.alias) \in Nat /\ Len(tables.pfxmap) \in Nat
          /\ Len(tables.profile) \in Nat
      <4>1. \A k \in Kinds : Len(tables[k]) \in Nat
        BY <1>1, TableFacts DEF Layout
      <4> QED
        BY <4>1 DEF Kinds
    <3>3. /\ Blank.profile.ReadPat = "" /\ Blank.profile.Accounting = 0
          /\ Blank.profile.PrefixMap = 0 /\ Blank.profile.FailProfile = 0
      BY DEF Blank, NULL
    <3>4. /\ e.conf.ReadPat = "" /\ e.conf.Accounting = 0
          /\ e.conf.PrefixMap = 0 /\ e.conf.FailProfile = 0
      <4>1. e.conf = Blank.profile
        BY <3>1
      <4> QED
        BY <3>3, <4>1
    <3>5. /\ e.conf.Accounting \in 0 .. Len(tables.alias)
          /\ e.conf.PrefixMap \in 0 .. Len(tables.pfxmap)
          /\ e.conf.FailProfile \in 0 .. Len(tables.profile)
      <4>1. \A n \in Nat : 0 \in 0 .. n
        OBVIOUS
      <4>2. /\ 0 \in 0 .. Len(tables.alias) /\ 0 \in 0 .. Len(tables.pfxmap)
            /\ 0 \in 0 .. Len(tables.profile)
        BY <3>2, <4>1
      <4> QED
        BY <3>4, <4>2
    <3>6. EntryRefs(tables, "profile", e)
      BY <3>4, <3>5 DEF EntryRefs
    <3> QED
      BY <1>4, <2>1, <2>3, <3>1, <3>6
  <2>4. CASE i = NULL /\ s.name # "default"
    <3> DEFINE d == Find("profile", "default")
    <3>1. d \in DOMAIN tables.profile
      BY <1>1, <1>2, <2>1, <2>4, FindFacts
    <3>2. e = [tables.profile[d] EXCEPT !.name = s.name, !.connections = 0]
      BY <1>4, <2>4 DEF Opened, Inherited
    <3>3. /\ DOMAIN tables.profile[d] = {"name", "conf", "connections"}
          /\ EntryRefs(tables, "profile", tables.profile[d])
      BY <1>1, <1>2, <3>1 DEF Layout, IsTable, Shape, Fields, Refs
    <3>4. e.conf = tables.profile[d].conf /\ e.connections = 0
      BY <3>2, <3>3
    <3>5. EntryRefs(tables, "profile", e)
      BY <3>3, <3>4 DEF EntryRefs
    <3> QED
      BY <1>4, <2>1, <2>4, <3>4, <3>5
  <2> QED
    BY <2>2, <2>3, <2>4
<1>5. CASE s.kind = "acl"
  <2> DEFINE p == OrElse(s.profile, "default")
  <2>1. e = [name |-> s.name, flags |-> {}, profile |-> Find("profile", p)]
    BY <1>5 DEF Opened, OpenedAcl
  <2>2. Find("profile", p) \in 0 .. Len(tables.profile)
    BY <1>1, <1>2, FindType
  <2>3. DOMAIN tables.profile # {} => Find("profile", p) # NULL
    BY <1>1, <1>5 DEF DefaultFirst, OrElse, StatementFails
  <2> QED
    BY <1>5, <2>1, <2>2, <2>3 DEF EntryRefs, Sound
<1>6. CASE s.kind = "auth"
  <2> DEFINE p == OrElse(s.profile, "default")
             a == Find("alias", OrElse(s.alias, "auth_default"))
             f == IF i # NULL THEN tables.auth[i].profile ELSE NULL
  <2>1. e = [name |-> s.name, alias |-> a, profile |-> f]
    BY <1>6 DEF Opened
  <2>2. Find("profile", p) # NULL /\ a # NULL
    BY <1>6 DEF StatementFails
  <2>3. a \in DOMAIN tables.alias
    BY <1>1, <1>2, <2>2, FindFacts
  <2>4. /\ f \in 0 .. Len(tables.profile)
        /\ i # NULL => f # NULL
    <3>1. Len(tables.profile) \in Nat
      BY <1>1, <1>2, TableFacts DEF Layout
    <3>2. CASE i = NULL
      BY <3>1, <3>2 DEF NULL
    <3>3. CASE i # NULL
      <4>1. /\ EntryRefs(tables, "auth", tables.auth[i])
            /\ tables.auth[i].profile # NULL
        BY <1>1, <1>2, <1>3, <1>6, <3>3 DEF Refs
      <4> QED
        BY <3>3, <4>1 DEF EntryRefs
    <3> QED
      BY <3>2, <3>3
  <2> QED
    BY <1>6, <2>1, <2>2, <2>3, <2>4 DEF EntryRefs, Sound
<1>7. CASE s.kind \notin {"profile", "acl", "auth"}
  BY <1>7 DEF EntryRefs, Sound
<1> QED
  BY <1>4, <1>5, <1>6, <1>7

LEMMA ConfStored ==
    ASSUME Layout, NEW e, Shape("profile", e), EntryRefs(tables, "profile", e),
           NEW key, ~ SettingFails(key)
    PROVE  /\ EntryRefs(tables, "profile", Stored("profile", e, key))
           /\ Stored("profile", e, key).connections = e.connections
<1> DEFINE f == key.field
           v == Resolve(f, key.value)
           d == Stored("profile", e, key)
<1>1. /\ DOMAIN e = {"name", "conf", "connections"}
      /\ DOMAIN e.conf = ConfFields("profile")
  BY DEF Shape, Fields
<1>2. d = [e EXCEPT !.conf = [e.conf EXCEPT ![f] = v]]
  BY <1>1 DEF Stored
<1>3. d.conf = [e.conf EXCEPT ![f] = v] /\ d.connections = e.connections
  BY <1>1, <1>2
<1>4. \A g \in ConfFields("profile") :
          d.conf[g] = IF g = f THEN v ELSE e.conf[g]
  BY <1>1, <1>3
<1>5. f = "ReadPat" => v = key.value /\ Named(tables.wildmat, v) # NULL
  <2>1. f = "ReadPat" => Find("wildmat", key.value) # NULL
    BY DEF SettingFails
  <2> QED
    BY <2>1, FindIsNamed DEF Resolve
<1>6. /\ f = "Accounting" => v \in 0 .. Len(tables.alias)
      /\ f = "PrefixMap" => v \in 0 .. Len(tables.pfxmap)
      /\ f = "FailProfile" => v \in 0 .. Len(tables.profile)
  BY FindType DEF Resolve, Kinds
<1> HIDE DEF d, v, f
<1>7. /\ d.conf.ReadPat = "" \/ Named(tables.wildmat, d.conf.ReadPat) # NULL
      /\ d.conf.Accounting \in 0 .. Len(tables.alias)
      /\ d.conf.PrefixMap \in 0 .. Len(tables.pfxmap)
      /\ d.conf.FailProfile \in 0 .. Len(tables.profile)
  BY <1>4, <1>5, <1>6 DEF EntryRefs, ConfFields
<1>8. EntryRefs(tables, "profile", d)
  BY <1>7 DEF EntryRefs
<1> QED
  BY <1>3, <1>8 DEF d

LEMMA StoredSound ==
    ASSUME RefInv, loader.at = "keys", loader.keys # <<>>,
           NEW k, k = Statement.kind, ~ KeyFails(k, Head(loader.keys)),
           NEW e, e = Stored(k, Entry, Head(loader.keys))
    PROVE  /\ EntryRefs(tables, k, e)
           /\ ~ IsNew => Sound(k, loader.entry, e)
           /\ k = "acl" /\ DOMAIN tables.profile # {} => e.profile # NULL
           /\ k = "auth" => e.profile # NULL /\ Tail(loader.keys) = <<>>
           /\ k = "profile" /\ IsNew => e.connections = 0
<1> DEFINE key == Head(loader.keys)
           i == loader.entry
<1>1. Layout /\ Refs /\ DefaultFirst /\ Draft /\ Filling
  BY DEF RefInv, Inv, LoaderOK
<1>2. {"acl", "auth", "profile", "alias"} \subseteq Kinds
  BY DEF Kinds
<1>3. /\ k \in Kinds /\ k \in KeyKinds /\ Shape(k, Entry)
      /\ Entry.name = Statement.name /\ EntryRefs(tables, k, Entry)
  BY <1>1 DEF Filling, Draft
<1>4. Len(tables[k]) \in Nat /\ DOMAIN tables[k] = 1 .. Len(tables[k])
  BY <1>1, <1>3, TableFacts DEF Layout
<1>5. ~ IsNew => i \in DOMAIN tables[k] /\ Entry = tables[k][i]
  BY <1>1, <1>4 DEF Filling, IsNew, Entry
<1>6. CASE k = "profile"
  <2>1. ~ SettingFails(key)
    BY <1>6 DEF KeyFails
  <2>2. EntryRefs(tables, "profile", e) /\ e.connections = Entry.connections
    BY <1>1, <1>3, <1>6, <2>1, ConfStored
  <2>3. e.name = Statement.name
    BY <1>3, StoredShape
  <2> QED
    BY <1>1, <1>5, <1>6, <2>2, <2>3 DEF Sound, Draft
<1>7. CASE k = "acl"
  <2>1. DOMAIN Entry = {"name", "flags", "profile"}
    BY <1>3, <1>7 DEF Shape, Fields
  <2>2. e = [Entry EXCEPT !.flags = Entry.flags \cup {key}]
    BY <1>7, <2>1 DEF Stored
  <2>3. e.profile = Entry.profile
    BY <2>1, <2>2
  <2> QED
    BY <1>1, <1>3, <1>5, <1>7, <2>3 DEF EntryRefs, Sound, Draft
<1>8. CASE k = "auth"
  <2>1. DOMAIN Entry = {"name", "alias", "profile"}
    BY <1>3, <1>8 DEF Shape, Fields
  <2> DEFINE p == OrElse(Statement.profile, "default")
  <2>2. loader.keys = <<p>> /\ Find("profile", p) # NULL
    BY <1>1, <1>8 DEF Draft
  <2>3. key = p /\ Tail(loader.keys) = <<>>
    BY <2>2
  <2>4. e = [Entry EXCEPT !.profile = Find("profile", p)]
    BY <1>8, <2>3 DEF Stored
  <2>5. e.profile = Find("profile", p) /\ e.alias = Entry.alias
    BY <2>1, <2>4
  <2>6. e.profile \in 0 .. Len(tables.profile)
    BY <1>1, <1>2, <2>5, FindType
  <2> QED
    BY <1>3, <1>8, <2>2, <2>3, <2>5, <2>6 DEF EntryRefs, Sound
<1>9. CASE k \notin {"profile", "acl", "auth"}
  BY <1>9 DEF EntryRefs, Sound
<1> QED
  BY <1>6, <1>7, <1>8, <1>9

-----------------------------------------------------------------------------
(* The steps of the listener keep the references.                          *)

LEMMA WriteKeeps ==
    ASSUME RefInv, Layout', Grown, NEW k \in Kinds,
           NEW i \in 1 .. Len(tables[k]) + 1, NEW e, Write(k, i, e),
           i \in DOMAIN tables[k] => Sound(k, i, e), UNCHANGED sess
    PROVE  Refs' /\ DefaultFirst' /\ SessOK' /\ ConnectionsKept'
<1>1. /\ Layout /\ DOMAIN tables = Kinds /\ Len(tables[k]) \in Nat
      /\ DOMAIN tables[k] = 1 .. Len(tables[k])
  BY TableFacts DEF RefInv, Inv, Layout
<1>2. CASE i <= Len(tables[k])
  <2>1. i \in DOMAIN tables[k]
    BY <1>1, <1>2
  <2>2. tables' = [tables EXCEPT ![k] = [tables[k] EXCEPT ![i] = e]]
    BY <1>2 DEF Write
  <2>3. Rewritten(k, i, e)
    BY <1>1, <2>1, <2>2 DEF Rewritten
  <2> QED
    BY <2>1, <2>3, RewrittenKeeps
<1>3. CASE ~ i <= Len(tables[k])
  BY <1>3, TablesIdle DEF Write
<1> QED
  BY <1>2, <1>3

\* The draft after a store that leaves the entry e.
LEMMA DraftIntro ==
    ASSUME Layout, Layout', Grown, NEW k \in Kinds, k = Statement.kind,
           Statement' = Statement, NEW e, Entry' = e,
           DOMAIN tables'.profile = DOMAIN tables.profile,
           EntryRefs(tables, k, e),
           k = "acl" /\ DOMAIN tables.profile # {} => e.profile # NULL,
           k = "auth" =>
               LET p == OrElse(Statement.profile, "default")
               IN  IF loader'.keys = <<>> THEN e.profile # NULL
                   ELSE loader'.keys = <<p>> /\ Find("profile", p) # NULL,
           k = "profile" /\ Statement.name # "default" =>
               Find("profile", "default") # NULL,
           k = "profile" /\ IsNew' => e.connections = 0
    PROVE  Draft'
<1> DEFINE p == OrElse(Statement.profile, "default")
<1>1. EntryRefs(tables', k, e)
  BY RefsKept
<1>2. EntryRefs(tables, k, Entry)'
  BY <1>1 DEF EntryRefs, Named
<1>3. Find("profile", p) # NULL => Find("profile", p)' # NULL
  BY FindStays DEF Kinds
<1>4. Find("profile", "default") # NULL => Find("profile", "default")' # NULL
  BY FindStays DEF Kinds
<1>5. OrElse(Statement.profile, "default")' = p
  BY DEF OrElse
<1> HIDE DEF p
<1>6. k = "auth" => IF loader'.keys = <<>> THEN e.profile # NULL
                    ELSE loader'.keys = <<p>> /\ Find("profile", p)' # NULL
  BY <1>3 DEF p
<1> QED
  BY <1>2, <1>4, <1>5, <1>6 DEF Draft, p

LEMMA ReadStatementRefs ==
    ASSUME RefInv, ReadStatement
    PROVE  RefInv'
<1> DEFINE k == Statement.kind
           found == Find(k, Statement.name)
           i == IF found # NULL THEN found ELSE Len(tables[k]) + 1
           e == Opened(Statement, found)
<1>1. /\ loader.at = "read" /\ loader.todo # <<>> /\ k \in Kinds
      /\ ~ StatementFails(Statement) /\ Write(k, i, e)
      /\ UNCHANGED <<disk, sess>>
  BY DEF ReadStatement
<1>2. Inv /\ Layout /\ DOMAIN loader = LoaderFields
  BY DEF RefInv, Inv, LoaderOK
<1>3. Inv' /\ Grown /\ Layout'
  BY <1>2, ReadStatementStep DEF Inv
<1>4. Shape(k, e) /\ e.name = Statement.name
  BY <1>1, <1>2, OpenedShape
<1>5. \/ found = NULL /\ i = Len(tables[k]) + 1
      \/ found # NULL /\ i = found /\ i \in DOMAIN tables[k]
         /\ tables[k][i].name = Statement.name
  BY <1>1, <1>2, FindFacts
<1>6. Len(tables[k]) \in Nat /\ DOMAIN tables[k] = 1 .. Len(tables[k])
  BY <1>1, <1>2, TableFacts DEF Layout
<1>7. i \in 1 .. Len(tables[k]) + 1 /\ (found = NULL <=> i \notin DOMAIN tables[k])
  BY <1>5, <1>6
<1>8. /\ EntryRefs(tables, k, e)
      /\ found # NULL => Sound(k, found, e)
      /\ k = "acl" /\ DOMAIN tables.profile # {} => e.profile # NULL
      /\ k = "profile" /\ found = NULL => e.connections = 0
      /\ k = "profile" /\ Statement.name # "default" =>
             Find("profile", "default") # NULL
      /\ k = "auth" => Find("profile", OrElse(Statement.profile, "default")) # NULL
  BY <1>1, OpenedSound
<1>9. k = "auth" => KeysOf(Statement) = <<OrElse(Statement.profile, "default")>>
  BY DEF KeysOf
<1>10. k = Statement.kind
  OBVIOUS
<1> HIDE DEF k, found, i, e
<1>11. i \in DOMAIN tables[k] => Sound(k, i, e)
  BY <1>5, <1>7, <1>8
<1>12. Refs' /\ DefaultFirst' /\ SessOK' /\ ConnectionsKept'
  BY <1>1, <1>3, <1>7, <1>11, WriteKeeps
<1>13. /\ loader'.keys = KeysOf(Statement)
       /\ Statement' = Statement /\ Entry' = e
       /\ Len(tables'[k]) = Len(tables[k])
       /\ IsNew' <=> i \notin DOMAIN tables[k]
       /\ \A m \in Kinds \ {k} : tables'[m] = tables[m]
  <2>1. i \in DOMAIN tables[k] => e.name = tables[k][i].name
    BY <1>4, <1>5, <1>7
  <2> QED
    BY <1>1, <1>2, <1>4, <1>7, <1>10, <2>1, WriteStep
<1>14. DOMAIN tables'.profile = DOMAIN tables.profile
  BY <1>1, <1>2, <1>3, <1>13, Lengths DEF Kinds
<1>15. Draft'
  <2>1. <<OrElse(Statement.profile, "default")>> # <<>>
    OBVIOUS
  <2> QED
    BY <1>1, <1>2, <1>3, <1>7, <1>8, <1>9, <1>10, <1>13, <1>14, <2>1, DraftIntro
<1> QED
  BY <1>3, <1>12, <1>15 DEF RefInv

LEMMA ReadKeyRefs ==
    ASSUME RefInv, ReadKey
    PROVE  RefInv'
<1> DEFINE k == Statement.kind
           i == loader.entry
           e == Stored(k, Entry, Head(loader.keys))
<1>1. /\ loader.at = "keys" /\ loader.keys # <<>> /\ Write(k, i, e)
      /\ ~ KeyFails(k, Head(loader.keys)) /\ UNCHANGED <<disk, sess>>
  BY DEF ReadKey
<1>2. Inv /\ Layout /\ DOMAIN loader = LoaderFields /\ Filling /\ Draft
  BY <1>1 DEF RefInv, Inv, LoaderOK
<1>3. Inv' /\ Grown /\ Layout'
  BY <1>2, ReadKeyStep DEF Inv
<1>4. /\ k \in KeyKinds /\ k \in Kinds /\ Shape(k, Entry)
      /\ Entry.name = Statement.name /\ i \in 1 .. Len(tables[k]) + 1
      /\ loader.todo # <<>>
  BY <1>1, <1>2 DEF Filling
<1>5. Shape(k, e) /\ e.name = Statement.name
  BY <1>4, StoredShape
<1>6. Len(tables[k]) \in Nat /\ DOMAIN tables[k] = 1 .. Len(tables[k])
  BY <1>2, <1>4, TableFacts DEF Layout
<1>7. IsNew <=> i \notin DOMAIN tables[k]
  BY <1>4, <1>6 DEF IsNew
<1>8. i \in DOMAIN tables[k] => Entry = tables[k][i]
  BY <1>7 DEF Entry
<1>9. /\ EntryRefs(tables, k, e)
      /\ ~ IsNew => Sound(k, i, e)
      /\ k = "acl" /\ DOMAIN tables.profile # {} => e.profile # NULL
      /\ k = "auth" => e.profile # NULL /\ Tail(loader.keys) = <<>>
      /\ k = "profile" /\ IsNew => e.connections = 0
  BY <1>1, StoredSound
<1>10. k = Statement.kind
  OBVIOUS
<1>11. k = "profile" /\ Statement.name # "default" =>
           Find("profile", "default") # NULL
  BY <1>1, <1>2 DEF Draft
<1> HIDE DEF k, i, e
<1>12. Refs' /\ DefaultFirst' /\ SessOK' /\ ConnectionsKept'
  BY <1>1, <1>3, <1>4, <1>7, <1>9, WriteKeeps
<1>13. /\ loader'.keys = Tail(loader.keys)
       /\ Statement' = Statement /\ Entry' = e
       /\ Len(tables'[k]) = Len(tables[k])
       /\ IsNew' <=> i \notin DOMAIN tables[k]
       /\ \A m \in Kinds \ {k} : tables'[m] = tables[m]
  <2>1. i \in DOMAIN tables[k] => e.name = tables[k][i].name
    BY <1>4, <1>5, <1>8
  <2> QED
    BY <1>1, <1>2, <1>4, <1>5, <1>10, <2>1, WriteStep
<1>14. DOMAIN tables'.profile = DOMAIN tables.profile
  BY <1>2, <1>3, <1>4, <1>13, Lengths DEF Kinds
<1>15. Draft'
  BY <1>2, <1>3, <1>4, <1>7, <1>9, <1>10, <1>11, <1>13, <1>14, DraftIntro
<1> QED
  BY <1>3, <1>12, <1>15 DEF RefInv

LEMMA EndStatementRefs ==
    ASSUME RefInv, EndStatement
    PROVE  RefInv'
<1> DEFINE k == Statement.kind
           i == Len(tables[k]) + 1
           e == loader.draft
<1>1. Inv /\ Layout /\ DOMAIN loader = LoaderFields /\ Filling /\ Draft
  BY DEF RefInv, Inv, LoaderOK, EndStatement
<1>2. Inv' /\ Grown /\ Layout' /\ UNCHANGED sess /\ loader.keys = <<>>
  BY <1>1, EndStatementStep DEF Inv, EndStatement
<1>3. loader'.at = "read" /\ loader.at = "keys"
  BY <1>1 DEF EndStatement, LoaderFields
<1>4. Draft'
  BY <1>3 DEF Draft
<1>5. CASE ~ IsNew
  <2>1. UNCHANGED <<tables, sess>>
    BY <1>5, <1>2 DEF EndStatement
  <2> QED
    BY <1>2, <1>4, <2>1, TablesIdle DEF RefInv
<1>6. CASE IsNew
  <2>1. k \in Kinds /\ Entry = e /\ e.name = Statement.name
    BY <1>1, <1>6 DEF Filling, Entry
  <2>2. IsTable(k, tables[k]) /\ DOMAIN tables = Kinds
    BY <1>1, <2>1 DEF Layout
  <2>3. Len(tables[k]) \in Nat /\ DOMAIN tables[k] = 1 .. Len(tables[k])
    BY <2>2, TableFacts
  <2>4. tables' = [tables EXCEPT ![k] = Append(tables[k], e)]
    BY <1>6 DEF EndStatement
  <2>5. Sound(k, i, e)
    <3>1. i \notin DOMAIN tables[k]
      BY <2>3
    <3>2. EntryRefs(tables, k, e)
      BY <1>1, <1>3, <2>1 DEF Draft
    <3>3. k = "auth" => e.profile # NULL
      BY <1>1, <1>2, <1>3, <2>1 DEF Draft
    <3>4. k = "acl" /\ DOMAIN tables.profile # {} => e.profile # NULL
      BY <1>1, <1>3, <2>1 DEF Draft
    <3>5. k = "profile" => /\ e.name = "default" \/ Find("profile", "default") # NULL
                           /\ e.connections = 0
      BY <1>1, <1>3, <1>6, <2>1 DEF Draft
    <3> QED
      BY <3>1, <3>2, <3>3, <3>4, <3>5 DEF Sound
  <2> HIDE DEF k, i, e
  <2>6. /\ IsSequence(Append(tables[k], e))
        /\ Len(Append(tables[k], e)) = Len(tables[k]) + 1
        /\ \A j \in DOMAIN tables[k] : Append(tables[k], e)[j] = tables[k][j]
        /\ Append(tables[k], e)[Len(tables[k]) + 1] = e
    BY <2>2, SeqAppend DEF IsTable
  <2>7. DOMAIN Append(tables[k], e) = 1 .. Len(tables[k]) + 1
    BY <2>6, SeqFacts
  <2>8. DOMAIN tables'[k] = DOMAIN tables[k] \cup {i}
    BY <2>1, <2>2, <2>3, <2>4, <2>7 DEF i
  <2>9. \A j \in DOMAIN tables'[k] :
            tables'[k][j] = IF j = i THEN e ELSE tables[k][j]
    BY <2>1, <2>2, <2>4, <2>6, <2>8 DEF i
  <2>10. Rewritten(k, i, e)
    BY <2>2, <2>4, <2>8, <2>9 DEF Rewritten
  <2>11. Refs' /\ DefaultFirst' /\ SessOK' /\ ConnectionsKept'
    BY <1>2, <2>1, <2>5, <2>10, RewrittenKeeps
  <2> QED
    BY <1>2, <1>4, <2>11 DEF RefInv
<1> QED
  BY <1>5, <1>6

-----------------------------------------------------------------------------
(* A child moves: its CLIENT changes, and the counters with it.            *)

Members(q, j) == {s \in Sessions : q[s].at \in Counted /\ q[s].profile = j}
Counts(r, j) == IF r.at \in Counted /\ r.profile = j THEN 1 ELSE 0

LEMMA MembersNumber ==
    ASSUME NEW q, NEW j
    PROVE  /\ IsFiniteSet(Members(q, j))
           /\ Cardinality(Members(q, j)) \in Nat
           /\ Cardinality(Members(q, j)) <= Cardinality(Sessions)
<1>1. Members(q, j) \in SUBSET Sessions
  BY DEF Members
<1> QED
  BY <1>1, FS_Subset, FS_CardinalityType, SessionsAssumption

LEMMA MembersChange ==
    ASSUME NEW q, NEW p, NEW s \in Sessions, NEW j,
           \A x \in Sessions \ {s} : p[x] = q[x]
    PROVE  /\ Cardinality(Members(p, j)) =
                  Cardinality(Members(q, j)) + Counts(p[s], j) - Counts(q[s], j)
           /\ Counts(q[s], j) = 1 => Cardinality(Members(q, j)) > 0
<1> DEFINE A == Members(q, j)
           B == Members(p, j)
<1>1. \A x \in Sessions \ {s} : x \in A <=> x \in B
  BY DEF Members
<1>2. A \subseteq Sessions /\ B \subseteq Sessions
  BY DEF Members
<1> DEFINE c == Counts(p[s], j)
           d == Counts(q[s], j)
           n == Cardinality(A)
           m == Cardinality(B)
<1>3. (s \in A <=> d = 1) /\ d \in {0, 1}
  BY DEF Members, Counts
<1>4. (s \in B <=> c = 1) /\ c \in {0, 1}
  BY DEF Members, Counts
<1>5. IsFiniteSet(A) /\ n \in Nat
  BY MembersNumber
<1> HIDE DEF A, B, c, d
<1>6. ASSUME s \in B PROVE m = n + c - d
  <2>1. B = A \cup {s}
    BY <1>1, <1>2, <1>6
  <2>2. m = IF s \in A THEN n ELSE n + 1
    BY <1>5, <2>1, FS_AddElement
  <2> HIDE DEF n, m
  <2> QED
    BY <1>3, <1>4, <1>5, <1>6, <2>2
<1>7. ASSUME s \notin B PROVE m = n + c - d
  <2>1. B = A \ {s}
    BY <1>1, <1>2, <1>7
  <2>2. m = IF s \in A THEN n - 1 ELSE n
    BY <1>5, <2>1, FS_RemoveElement
  <2> HIDE DEF n, m
  <2> QED
    BY <1>3, <1>4, <1>5, <1>7, <2>2
<1>8. s \in A => n > 0
  BY <1>5, FS_EmptySet
<1>9. m = n + c - d
  BY <1>6, <1>7
<1> QED
  BY <1>3, <1>8, <1>9 DEF A, B, c, d

LEMMA MembersMove ==
    ASSUME NEW s \in Sessions, NEW j,
           \A x \in Sessions \ {s} : sess'[x] = sess[x]
    PROVE  Cardinality(Members(sess', j)) =
               Cardinality(Members(sess, j)) + Counts(sess'[s], j) - Counts(sess[s], j)
  BY MembersChange

Client == [at : Places, addr : Addresses, acl : 0 .. Len(tables.acl),
           profile : 0 .. Len(tables.profile), auth : 0 .. Len(tables.auth)]

\* What a CLIENT has to be.
ClientOK(r) ==
    /\ r \in Client
    /\ r.at # "none" => r.acl # NULL /\ tables.acl[r.acl].profile # NULL
    /\ r.at \notin {"none", "forked"} => r.profile # NULL
    /\ r.at = "module" => r.auth # NULL

LEMMA ClientsOK ==
    SessOK <=> /\ DOMAIN sess = Sessions /\ sess = [s \in Sessions |-> sess[s]]
               /\ \A s \in Sessions : ClientOK(sess[s])
  BY DEF SessOK, ClientOK, Client

LEMMA ChildKeeps ==
    ASSUME RefInv, Inv', Grown, UNCHANGED <<disk, loader>>,
           UNCHANGED tables \/ Recounted,
           NEW s \in Sessions, NEW r, ClientOK(r), sess' = [sess EXCEPT ![s] = r],
           \A j \in DOMAIN tables.profile :
               tables'.profile[j].connections =
                   tables.profile[j].connections + Counts(r, j) - Counts(sess[s], j)
    PROVE  RefInv'
<1>1. /\ Inv /\ Layout /\ Layout' /\ Refs /\ DefaultFirst /\ Draft /\ SessOK
      /\ ConnectionsKept
  BY DEF RefInv, Inv
<1>2. {"acl", "auth", "profile"} \subseteq Kinds
  BY DEF Kinds
<1>3. /\ \A k \in Kinds : DOMAIN tables'[k] = DOMAIN tables[k]
                          /\ Len(tables'[k]) = Len(tables[k])
      /\ \A k \in Kinds \ {"profile"} : tables'[k] = tables[k]
      /\ \A i \in DOMAIN tables.profile :
             /\ tables'.profile[i].conf = tables.profile[i].conf
             /\ tables'.profile[i].name = tables.profile[i].name
  <2>1. CASE UNCHANGED tables
    BY <2>1
  <2>2. CASE Recounted
    <3>1. DOMAIN tables'.profile = DOMAIN tables.profile
      BY <1>1, <1>2, <2>2, Lengths DEF Recounted
    <3> QED
      BY <2>2, <3>1 DEF Recounted
  <2> QED
    BY <2>1, <2>2
<1>4. \A k \in Kinds : \A e : EntryRefs(tables, k, e) => EntryRefs(tables', k, e)
  BY <1>1, RefsKept
<1>5. Refs'
  <2> SUFFICES ASSUME NEW k \in Kinds, NEW i \in DOMAIN tables'[k]
               PROVE  /\ EntryRefs(tables', k, tables'[k][i])
                      /\ k = "auth" => tables'[k][i].profile # NULL
    BY DEF Refs, EntryRefs, Named
  <2>1. CASE k # "profile"
    BY <1>1, <1>3, <1>4, <2>1 DEF Refs
  <2>2. CASE k = "profile"
    <3>1. EntryRefs(tables', "profile", tables.profile[i])
      BY <1>1, <1>3, <1>4, <2>2 DEF Refs
    <3> QED
      BY <1>3, <2>2, <3>1 DEF EntryRefs
  <2> QED
    BY <2>1, <2>2
<1>6. \A name : Find("profile", name) # NULL => Find("profile", name)' # NULL
  BY <1>1, <1>2, FindStays
<1>7. DefaultFirst'
  BY <1>1, <1>2, <1>3, <1>6 DEF DefaultFirst
<1>8. SessOK'
  <2>1. DOMAIN sess' = Sessions /\ sess' = [q \in Sessions |-> sess'[q]]
    BY <1>1, ClientsOK
  <2>2. \A q \in Sessions : ClientOK(sess'[q])
    BY <1>1, ClientsOK
  <2>3. tables'.acl = tables.acl /\ Len(tables'.profile) = Len(tables.profile)
        /\ tables'.auth = tables.auth
    BY <1>2, <1>3
  <2> QED
    BY <2>1, <2>2, <2>3 DEF SessOK, ClientOK, Client
<1>9. ConnectionsKept'
  <2>1. DOMAIN sess = Sessions
    BY <1>1, ClientsOK
  <2>2. ASSUME NEW j
        PROVE  Cardinality(Members(sess', j)) =
                   Cardinality(Members(sess, j)) + Counts(r, j) - Counts(sess[s], j)
    <3>1. sess'[s] = r /\ \A x \in Sessions \ {s} : sess'[x] = sess[x]
      BY <2>1
    <3>2. Cardinality(Members(sess', j)) =
              Cardinality(Members(sess, j)) + Counts(sess'[s], j)
                  - Counts(sess[s], j)
      BY <3>1, MembersMove
    <3> QED
      BY <3>1, <3>2
  <2>3. ASSUME NEW j \in DOMAIN tables'.profile
        PROVE  tables'.profile[j].connections = Cardinality(Members(sess', j))
    <3>1. j \in DOMAIN tables.profile
      BY <1>2, <1>3, <2>3
    <3>2. tables.profile[j].connections = Cardinality(Members(sess, j))
      BY <1>1, <3>1 DEF ConnectionsKept, Members
    <3> QED
      BY <2>2, <3>1, <3>2
  <2> QED
    BY <2>3 DEF ConnectionsKept, Members
<1>10. ASSUME loader.at = "keys" PROVE Draft'
  <2> DEFINE k == Statement.kind
  <2>1. /\ Filling /\ k \in Kinds /\ Statement' = Statement
    BY <1>1, <1>10 DEF Inv, LoaderOK, Filling, Statement
  <2>2. IsNew' = IsNew
    BY <1>3, <2>1 DEF IsNew
  <2>3. CASE IsNew \/ k # "profile"
    <3>1. Entry' = Entry
      BY <1>3, <2>1, <2>2, <2>3 DEF Entry
    <3>2. /\ EntryRefs(tables, k, Entry)
          /\ k = "acl" /\ DOMAIN tables.profile # {} => Entry.profile # NULL
          /\ k = "auth" =>
                 LET p == OrElse(Statement.profile, "default")
                 IN  IF loader.keys = <<>> THEN Entry.profile # NULL
                     ELSE loader.keys = <<p>> /\ Find("profile", p) # NULL
          /\ k = "profile" /\ Statement.name # "default" =>
                 Find("profile", "default") # NULL
          /\ k = "profile" /\ IsNew => Entry.connections = 0
      BY <1>1, <1>10 DEF Draft
    <3>3. k = Statement.kind /\ DOMAIN tables'.profile = DOMAIN tables.profile
      BY <1>2, <1>3
    <3> HIDE DEF k
    <3> QED
      BY <1>1, <2>1, <2>2, <3>1, <3>2, <3>3, DraftIntro
  <2>4. CASE ~ IsNew /\ k = "profile"
    <3>1. Entry' = tables'[k][loader.entry] /\ EntryRefs(tables', k, Entry')
      <4>1. Entry' = tables'[k][loader.entry]
        BY <2>1, <2>2, <2>4 DEF Entry
      <4>2. loader.entry \in DOMAIN tables'[k]
        BY <1>1, <1>2, <1>3, <2>1, <2>4, Lengths DEF Filling, IsNew
      <4>3. EntryRefs(tables', k, tables'[k][loader.entry])
        BY <1>5, <2>1, <4>2 DEF Refs, EntryRefs, Named
      <4> QED
        BY <4>1, <4>3
    <3>2. EntryRefs(tables, k, Entry)'
      BY <2>1, <3>1 DEF EntryRefs, Named
    <3>3. Statement.name # "default" => Find("profile", "default")' # NULL
      BY <1>1, <1>6, <1>10, <2>4 DEF Draft
    <3> QED
      BY <2>1, <2>2, <2>4, <3>2, <3>3 DEF Draft
  <2> QED
    BY <2>3, <2>4
<1>11. Draft'
  BY <1>10 DEF Draft
<1> QED
  BY <1>5, <1>7, <1>8, <1>9, <1>11 DEF RefInv

LEMMA Connections ==
    ASSUME RefInv, NEW j \in DOMAIN tables.profile
    PROVE  /\ tables.profile[j].connections \in 0 .. Cardinality(Sessions)
           /\ tables.profile[j].connections \in Nat
           /\ \A s \in Sessions : Counts(sess[s], j) = 1 =>
                  tables.profile[j].connections > 0
<1>1. tables.profile[j].connections = Cardinality(Members(sess, j))
  BY DEF RefInv, ConnectionsKept, Members
<1>2. /\ Cardinality(Members(sess, j)) \in Nat
      /\ Cardinality(Members(sess, j)) <= Cardinality(Sessions)
      /\ Cardinality(Sessions) \in Nat
  BY MembersNumber, FS_CardinalityType, SessionsAssumption
<1>3. ASSUME NEW s \in Sessions, Counts(sess[s], j) = 1
      PROVE  Cardinality(Members(sess, j)) > 0
  BY <1>3, MembersChange
<1> QED
  BY <1>1, <1>2, <1>3

\* What a child knows of its CLIENT.
LEMMA ClientFacts ==
    ASSUME RefInv, NEW s \in Sessions
    PROVE  /\ ClientOK(sess[s]) /\ DOMAIN sess = Sessions
           /\ DOMAIN sess[s] = {"at", "addr", "acl", "profile", "auth"}
           /\ sess[s].at # "none" =>
                  /\ sess[s].acl \in DOMAIN tables.acl
                  /\ tables.acl[sess[s].acl].profile \in DOMAIN tables.profile
           /\ sess[s].at \notin {"none", "forked"} =>
                  sess[s].profile \in DOMAIN tables.profile
           /\ sess[s].at = "module" =>
                  /\ sess[s].auth \in DOMAIN tables.auth
                  /\ tables.auth[sess[s].auth].profile \in DOMAIN tables.profile
<1>1. Layout /\ Refs /\ SessOK /\ {"acl", "auth", "profile"} \subseteq Kinds
  BY DEF RefInv, Inv, Kinds
<1>2. \A k \in {"acl", "auth", "profile"} :
          Len(tables[k]) \in Nat /\ DOMAIN tables[k] = 1 .. Len(tables[k])
  BY <1>1, TableFacts DEF Layout
<1>3. ClientOK(sess[s]) /\ DOMAIN sess = Sessions
  BY <1>1, ClientsOK
<1>4. /\ sess[s].acl \in 0 .. Len(tables.acl)
      /\ sess[s].profile \in 0 .. Len(tables.profile)
      /\ sess[s].auth \in 0 .. Len(tables.auth)
      /\ DOMAIN sess[s] = {"at", "addr", "acl", "profile", "auth"}
  BY <1>3 DEF ClientOK, Client
<1>5. \A k \in {"acl", "auth", "profile"} : \A i \in 0 .. Len(tables[k]) :
          i # NULL => i \in DOMAIN tables[k]
  BY <1>2 DEF NULL
<1>6. \A i \in DOMAIN tables.acl : tables.acl[i].profile \in 0 .. Len(tables.profile)
  BY <1>1 DEF Refs, EntryRefs
<1>7. \A i \in DOMAIN tables.auth : /\ tables.auth[i].profile # NULL
                                    /\ tables.auth[i].profile \in 0 .. Len(tables.profile)
  BY <1>1 DEF Refs, EntryRefs
<1>8. sess[s].at # "none" =>
          sess[s].acl # NULL /\ tables.acl[sess[s].acl].profile # NULL
  BY <1>3 DEF ClientOK
<1>9. /\ sess[s].at \notin {"none", "forked"} => sess[s].profile # NULL
      /\ sess[s].at = "module" => sess[s].auth # NULL
  BY <1>3 DEF ClientOK
<1> QED
  BY <1>3, <1>4, <1>5, <1>6, <1>7, <1>8, <1>9

\* The profile of a network outside the map.
LEMMA FallBack ==
    ASSUME RefInv, NEW p \in DOMAIN tables.profile, NEW addr
    PROVE  prof_iplookup(p, addr) # NULL =>
               prof_iplookup(p, addr) \in DOMAIN tables.profile
<1>1. "profile" \in Kinds /\ Layout /\ Refs
  BY DEF Kinds, RefInv, Inv
<1>2. /\ tables.profile[p].conf.FailProfile \in 0 .. Len(tables.profile)
  BY <1>1 DEF Refs, EntryRefs
<1>3. Len(tables.profile) \in Nat /\ DOMAIN tables.profile = 1 .. Len(tables.profile)
  BY <1>1, TableFacts DEF Layout
<1> QED
  BY <1>2, <1>3 DEF prof_iplookup, NULL

LEMMA FirstHit ==
    ASSUME NEW k, NEW t, IsTable(k, t), NEW H \in SUBSET DOMAIN t, NEW x,
           x = IF H = {} THEN NULL ELSE CHOOSE i \in H : \A j \in H : i <= j,
           x # NULL
    PROVE  x \in H /\ \A j \in H : x <= j
<1>1. H # {} /\ H \in SUBSET Nat
  BY TableFacts
<1>2. \E i \in H : \A j \in H : i <= j
  BY <1>1, LeastNumber
<1> QED
  BY <1>1, <1>2

LEMMA Lookups ==
    ASSUME Layout
    PROVE  /\ \A addr : getacl(addr) # NULL => getacl(addr) \in DOMAIN tables.acl
           /\ \A user : getauth(user) # NULL => getauth(user) \in DOMAIN tables.auth
<1>0. IsTable("acl", tables.acl) /\ IsTable("auth", tables.auth)
  BY DEF Layout, Kinds
<1>1. ASSUME NEW addr, getacl(addr) # NULL
      PROVE  getacl(addr) \in DOMAIN tables.acl
  <2> DEFINE H == {i \in DOMAIN tables.acl : Covers(tables.acl[i].name, addr)}
  <2>1. getacl(addr) = IF H = {} THEN NULL
                       ELSE CHOOSE i \in H : \A j \in H : i <= j
    BY DEF getacl
  <2>2. H \in SUBSET DOMAIN tables.acl
    OBVIOUS
  <2> HIDE DEF H
  <2> QED
    BY <1>0, <1>1, <2>1, <2>2, FirstHit
<1>2. ASSUME NEW user, getauth(user) # NULL
      PROVE  getauth(user) \in DOMAIN tables.auth
  <2> DEFINE H == {i \in DOMAIN tables.auth :
                       user \in Matches[tables.auth[i].name]}
  <2>1. getauth(user) = IF H = {} THEN NULL
                        ELSE CHOOSE i \in H : \A j \in H : i <= j
    BY DEF getauth
  <2>2. H \in SUBSET DOMAIN tables.auth
    OBVIOUS
  <2> HIDE DEF H
  <2> QED
    BY <1>0, <1>2, <2>1, <2>2, FirstHit
<1> QED
  BY <1>1, <1>2

-----------------------------------------------------------------------------
(* The steps of a child keep the references.                               *)

\* A step that changes no counter.
LEMMA QuietChild ==
    ASSUME RefInv, Inv', UNCHANGED <<disk, loader, tables>>,
           NEW s \in Sessions, NEW r, ClientOK(r), sess' = [sess EXCEPT ![s] = r],
           r.at \in Counted <=> sess[s].at \in Counted,
           r.at \in Counted => r.profile = sess[s].profile
    PROVE  RefInv'
<1>1. Grown
  BY NothingGrows DEF RefInv, Inv
<1>2. \A j : Counts(r, j) = Counts(sess[s], j) /\ Counts(r, j) \in {0, 1}
  BY DEF Counts
<1>3. ASSUME NEW j \in DOMAIN tables.profile
      PROVE  tables'.profile[j].connections =
                 tables.profile[j].connections + Counts(r, j) - Counts(sess[s], j)
  <2>1. tables.profile[j].connections \in Nat
    BY Connections
  <2> QED
    BY <1>2, <2>1
<1> QED
  BY <1>1, <1>3, ChildKeeps

LEMMA QuietSteps ==
    ASSUME RefInv, Inv', NEW s \in Sessions,
           \/ run_child(s) \/ cmdauthinfo_refused(s)
           \/ \E u \in Users : FindModule(s, u)
    PROVE  RefInv'
<1> DEFINE c == sess[s]
<1>1. /\ ClientOK(c) /\ DOMAIN sess = Sessions /\ Layout
      /\ DOMAIN c = {"at", "addr", "acl", "profile", "auth"}
      /\ c \in Client
  BY ClientFacts DEF RefInv, Inv, ClientOK
<1>2. \A k \in {"acl", "auth", "profile"} :
          Len(tables[k]) \in Nat /\ DOMAIN tables[k] = 1 .. Len(tables[k])
  BY <1>1, TableFacts DEF Layout, Kinds
<1>3. CASE run_child(s)
  <2> DEFINE p == tables.acl[c.acl].profile
             r == [c EXCEPT !.at = "named", !.profile = p]
  <2>1. /\ c.at = "forked" /\ sess' = [sess EXCEPT ![s] = r]
        /\ UNCHANGED <<disk, loader, tables>>
    BY <1>1, <1>3 DEF run_child
  <2>2. p \in DOMAIN tables.profile /\ p # NULL
    BY <1>2, <2>1, ClientFacts DEF NULL
  <2>3. p \in 0 .. Len(tables.profile)
    BY <1>2, <2>2
  <2> HIDE DEF p
  <2>4. ClientOK(r)
    BY <1>1, <2>1, <2>2, <2>3 DEF ClientOK, Client, Places
  <2>5. r.at \notin Counted /\ c.at \notin Counted
    BY <1>1, <2>1 DEF Counted
  <2> HIDE DEF r
  <2> QED
    BY <2>1, <2>4, <2>5, QuietChild
<1>4. CASE cmdauthinfo_refused(s)
  <2> DEFINE r == [c EXCEPT !.at = "on"]
  <2>1. /\ c.at = "module" /\ sess' = [sess EXCEPT ![s] = r]
        /\ UNCHANGED <<disk, loader, tables>>
    BY <1>1, <1>4 DEF cmdauthinfo_refused
  <2>2. ClientOK(r)
    BY <1>1, <2>1 DEF ClientOK, Client, Places
  <2>3. r.at \in Counted /\ c.at \in Counted /\ r.profile = c.profile
    BY <1>1, <2>1 DEF Counted
  <2> HIDE DEF r
  <2> QED
    BY <2>1, <2>2, <2>3, QuietChild
<1>5. CASE \E u \in Users : FindModule(s, u)
  <2> PICK u \in Users : FindModule(s, u)
    BY <1>5
  <2> DEFINE a == getauth(u)
             r == [c EXCEPT !.at = "module", !.auth = a]
  <2>1. /\ c.at = "on" /\ sess' = [sess EXCEPT ![s] = r] /\ a # NULL
        /\ UNCHANGED <<disk, loader, tables>>
    BY <1>1 DEF FindModule
  <2>2. a \in DOMAIN tables.auth
    BY <1>1, <2>1, Lookups
  <2>3. a \in 0 .. Len(tables.auth)
    BY <1>2, <2>2
  <2> HIDE DEF a
  <2>4. ClientOK(r)
    BY <1>1, <2>1, <2>3 DEF ClientOK, Client, Places
  <2>5. r.at \in Counted /\ c.at \in Counted /\ r.profile = c.profile
    BY <1>1, <2>1 DEF Counted
  <2> HIDE DEF r
  <2> QED
    BY <2>1, <2>4, <2>5, QuietChild
<1> QED
  BY <1>3, <1>4, <1>5

LEMMA CountedOnce ==
    ASSUME Layout, NEW p \in DOMAIN tables.profile, NEW n,
           tables' = [tables EXCEPT !.profile = Counter(tables.profile, p, n)]
    PROVE  /\ \A j \in DOMAIN tables.profile :
                  tables'.profile[j].connections =
                      IF j = p THEN n ELSE tables.profile[j].connections
           /\ tables'.profile = Counter(tables.profile, p, n)
<1>1. IsTable("profile", tables.profile) /\ "profile" \in DOMAIN tables
  BY DEF Layout, Kinds
<1>2. tables'.profile = Counter(tables.profile, p, n)
  BY <1>1
<1> QED
  BY <1>1, <1>2, CounterChange

LEMMA RegisterRefs ==
    ASSUME RefInv, Inv', Grown, NEW s \in Sessions, Register(s)
    PROVE  RefInv'
<1> DEFINE c == sess[s]
           fail == prof_iplookup(tables.acl[c.acl].profile, c.addr)
           p == IF fail # NULL THEN fail ELSE c.profile
           r == [c EXCEPT !.at = "on", !.profile = p]
           n == tables.profile[p].connections + 1
           t == tables.profile
<1>1. /\ ClientOK(c) /\ DOMAIN sess = Sessions /\ Layout
      /\ DOMAIN c = {"at", "addr", "acl", "profile", "auth"}
      /\ c \in Client
  BY ClientFacts DEF RefInv, Inv, ClientOK
<1>2. /\ c.at = "named" /\ sess' = [sess EXCEPT ![s] = r]
      /\ tables' = [tables EXCEPT !.profile = Counter(t, p, n)]
      /\ UNCHANGED <<disk, loader>>
  BY <1>1 DEF Register, Counter, Layout, Kinds
<1>3. /\ tables.acl[c.acl].profile \in DOMAIN t /\ c.profile \in DOMAIN t
  BY <1>2, ClientFacts
<1>4. p \in DOMAIN t
  BY <1>3, FallBack
<1>5. Len(t) \in Nat /\ DOMAIN t = 1 .. Len(t) /\ IsTable("profile", t)
  BY <1>1, TableFacts DEF Layout, Kinds
<1>6. p \in 0 .. Len(t) /\ p # NULL
  BY <1>4, <1>5 DEF NULL
<1> HIDE DEF p, n
<1>7. ClientOK(r)
  BY <1>1, <1>2, <1>6 DEF ClientOK, Client, Places
<1>8. c.at \notin Counted /\ r.at \in Counted /\ r.profile = p
  BY <1>1, <1>2 DEF Counted
<1> HIDE DEF r
<1>9. UNCHANGED tables \/ Recounted
  <2>1. SameProfiles(t, Counter(t, p, n))
    BY <1>5, CounterSame
  <2> QED
    BY <1>1, <1>2, <2>1, RecountStep
<1>10. ASSUME NEW j \in DOMAIN tables.profile
       PROVE  tables'.profile[j].connections =
                  tables.profile[j].connections + Counts(r, j) - Counts(c, j)
  <2>1. tables'.profile[j].connections =
            IF j = p THEN n ELSE tables.profile[j].connections
    BY <1>1, <1>2, <1>4, CountedOnce
  <2>2. tables.profile[j].connections \in Nat
    BY Connections
  <2>3. Counts(r, j) = (IF j = p THEN 1 ELSE 0) /\ Counts(c, j) = 0
    BY <1>8 DEF Counts
  <2> QED
    BY <2>1, <2>2, <2>3 DEF n
<1> QED
  BY <1>2, <1>7, <1>9, <1>10, ChildKeeps

\* The count that is dropped was one.
LEMMA DroppedOne ==
    ASSUME RefInv, NEW s \in Sessions, sess[s].at \in Counted,
           NEW p, p = sess[s].profile
    PROVE  /\ p \in DOMAIN tables.profile
           /\ tables.profile[p].connections \in Nat
           /\ tables.profile[p].connections > 0
           /\ Dropped(s) = [tables EXCEPT !.profile = Counter(tables.profile, p,
                                tables.profile[p].connections - 1)]
<1>1. p \in DOMAIN tables.profile
  BY ClientFacts DEF Counted
<1>2. Counts(sess[s], p) = 1
  BY DEF Counts
<1>3. tables.profile[p].connections \in Nat /\ tables.profile[p].connections > 0
  BY <1>1, <1>2, Connections
<1>4. "profile" \in DOMAIN tables
  BY DEF RefInv, Inv, Layout, Kinds
<1> QED
  BY <1>1, <1>3, <1>4 DEF Dropped, Counter

LEMMA CloseRefs ==
    ASSUME RefInv, Inv', Grown, NEW s \in Sessions, close_child(s)
    PROVE  RefInv'
<1> DEFINE c == sess[s]
           p == c.profile
           n == tables.profile[p].connections - 1
           t == tables.profile
           r == [at |-> "none", addr |-> 0, acl |-> NULL, profile |-> NULL,
                 auth |-> NULL]
<1>1. Layout /\ c.at \in Counted /\ sess' = [sess EXCEPT ![s] = r]
      /\ UNCHANGED <<disk, loader>>
  BY DEF RefInv, Inv, close_child
<1>2. /\ p \in DOMAIN t /\ t[p].connections \in Nat /\ t[p].connections > 0
      /\ tables' = [tables EXCEPT !.profile = Counter(t, p, n)]
  BY <1>1, DroppedOne DEF close_child
<1>3. IsTable("profile", t)
  BY <1>1 DEF Layout, Kinds
<1>4. ClientOK(r)
  <2>1. \A k \in {"acl", "auth", "profile"} : Len(tables[k]) \in Nat
    BY <1>1, TableFacts DEF Layout, Kinds
  <2>2. 0 \in 0 .. Len(tables.acl) /\ 0 \in 0 .. Len(tables.profile)
        /\ 0 \in 0 .. Len(tables.auth)
    BY <2>1
  <2> QED
    BY <2>2, SessionsAssumption DEF ClientOK, Client, Places, NULL
<1>5. r.at \notin Counted
  BY DEF Counted
<1> HIDE DEF r
<1>6. UNCHANGED tables \/ Recounted
  <2>1. SameProfiles(t, Counter(t, p, n))
    BY <1>3, CounterSame
  <2> QED
    BY <1>1, <1>2, <2>1, RecountStep
<1>7. ASSUME NEW j \in DOMAIN tables.profile
      PROVE  tables'.profile[j].connections =
                 tables.profile[j].connections + Counts(r, j) - Counts(c, j)
  <2>1. tables'.profile[j].connections =
            IF j = p THEN n ELSE tables.profile[j].connections
    BY <1>1, <1>2, CountedOnce
  <2>2. tables.profile[j].connections \in Nat
    BY Connections
  <2>3. Counts(r, j) = 0 /\ Counts(c, j) = IF j = p THEN 1 ELSE 0
    BY <1>1, <1>5 DEF Counts
  <2> QED
    BY <2>1, <2>2, <2>3
<1> QED
  BY <1>1, <1>4, <1>6, <1>7, ChildKeeps

LEMMA AuthinfoRefs ==
    ASSUME RefInv, Inv', Grown, NEW s \in Sessions, cmdauthinfo(s)
    PROVE  RefInv'
<1> DEFINE c == sess[s]
           old == c.profile
           new == NewProfile(s)
           t == tables.profile
           r == [c EXCEPT !.at = "authenticated", !.profile = new]
<1>1. /\ ClientOK(c) /\ DOMAIN sess = Sessions /\ Layout
      /\ DOMAIN c = {"at", "addr", "acl", "profile", "auth"}
      /\ c \in Client
  BY ClientFacts DEF RefInv, Inv, ClientOK
<1>2. /\ c.at = "module" /\ sess' = [sess EXCEPT ![s] = r]
      /\ UNCHANGED <<disk, loader>>
      /\ tables' = IF new = old THEN tables
                   ELSE [Dropped(s) EXCEPT !.profile[new].connections = @ + 1]
  BY <1>1 DEF cmdauthinfo
<1>3. tables.auth[c.auth].profile \in DOMAIN t
  BY <1>2, ClientFacts
<1>4. new \in DOMAIN t
  BY <1>3, FallBack DEF NewProfile
<1>5. Len(t) \in Nat /\ DOMAIN t = 1 .. Len(t) /\ IsTable("profile", t)
  BY <1>1, TableFacts DEF Layout, Kinds
<1>6. new \in 0 .. Len(t) /\ new # NULL
  BY <1>4, <1>5 DEF NULL
<1> HIDE DEF new
<1>7. ClientOK(r)
  BY <1>1, <1>2, <1>6 DEF ClientOK, Client, Places
<1>8. c.at \in Counted /\ r.at \in Counted /\ r.profile = new
  BY <1>1, <1>2 DEF Counted
<1> HIDE DEF r
<1>9. CASE new = old
  BY <1>2, <1>7, <1>8, <1>9, QuietChild
<1>10. CASE new # old
  <2> DEFINE n == t[old].connections - 1
             u == Counter(t, old, n)
             m == t[new].connections + 1
  <2>1. /\ old \in DOMAIN t /\ t[old].connections \in Nat
        /\ t[old].connections > 0
        /\ Dropped(s) = [tables EXCEPT !.profile = u]
    BY <1>8, DroppedOne
  <2>2. /\ IsTable("profile", u) /\ DOMAIN u = DOMAIN t
        /\ \A i \in DOMAIN t : u[i].connections =
                                   IF i = old THEN n ELSE t[i].connections
    BY <1>5, <2>1, CounterChange
  <2>3. u[new].connections = t[new].connections
    BY <1>4, <1>10, <2>2
  <2> HIDE DEF u, n
  <2>4. "profile" \in DOMAIN tables
    BY <1>1 DEF Layout, Kinds
  <2>5. Dropped(s).profile = u
    BY <2>1, <2>4
  <2>6. tables' = [Dropped(s) EXCEPT !.profile = Counter(u, new, m)]
    BY <1>2, <1>10, <2>1, <2>3, <2>4, <2>5 DEF Counter
  <2>7. tables' = [tables EXCEPT !.profile = Counter(u, new, m)]
    BY <2>1, <2>6
  <2>8. \A i \in DOMAIN t : Counter(u, new, m)[i].connections =
                                IF i = new THEN m ELSE u[i].connections
    BY <1>4, <2>2, CounterChange
  <2>9. SameProfiles(t, Counter(u, new, m))
    <3>1. SameProfiles(t, u) /\ SameProfiles(u, Counter(u, new, m))
      BY <1>5, <2>2, CounterSame DEF u
    <3> QED
      BY <3>1 DEF SameProfiles
  <2>10. UNCHANGED tables \/ Recounted
    BY <1>1, <2>7, <2>9, RecountStep
  <2>11. tables'.profile = Counter(u, new, m)
    BY <2>4, <2>7
  <2> HIDE DEF m
  <2>12. ASSUME NEW j \in DOMAIN tables.profile
         PROVE  tables'.profile[j].connections =
                    tables.profile[j].connections + Counts(r, j) - Counts(c, j)
    <3>1. tables'.profile[j].connections =
              IF j = new THEN m ELSE IF j = old THEN n ELSE t[j].connections
      BY <2>2, <2>8, <2>11
    <3>2. t[j].connections \in Nat
      BY Connections
    <3>3. /\ Counts(r, j) = IF j = new THEN 1 ELSE 0
          /\ Counts(c, j) = IF j = old THEN 1 ELSE 0
      BY <1>8 DEF Counts
    <3> QED
      BY <1>10, <3>1, <3>2, <3>3 DEF m, n
  <2> QED
    BY <1>2, <1>7, <2>10, <2>12, ChildKeeps
<1> QED
  BY <1>9, <1>10

-----------------------------------------------------------------------------
(* The invariant of references.                                            *)

LEMMA AccessCheckRefs ==
    ASSUME RefInv, Inv', NEW s \in Sessions, NEW a \in Clients, access_check(s, a)
    PROVE  RefInv'
<1> DEFINE c == sess[s]
           g == getacl(a)
           p == tables.acl[g].profile
           r == [c EXCEPT !.at = "forked", !.addr = a, !.acl = g]
<1>1. /\ ClientOK(c) /\ DOMAIN sess = Sessions /\ Layout
      /\ DOMAIN c = {"at", "addr", "acl", "profile", "auth"}
      /\ c \in Client
  BY ClientFacts DEF RefInv, Inv, ClientOK
<1>2. /\ loader.at = "select" /\ c.at = "none" /\ g # NULL
      /\ UNCHANGED <<disk, tables>>
  BY DEF access_check
<1>3. CASE p = NULL
  <2>1. UNCHANGED <<tables, sess>> /\ loader' = [loader EXCEPT !.at = "dead"]
    BY <1>2, <1>3 DEF access_check
  <2>2. loader'.at # "keys"
    BY <1>2, <2>1 DEF RefInv, Inv, LoaderOK, LoaderFields
  <2>3. Draft'
    BY <2>2 DEF Draft
  <2> QED
    BY <2>1, <2>3, TablesIdle DEF RefInv
<1>4. CASE p # NULL
  <2>1. UNCHANGED loader /\ sess' = [sess EXCEPT ![s] = r]
    BY <1>1, <1>4 DEF access_check
  <2>2. g \in DOMAIN tables.acl
    BY <1>1, <1>2, Lookups
  <2>3. Len(tables.acl) \in Nat /\ DOMAIN tables.acl = 1 .. Len(tables.acl)
    BY <1>1, TableFacts DEF Layout, Kinds
  <2>4. g \in 0 .. Len(tables.acl)
    BY <2>2, <2>3
  <2> HIDE DEF g
  <2>5. ClientOK(r)
    <3>1. a \in Addresses
      BY FileAssumption
    <3> QED
      BY <1>1, <1>2, <1>4, <2>4, <3>1 DEF ClientOK, Client, Places
  <2>6. r.at \notin Counted /\ c.at \notin Counted
    BY <1>1, <1>2 DEF Counted
  <2> HIDE DEF r
  <2> QED
    BY <1>2, <2>1, <2>5, <2>6, QuietChild
<1> QED
  BY <1>3, <1>4

LEMMA InitRefs == Init => RefInv
<1> SUFFICES ASSUME Init PROVE RefInv
  OBVIOUS
<1>1. Inv
  BY InitInv
<1>2. DOMAIN <<>> = {} /\ Len(<<>>) = 0
  BY EmptySeq
<1>3. \A k \in Kinds : tables[k] = <<>>
  BY DEF Init
<1>4. {"acl", "auth", "profile"} \subseteq Kinds
  BY DEF Kinds
<1>5. Refs /\ DefaultFirst /\ ConnectionsKept
  BY <1>2, <1>3, <1>4 DEF Refs, DefaultFirst, ConnectionsKept
<1>6. Draft
  BY DEF Init, Draft
<1>7. SessOK
  <2>1. 0 \in 0 .. Len(tables.acl) /\ 0 \in 0 .. Len(tables.profile)
        /\ 0 \in 0 .. Len(tables.auth)
    BY <1>2, <1>3, <1>4
  <2> QED
    BY <2>1, SessionsAssumption DEF Init, SessOK, Places, NULL
<1> QED
  BY <1>1, <1>5, <1>6, <1>7 DEF RefInv

LEMMA NextRefs == RefInv /\ [Next]_vars => RefInv'
<1> SUFFICES ASSUME RefInv, [Next]_vars PROVE RefInv'
  OBVIOUS
<1>1. Inv /\ Inv' /\ Grown
  BY NextInv DEF RefInv
<1>2. ASSUME UNCHANGED <<tables, sess>>, loader'.at # "keys"
      PROVE  RefInv'
  <2>1. Draft'
    BY <1>2 DEF Draft
  <2> QED
    BY <1>1, <1>2, <2>1, TablesIdle DEF RefInv
<1>3. CASE Listener
  <2>0. DOMAIN loader = LoaderFields
    BY <1>1 DEF Inv, LoaderOK
  <2>1. CASE ReadInclude \/ SkipWildmat \/ load_access_conf \/ die
    <3>1. UNCHANGED <<tables, sess>> /\ loader'.at # "keys"
      BY <2>0, <2>1 DEF ReadInclude, SkipWildmat, load_access_conf, die,
                        LoaderFields
    <3> QED
      BY <1>2, <3>1
  <2>6. CASE \E remote \in RemoteConfigs : reload_access_conf(remote)
    <3> PICK remote \in RemoteConfigs : reload_access_conf(remote)
      BY <2>6
    <3>0. OnlyWildmats
      BY <1>1, ReloadChanges DEF Inv
    <3>1. UNCHANGED sess /\ loader'.at # "keys" /\ OnlyWildmats
      BY <2>0, <3>0 DEF reload_access_conf, LoaderFields
    <3>2. Draft'
      BY <3>1 DEF Draft
    <3>3. Layout'
      BY <1>1 DEF Inv
    <3> QED
      BY <1>1, <3>1, <3>2, <3>3, WildmatsKeep DEF RefInv
  <2>2. CASE ReadStatement
    BY <2>2, ReadStatementRefs
  <2>3. CASE ReadKey
    BY <2>3, ReadKeyRefs
  <2>4. CASE EndStatement
    BY <2>4, EndStatementRefs
  <2>5. CASE \E s \in Sessions, a \in Clients : access_check(s, a)
    BY <1>1, <2>5, AccessCheckRefs
  <2> QED
    BY <1>3, <2>1, <2>2, <2>3, <2>4, <2>5, <2>6 DEF Listener
<1>4. CASE \E s \in Sessions : Child(s)
  <2> PICK s \in Sessions : Child(s)
    BY <1>4
  <2>1. CASE Register(s)
    BY <1>1, <2>1, RegisterRefs
  <2>2. CASE cmdauthinfo(s)
    BY <1>1, <2>2, AuthinfoRefs
  <2>3. CASE close_child(s)
    BY <1>1, <2>3, CloseRefs
  <2>4. CASE \/ run_child(s) \/ cmdauthinfo_refused(s)
             \/ \E u \in Users : FindModule(s, u)
    BY <1>1, <2>4, QuietSteps
  <2> QED
    BY <2>1, <2>2, <2>3, <2>4 DEF Child
<1>5. ASSUME UNCHANGED <<loader, tables, sess>> PROVE RefInv'
  <2>1. Draft'
    <3>1. /\ Statement' = Statement /\ Entry' = Entry /\ IsNew' = IsNew
          /\ Find("profile", "default")' = Find("profile", "default")
          /\ OrElse(Statement.profile, "default")' =
                 OrElse(Statement.profile, "default")
      BY <1>5 DEF Entry, IsNew, Statement, Find, OrElse
    <3>2. \A name : Find("profile", name)' = Find("profile", name)
      BY <1>5 DEF Find
    <3>3. \A k, e : EntryRefs(tables', k, e) = EntryRefs(tables, k, e)
      BY <1>5
    <3>4. EntryRefs(tables, Statement.kind, Entry)' =
              EntryRefs(tables, Statement.kind, Entry)
      BY <1>5, <3>1 DEF EntryRefs, Named
    <3> QED
      BY <1>5, <3>1, <3>2, <3>4 DEF RefInv, Draft
  <2> QED
    BY <1>1, <1>5, <2>1, TablesIdle DEF RefInv
<1>6. CASE \E f \in Files : EditFile(f)
  BY <1>5, <1>6 DEF EditFile
<1>7. CASE UNCHANGED vars
  BY <1>5, <1>7 DEF vars
<1> QED
  BY <1>3, <1>4, <1>6, <1>7 DEF Next

LEMMA RefInvHolds == Spec => []RefInv
  BY InitRefs, NextRefs, PTL DEF Spec

\* What sessions hold of the tables are entries of them, and no counter of a
\* profile leaves 0 .. the number of sessions.
THEOREM TypeCorrect == Spec => []TypeOK
<1>1. RefInv => TypeOK
  <2> SUFFICES ASSUME RefInv PROVE TypeOK
    OBVIOUS
  <2>1. \A i \in DOMAIN tables.profile :
            tables.profile[i].connections \in 0 .. Cardinality(Sessions)
    BY Connections
  <2> QED
    BY <2>1 DEF RefInv, Inv, LoaderOK, Layout, SessOK, TypeOK
<1> QED
  BY <1>1, RefInvHolds, PTL

\* PROFILE.connections counts the sessions in the profile, however the file is
\* changed and reread under them, and wherever the parser dies.
THEOREM CountersKept == Spec => []ConnectionsKept
<1>1. RefInv => ConnectionsKept
  BY DEF RefInv
<1> QED
  BY <1>1, RefInvHolds, PTL

-----------------------------------------------------------------------------
(* References never dangle, when the files list the default profile first. *)

HostSettings(keys) ==
    \A j \in DOMAIN keys : keys[j].field = "Hostname" => keys[j].value # ""

Ready == Find("profile", "default") # NULL \/ DefaultListed(loader.todo)

\* What an entry says once it is in its table.
EntryDefined(k, e) ==
    /\ k = "acl" => e.profile # NULL
    /\ k = "profile" => e.conf.Hostname # ""

DefInv ==
    /\ RefInv /\ Ready
    /\ \A k \in Kinds : \A i \in DOMAIN tables[k] : EntryDefined(k, tables[k][i])
    /\ loader.at = "keys" =>
           /\ Statement.kind = "acl" => Entry.profile # NULL
           /\ Statement.kind = "profile" => HostSettings(loader.keys)

CarefulFiles == \A f \in Files : DefaultListed(f)

\* The tables change by an entry or not at all.
LEMMA DefinedWritten ==
    ASSUME DefInv, NEW k \in Kinds, NEW i, NEW e,
           UNCHANGED tables \/ (Rewritten(k, i, e) /\ EntryDefined(k, e)),
           NEW m \in Kinds, NEW j \in DOMAIN tables'[m]
    PROVE  EntryDefined(m, tables'[m][j])
<1>1. CASE UNCHANGED tables
  BY <1>1 DEF DefInv
<1>2. CASE Rewritten(k, i, e) /\ EntryDefined(k, e)
  <2>1. CASE m = k /\ j = i
    BY <1>2, <2>1 DEF Rewritten
  <2>2. CASE ~ (m = k /\ j = i)
    BY <1>2, <2>2 DEF Rewritten, DefInv
  <2> QED
    BY <2>1, <2>2
<1> QED
  BY <1>1, <1>2

LEMMA WriteRewrites ==
    ASSUME Layout, NEW k \in Kinds,
           NEW i \in 1 .. Len(tables[k]) + 1, NEW e, Write(k, i, e)
    PROVE  \/ i \notin DOMAIN tables[k] /\ UNCHANGED tables
           \/ i \in DOMAIN tables[k] /\ Rewritten(k, i, e)
<1>1. /\ DOMAIN tables = Kinds /\ Len(tables[k]) \in Nat
      /\ DOMAIN tables[k] = 1 .. Len(tables[k])
  BY TableFacts DEF Layout
<1>2. CASE i <= Len(tables[k])
  <2>1. i \in DOMAIN tables[k]
    BY <1>1, <1>2
  <2>2. tables' = [tables EXCEPT ![k] = [tables[k] EXCEPT ![i] = e]]
    BY <1>2 DEF Write
  <2> QED
    BY <1>1, <2>1, <2>2 DEF Rewritten
<1>3. CASE ~ i <= Len(tables[k])
  BY <1>1, <1>3 DEF Write
<1> QED
  BY <1>2, <1>3

\* What is listed before a statement of a file is listed when its head is gone.
LEMMA TailListed ==
    ASSUME NEW f, IsFile(f), f # <<>>, DefaultListed(f), ~ IsDefault(f[1])
    PROVE  DefaultListed(Tail(f))
<1>1. IsSequence(f) /\ Len(f) \in Nat /\ DOMAIN f = 1 .. Len(f)
  BY SeqFacts DEF IsFile
<1>2. /\ IsSequence(Tail(f)) /\ Len(Tail(f)) = Len(f) - 1 /\ Len(f) >= 1
      /\ \A i \in 1 .. Len(f) - 1 : Tail(f)[i] = f[i + 1]
  BY <1>1, SeqTail
<1>3. DOMAIN Tail(f) = 1 .. Len(f) - 1
  BY <1>2, SeqFacts
<1>4. ASSUME NEW i \in DOMAIN Tail(f), Relies(Tail(f)[i])
      PROVE  Listed(Tail(f), i)
  <2>1. i + 1 \in DOMAIN f /\ Tail(f)[i] = f[i + 1]
    BY <1>1, <1>2, <1>3
  <2>2. Listed(f, i + 1)
    BY <1>4, <2>1 DEF DefaultListed
  <2>3. PICK m \in 1 .. i + 1 - 1 : IsDefault(f[m])
    BY <2>2 DEF Listed
  <2>4. m # 1 /\ m - 1 \in 1 .. i - 1 /\ m - 1 \in 1 .. Len(f) - 1
    BY <1>1, <1>3, <2>1, <2>3
  <2>5. Tail(f)[m - 1] = f[m]
    BY <1>2, <2>4
  <2> QED
    BY <2>3, <2>4, <2>5 DEF Listed
<1> QED
  BY <1>4 DEF DefaultListed

LEMMA IncludeListed ==
    ASSUME NEW f, IsFile(f), f # <<>>, DefaultListed(f), f[1].kind = "include",
           f[1].name \in DOMAIN Includes
    PROVE  DefaultListed(Includes[f[1].name] \o Tail(f))
<1> DEFINE g == Includes[f[1].name]
           h == Tail(f)
<1>1. IsFile(g)
  <2>1. g \in Range(Includes)
    BY DEF Range
  <2> QED
    BY <2>1, FileAssumption
<1>2. /\ IsSequence(f) /\ Len(f) \in Nat /\ DOMAIN f = 1 .. Len(f)
      /\ IsSequence(g) /\ Len(g) \in Nat /\ DOMAIN g = 1 .. Len(g)
  BY <1>1, SeqFacts DEF IsFile
<1>3. IsSequence(h) /\ Len(h) = Len(f) - 1 /\ Len(f) >= 1
  BY <1>2, SeqTail
<1>4. Len(h) \in Nat /\ DOMAIN h = 1 .. Len(h)
  BY <1>3, SeqFacts
<1>5. ~ IsDefault(f[1])
  BY DEF IsDefault
<1>6. DefaultListed(h)
  BY <1>5, TailListed
<1>7. 1 \in DOMAIN f /\ ~ Listed(f, 1)
  BY <1>2, <1>3 DEF Listed
<1>8. ~ Relies(f[1])
  BY <1>7 DEF DefaultListed
<1>9. \A i \in DOMAIN g : Unnamed(g[i]) => Listed(g, i)
  BY <1>8 DEF Relies
<1>10. \A i \in DOMAIN g : g[i].kind # "include"
  BY FileAssumption
<1> HIDE DEF g, h
<1>11. /\ IsSequence(g \o h) /\ Len(g \o h) = Len(g) + Len(h)
       /\ \A i \in 1 .. Len(g) : (g \o h)[i] = g[i]
       /\ \A i \in 1 .. Len(h) : (g \o h)[Len(g) + i] = h[i]
  <2>1. IsSequence(g) /\ IsSequence(h)
    BY <1>2, <1>3
  <2> QED
    BY <2>1, SeqConcat
<1>12. DOMAIN (g \o h) = 1 .. Len(g) + Len(h)
  BY <1>11, SeqFacts
<1>13. ASSUME NEW i \in DOMAIN (g \o h), Relies((g \o h)[i])
       PROVE  Listed(g \o h, i)
  <2>1. CASE i <= Len(g)
    <3>1. i \in DOMAIN g /\ (g \o h)[i] = g[i]
      BY <1>2, <1>11, <1>12, <2>1
    <3>2. Listed(g, i)
      BY <1>9, <1>10, <1>13, <3>1 DEF Relies
    <3>3. PICK m \in 1 .. i - 1 : IsDefault(g[m])
      BY <3>2 DEF Listed
    <3>4. m \in 1 .. Len(g)
      BY <1>2, <3>1, <3>3
    <3>5. (g \o h)[m] = g[m]
      BY <1>11, <3>4
    <3> QED
      BY <3>3, <3>5 DEF Listed
  <2>2. CASE ~ i <= Len(g)
    <3> DEFINE j == i - Len(g)
    <3>1. j \in 1 .. Len(h) /\ i = Len(g) + j
      BY <1>2, <1>4, <1>12, <2>2
    <3>2. (g \o h)[i] = h[j]
      BY <1>11, <3>1
    <3>3. Listed(h, j)
      BY <1>4, <1>6, <1>13, <3>1, <3>2 DEF DefaultListed
    <3>4. PICK m \in 1 .. j - 1 : IsDefault(h[m])
      BY <3>3 DEF Listed
    <3>5. m \in 1 .. Len(h) /\ Len(g) + m \in 1 .. i - 1
      BY <1>2, <1>4, <3>1, <3>4
    <3>6. (g \o h)[Len(g) + m] = h[m]
      BY <1>11, <3>5
    <3> QED
      BY <3>4, <3>5, <3>6 DEF Listed
  <2> QED
    BY <2>1, <2>2
<1> QED
  BY <1>13 DEF DefaultListed, g, h

LEMMA DefaultStays ==
    ASSUME Layout, Layout', Grown, Find("profile", "default") # NULL
    PROVE  Ready'
  BY FindStays DEF Ready, Kinds

LEMMA NothingListed == DefaultListed(<<>>)
  BY EmptySeq DEF DefaultListed

\* Steps that leave the tables alone and the statements to read.
LEMMA DefinedIdle ==
    ASSUME DefInv, UNCHANGED tables,
           Find("profile", "default") # NULL \/ DefaultListed(loader'.todo),
           loader'.at # "keys", RefInv'
    PROVE  DefInv'
<1>1. Ready'
  BY DEF Ready, Find
<1> QED
  BY <1>1 DEF DefInv, EntryDefined

LEMMA DefinedIdleSteps ==
    ASSUME CarefulFiles, DefInv, RefInv',
           \/ \E remote : reload_access_conf(remote)
           \/ ReadInclude \/ SkipWildmat \/ load_access_conf \/ die
    PROVE  DefInv'
<1>1. Inv /\ LoaderOK /\ DOMAIN loader = LoaderFields /\ IsFile(loader.todo)
  BY DEF DefInv, RefInv, Inv, LoaderOK
<1>2. CASE \E remote : reload_access_conf(remote)
  <2> PICK remote : reload_access_conf(remote)
    BY <1>2
  <2>0. OnlyWildmats
    BY <1>1, ReloadChanges DEF Inv
  <2>1. loader'.todo = disk /\ loader'.at = "read" /\ OnlyWildmats
    BY <1>1, <2>0 DEF reload_access_conf, LoaderFields
  <2>2. DefaultListed(disk)
    BY <1>1 DEF CarefulFiles, Inv
  <2>3. Ready'
    BY <2>1, <2>2 DEF Ready
  <2>4. ASSUME NEW k \in Kinds, NEW i \in DOMAIN tables'[k]
        PROVE  EntryDefined(k, tables'[k][i])
    <3>1. CASE k = "wildmat"
      BY <3>1 DEF EntryDefined
    <3>2. CASE k # "wildmat"
      <4>1. tables'[k] = tables[k]
        BY <2>1, <3>2 DEF OnlyWildmats
      <4>2. EntryDefined(k, tables[k][i])
        BY <2>4, <4>1 DEF DefInv
      <4> QED
        BY <4>1, <4>2
    <3> QED
      BY <3>1, <3>2
  <2> QED
    BY <2>1, <2>3, <2>4 DEF DefInv, EntryDefined
<1>6. CASE SkipWildmat
  <2>1. /\ loader'.todo = Tail(loader.todo) /\ loader'.at = "read"
        /\ UNCHANGED tables /\ loader.todo # <<>> /\ Statement.kind = "wildmat"
    BY <1>1, <1>6 DEF SkipWildmat, Skipped, LoaderFields
  <2>2. ~ IsDefault(loader.todo[1])
    BY <1>1, <2>1, HeadStatement DEF IsDefault
  <2>3. DefaultListed(loader.todo) => DefaultListed(loader'.todo)
    BY <1>1, <2>1, <2>2, TailListed
  <2> QED
    BY <2>1, <2>3, DefinedIdle DEF DefInv, Ready
<1>3. CASE ReadInclude
  <2>1. /\ loader'.todo = Includes[Statement.name] \o Tail(loader.todo)
        /\ loader'.at = "read" /\ UNCHANGED tables
    BY <1>1, <1>3 DEF ReadInclude, LoaderFields
  <2>2. /\ loader.todo # <<>> /\ Statement.kind = "include"
        /\ Statement.name \in DOMAIN Includes
    BY <1>3 DEF ReadInclude, StatementFails, Kinds
  <2>3. Statement = loader.todo[1]
    BY <1>1, <2>2, HeadStatement
  <2>4. DefaultListed(loader.todo) => DefaultListed(loader'.todo)
    BY <1>1, <2>1, <2>2, <2>3, IncludeListed
  <2> QED
    BY <2>1, <2>4, DefinedIdle DEF DefInv, Ready
<1>4. CASE load_access_conf
  <2>1. loader'.todo = loader.todo /\ loader'.at = "select" /\ UNCHANGED tables
    BY <1>1, <1>4 DEF load_access_conf, LoaderFields
  <2> QED
    BY <2>1, DefinedIdle DEF DefInv, Ready
<1>5. CASE die
  <2>1. loader'.todo = <<>> /\ loader'.at = "dead" /\ UNCHANGED tables
    BY <1>1, <1>5 DEF die, LoaderFields
  <2> QED
    BY <2>1, NothingListed, DefinedIdle
<1> QED
  BY <1>2, <1>3, <1>4, <1>5, <1>6

LEMMA DefinedOpened ==
    ASSUME DefInv, loader.todo # <<>>, NEW k \in Kinds, k = Statement.kind,
           ~ StatementFails(Statement), NEW i, i = Find(k, Statement.name),
           NEW e, e = Opened(Statement, i)
    PROVE  /\ i # NULL => EntryDefined(k, e)
           /\ k = "acl" => e.profile # NULL
<1>1. Layout /\ LoaderOK /\ IsFile(loader.todo)
  BY DEF DefInv, RefInv, Inv, LoaderOK
<1>2. i # NULL => i \in DOMAIN tables[k]
  BY <1>1, FindFacts
<1>3. CASE k = "acl"
  <2> DEFINE p == OrElse(Statement.profile, "default")
  <2>1. e = [name |-> Statement.name, flags |-> {}, profile |-> Find("profile", p)]
    BY <1>3 DEF Opened, OpenedAcl
  <2>2. Statement.profile # "" => Find("profile", p) # NULL
    BY <1>3 DEF StatementFails, OrElse
  <2>3. Statement.profile = "" => Find("profile", "default") # NULL
    <3>1. SUFFICES ASSUME Statement.profile = "", DefaultListed(loader.todo)
                   PROVE  FALSE
      BY DEF DefInv, Ready
    <3>2. IsSequence(loader.todo)
      BY <1>1 DEF IsFile
    <3>3. /\ Statement = loader.todo[1] /\ Len(loader.todo) >= 1
          /\ Len(loader.todo) \in Nat /\ DOMAIN loader.todo = 1 .. Len(loader.todo)
      BY <1>1, <3>2, HeadStatement, SeqTail, SeqFacts
    <3>4. 1 \in DOMAIN loader.todo /\ Relies(loader.todo[1])
      <4>1. Unnamed(Statement)
        BY <1>3, <3>1 DEF Unnamed
      <4>2. Relies(loader.todo[1])
        BY <3>3, <4>1 DEF Relies
      <4> QED
        BY <3>3, <4>2
    <3>5. Listed(loader.todo, 1)
      BY <3>1, <3>4 DEF DefaultListed
    <3> QED
      BY <3>5 DEF Listed
  <2>4. Find("profile", p) # NULL
    BY <2>2, <2>3 DEF OrElse
  <2> QED
    BY <1>3, <2>1, <2>4 DEF EntryDefined
<1>4. CASE k = "profile"
  <2>1. i # NULL => e = tables.profile[i]
    BY <1>4 DEF Opened
  <2> QED
    BY <1>2, <1>4, <2>1 DEF EntryDefined, DefInv
<1>5. CASE k \notin {"acl", "profile"}
  BY <1>5 DEF EntryDefined
<1> QED
  BY <1>3, <1>4, <1>5

LEMMA DefinedStored ==
    ASSUME DefInv, loader.at = "keys", loader.keys # <<>>,
           NEW k, k = Statement.kind,
           NEW e, e = Stored(k, Entry, Head(loader.keys))
    PROVE  /\ ~ IsNew => EntryDefined(k, e)
           /\ k = "acl" => e.profile # NULL
           /\ k = "profile" => HostSettings(Tail(loader.keys))
<1> DEFINE key == Head(loader.keys)
<1>1. Layout /\ Filling
  BY DEF DefInv, RefInv, Inv, LoaderOK
<1>2. /\ k \in Kinds /\ k \in KeyKinds /\ Shape(k, Entry)
      /\ IsSequence(loader.keys)
  BY <1>1 DEF Filling
<1>3. Len(tables[k]) \in Nat /\ DOMAIN tables[k] = 1 .. Len(tables[k])
  BY <1>1, <1>2, TableFacts DEF Layout
<1>4. ~ IsNew => Entry = tables[k][loader.entry] /\ loader.entry \in DOMAIN tables[k]
  BY <1>1, <1>3 DEF Filling, IsNew, Entry
<1>5. ~ IsNew => EntryDefined(k, Entry)
  BY <1>2, <1>4 DEF DefInv
<1>6. /\ key = loader.keys[1] /\ 1 \in DOMAIN loader.keys
      /\ IsSequence(Tail(loader.keys))
      /\ Len(loader.keys) \in Nat /\ DOMAIN loader.keys = 1 .. Len(loader.keys)
      /\ Len(Tail(loader.keys)) = Len(loader.keys) - 1
      /\ \A i \in 1 .. Len(loader.keys) - 1 : Tail(loader.keys)[i] = loader.keys[i + 1]
  BY <1>2, SeqTail, SeqFacts
<1>7. CASE k = "profile"
  <2>1. HostSettings(loader.keys)
    BY <1>7 DEF DefInv
  <2>2. HostSettings(Tail(loader.keys))
    <3>1. DOMAIN Tail(loader.keys) = 1 .. Len(loader.keys) - 1
      BY <1>6, SeqFacts
    <3>2. ASSUME NEW j \in DOMAIN Tail(loader.keys)
          PROVE  j + 1 \in DOMAIN loader.keys
                     /\ Tail(loader.keys)[j] = loader.keys[j + 1]
      BY <1>6, <3>1
    <3> QED
      BY <2>1, <3>2 DEF HostSettings
  <2>3. DOMAIN Entry = {"name", "conf", "connections"}
        /\ DOMAIN Entry.conf = ConfFields("profile")
    BY <1>2, <1>7 DEF Shape, Fields
  <2>4. e = [Entry EXCEPT !.conf =
                 [Entry.conf EXCEPT ![key.field] = Resolve(key.field, key.value)]]
    BY <1>7, <2>3 DEF Stored
  <2>5. e.conf.Hostname = IF key.field = "Hostname" THEN key.value
                          ELSE Entry.conf.Hostname
    BY <2>3, <2>4 DEF ConfFields, Resolve
  <2>6. key.field = "Hostname" => key.value # ""
    BY <1>6, <2>1 DEF HostSettings
  <2> QED
    BY <1>5, <1>7, <2>2, <2>5, <2>6 DEF EntryDefined
<1>8. CASE k = "acl"
  <2>1. DOMAIN Entry = {"name", "flags", "profile"}
    BY <1>2, <1>8 DEF Shape, Fields
  <2>2. e = [Entry EXCEPT !.flags = Entry.flags \cup {key}]
    BY <1>8, <2>1 DEF Stored
  <2>3. e.profile = Entry.profile
    BY <2>1, <2>2
  <2> QED
    BY <1>8, <2>3 DEF EntryDefined, DefInv
<1>9. CASE k \notin {"profile", "acl"}
  BY <1>9 DEF EntryDefined
<1> QED
  BY <1>7, <1>8, <1>9

LEMMA ReadStatementDefined ==
    ASSUME DefInv, RefInv', ReadStatement
    PROVE  DefInv'
<1> DEFINE k == Statement.kind
           found == Find(k, Statement.name)
           i == IF found # NULL THEN found ELSE Len(tables[k]) + 1
           e == Opened(Statement, found)
<1>1. /\ loader.at = "read" /\ loader.todo # <<>> /\ k \in Kinds
      /\ ~ StatementFails(Statement) /\ Write(k, i, e)
  BY DEF ReadStatement
<1>2. Inv /\ Layout /\ LoaderOK /\ DOMAIN loader = LoaderFields /\ IsFile(loader.todo)
  BY DEF DefInv, RefInv, Inv, LoaderOK
<1>3. Inv' /\ Grown /\ Layout'
  BY <1>2, ReadStatementStep DEF Inv
<1>4. Shape(k, e) /\ e.name = Statement.name
  BY <1>1, <1>2, OpenedShape
<1>5. \/ found = NULL /\ i = Len(tables[k]) + 1
      \/ found # NULL /\ i = found /\ i \in DOMAIN tables[k]
         /\ tables[k][i].name = Statement.name
  BY <1>1, <1>2, FindFacts
<1>6. Len(tables[k]) \in Nat /\ DOMAIN tables[k] = 1 .. Len(tables[k])
  BY <1>1, <1>2, TableFacts DEF Layout
<1>7. i \in 1 .. Len(tables[k]) + 1 /\ (found = NULL <=> i \notin DOMAIN tables[k])
  BY <1>5, <1>6
<1>8. /\ found # NULL => EntryDefined(k, e)
      /\ k = "acl" => e.profile # NULL
  BY <1>1, DefinedOpened
<1>9. k = "profile" => HostSettings(KeysOf(Statement))
  <2>1. Statement = loader.todo[1] /\ 1 \in DOMAIN loader.todo
    <3>1. IsSequence(loader.todo)
      BY <1>2 DEF IsFile
    <3>2. Len(loader.todo) >= 1 /\ Len(loader.todo) \in Nat
          /\ DOMAIN loader.todo = 1 .. Len(loader.todo)
      BY <1>1, <3>1, SeqTail, SeqFacts
    <3> QED
      BY <1>1, <1>2, <3>2, HeadStatement
  <2> QED
    BY <1>2, <2>1 DEF IsFile, IsStatement, HostSettings, KeysOf
<1>10. k = Statement.kind
  OBVIOUS
<1> HIDE DEF k, found, i, e
<1>11. /\ loader'.at = "keys" /\ loader'.todo = loader.todo
       /\ loader'.keys = KeysOf(Statement)
       /\ Statement' = Statement /\ Entry' = e
  <2>1. i \in DOMAIN tables[k] => e.name = tables[k][i].name
    BY <1>4, <1>5, <1>7
  <2> QED
    BY <1>1, <1>2, <1>4, <1>7, <1>10, <2>1, WriteStep
<1>12. UNCHANGED tables \/ (Rewritten(k, i, e) /\ EntryDefined(k, e))
  BY <1>1, <1>2, <1>7, <1>8, WriteRewrites
<1>13. \A m \in Kinds : \A j \in DOMAIN tables'[m] : EntryDefined(m, tables'[m][j])
  BY <1>1, <1>12, DefinedWritten
<1>14. Ready'
  BY <1>2, <1>3, <1>11, DefaultStays DEF Ready, DefInv
<1> QED
  BY <1>8, <1>9, <1>10, <1>11, <1>13, <1>14 DEF DefInv, EntryDefined

LEMMA ReadKeyDefined ==
    ASSUME DefInv, RefInv', ReadKey
    PROVE  DefInv'
<1> DEFINE k == Statement.kind
           i == loader.entry
           e == Stored(k, Entry, Head(loader.keys))
<1>1. /\ loader.at = "keys" /\ loader.keys # <<>> /\ Write(k, i, e)
  BY DEF ReadKey
<1>2. Inv /\ Layout /\ DOMAIN loader = LoaderFields /\ Filling
  BY <1>1 DEF DefInv, RefInv, Inv, LoaderOK
<1>3. Inv' /\ Grown /\ Layout'
  BY <1>2, ReadKeyStep DEF Inv
<1>4. /\ k \in KeyKinds /\ k \in Kinds /\ Shape(k, Entry)
      /\ Entry.name = Statement.name /\ i \in 1 .. Len(tables[k]) + 1
      /\ loader.todo # <<>>
  BY <1>1, <1>2 DEF Filling
<1>5. Shape(k, e) /\ e.name = Statement.name
  BY <1>4, StoredShape
<1>6. Len(tables[k]) \in Nat /\ DOMAIN tables[k] = 1 .. Len(tables[k])
  BY <1>2, <1>4, TableFacts DEF Layout
<1>7. IsNew <=> i \notin DOMAIN tables[k]
  BY <1>4, <1>6 DEF IsNew
<1>8. i \in DOMAIN tables[k] => Entry = tables[k][i]
  BY <1>7 DEF Entry
<1>9. /\ ~ IsNew => EntryDefined(k, e)
      /\ k = "acl" => e.profile # NULL
      /\ k = "profile" => HostSettings(Tail(loader.keys))
  BY <1>1, DefinedStored
<1>10. k = Statement.kind
  OBVIOUS
<1> HIDE DEF k, i, e
<1>11. /\ loader'.at = "keys" /\ loader'.todo = loader.todo
       /\ loader'.keys = Tail(loader.keys)
       /\ Statement' = Statement /\ Entry' = e
  <2>1. i \in DOMAIN tables[k] => e.name = tables[k][i].name
    BY <1>4, <1>5, <1>8
  <2> QED
    BY <1>1, <1>2, <1>4, <1>5, <1>10, <2>1, WriteStep
<1>12. UNCHANGED tables \/ (Rewritten(k, i, e) /\ EntryDefined(k, e))
  BY <1>1, <1>2, <1>4, <1>7, <1>9, WriteRewrites
<1>13. \A m \in Kinds : \A j \in DOMAIN tables'[m] : EntryDefined(m, tables'[m][j])
  BY <1>4, <1>12, DefinedWritten
<1>14. Ready'
  BY <1>2, <1>3, <1>11, DefaultStays DEF Ready, DefInv
<1> QED
  BY <1>9, <1>10, <1>11, <1>13, <1>14 DEF DefInv, EntryDefined

\* The end of a statement adds its entry to the table, if it was a new one.
LEMMA EndRewrites ==
    ASSUME Inv, EndStatement, NEW k, k = Statement.kind
    PROVE  \/ ~ IsNew /\ UNCHANGED tables
           \/ /\ IsNew /\ Entry = loader.draft
              /\ Rewritten(k, Len(tables[k]) + 1, loader.draft)
<1> DEFINE i == Len(tables[k]) + 1
           e == loader.draft
<1>1. k \in Kinds /\ Layout
  BY DEF Inv, LoaderOK, Filling, EndStatement
<1>2. IsTable(k, tables[k]) /\ DOMAIN tables = Kinds
  BY <1>1 DEF Layout
<1>3. Len(tables[k]) \in Nat /\ DOMAIN tables[k] = 1 .. Len(tables[k])
  BY <1>2, TableFacts
<1>4. CASE ~ IsNew
  BY <1>4 DEF EndStatement
<1>5. CASE IsNew
  <2>1. tables' = [tables EXCEPT ![k] = Append(tables[k], e)]
    BY <1>5 DEF EndStatement
  <2> HIDE DEF i, e
  <2>2. /\ IsSequence(Append(tables[k], e))
        /\ Len(Append(tables[k], e)) = Len(tables[k]) + 1
        /\ \A j \in DOMAIN tables[k] : Append(tables[k], e)[j] = tables[k][j]
        /\ Append(tables[k], e)[Len(tables[k]) + 1] = e
    BY <1>2, SeqAppend DEF IsTable
  <2>3. DOMAIN Append(tables[k], e) = 1 .. Len(tables[k]) + 1
    BY <2>2, SeqFacts
  <2>4. DOMAIN tables'[k] = DOMAIN tables[k] \cup {i}
    BY <1>1, <1>2, <1>3, <2>1, <2>3 DEF i
  <2>5. \A j \in DOMAIN tables'[k] :
            tables'[k][j] = IF j = i THEN e ELSE tables[k][j]
    BY <1>1, <1>2, <2>1, <2>2, <2>4 DEF i
  <2>6. Rewritten(k, i, e)
    BY <1>2, <2>1, <2>4, <2>5 DEF Rewritten
  <2>7. Entry = e
    BY <1>5 DEF Entry, e
  <2> QED
    BY <1>5, <2>6, <2>7 DEF i, e
<1> QED
  BY <1>4, <1>5

LEMMA EndStatementDefined ==
    ASSUME DefInv, RefInv', EndStatement
    PROVE  DefInv'
<1> DEFINE k == Statement.kind
           i == Len(tables[k]) + 1
           e == loader.draft
<1>1. /\ Inv /\ Layout /\ LoaderOK /\ DOMAIN loader = LoaderFields /\ Filling
      /\ IsFile(loader.todo) /\ loader.at = "keys"
  BY DEF DefInv, RefInv, Inv, LoaderOK, EndStatement
<1>2. Inv' /\ Grown /\ Layout'
  BY <1>1, EndStatementStep DEF Inv
<1>3. loader'.at = "read" /\ loader'.todo = Tail(loader.todo)
  BY <1>1 DEF EndStatement, LoaderFields
<1>4. ~ EntryFails(k, Entry)
  BY DEF EndStatement
<1>5. k \in Kinds /\ Entry.name = Statement.name /\ loader.todo # <<>>
  BY <1>1 DEF Filling
<1>6. IsTable(k, tables[k]) /\ DOMAIN tables = Kinds
  BY <1>1, <1>5 DEF Layout
<1>7. Len(tables[k]) \in Nat /\ DOMAIN tables[k] = 1 .. Len(tables[k])
  BY <1>6, TableFacts
<1>8. UNCHANGED tables \/ (Rewritten(k, i, e) /\ EntryDefined(k, e))
  <2>1. EntryDefined(k, Entry)
    BY <1>1, <1>4 DEF EntryFails, EntryDefined, DefInv
  <2> QED
    BY <1>1, <2>1, EndRewrites
<1>9. k = Statement.kind
  OBVIOUS
<1> HIDE DEF k, i, e
<1>10. \A m \in Kinds : \A j \in DOMAIN tables'[m] : EntryDefined(m, tables'[m][j])
  BY <1>5, <1>8, DefinedWritten
<1>11. Ready'
  <2>1. CASE Find("profile", "default") # NULL
    BY <1>1, <1>2, <2>1, DefaultStays
  <2>2. CASE Find("profile", "default") = NULL /\ ~ IsDefault(Statement)
    <3>1. DefaultListed(loader.todo) /\ Statement = loader.todo[1]
      BY <1>1, <1>5, <2>2, HeadStatement DEF DefInv, Ready
    <3>2. DefaultListed(Tail(loader.todo))
      BY <1>1, <1>5, <2>2, <3>1, TailListed
    <3> QED
      BY <1>3, <3>2 DEF Ready
  <2>3. CASE Find("profile", "default") = NULL /\ IsDefault(Statement)
    <3>1. /\ Statement.kind = "profile" /\ Entry.name = "default" /\ k = "profile"
          /\ "profile" \in Kinds
      BY <1>5, <1>9, <2>3 DEF IsDefault, Kinds
    <3>2. \E j \in DOMAIN tables'.profile : TRUE
      <4>1. CASE IsNew
        <5>1. tables' = [tables EXCEPT !.profile = Append(tables.profile, loader.draft)]
          BY <3>1, <4>1 DEF EndStatement
        <5>2. /\ IsSequence(Append(tables.profile, loader.draft))
              /\ Len(Append(tables.profile, loader.draft)) = Len(tables.profile) + 1
          BY <1>6, <3>1, SeqAppend DEF IsTable
        <5>3. DOMAIN Append(tables.profile, loader.draft)
                  = 1 .. Len(tables.profile) + 1
          BY <5>2, SeqFacts
        <5> QED
          BY <1>6, <1>7, <3>1, <5>1, <5>3
      <4>2. CASE ~ IsNew
        <5>1. loader.entry \in DOMAIN tables.profile
          BY <1>1, <1>7, <3>1, <4>2 DEF Filling, IsNew
        <5>2. UNCHANGED tables
          BY <4>2 DEF EndStatement
        <5> QED
          BY <5>1, <5>2
      <4> QED
        BY <4>1, <4>2
    <3>3. Find("profile", "default")' # NULL
      BY <3>2 DEF RefInv, DefaultFirst
    <3> QED
      BY <3>3 DEF Ready
  <2> QED
    BY <2>1, <2>2, <2>3
<1> QED
  BY <1>3, <1>10, <1>11 DEF DefInv

\* Steps that leave the listener alone and what the tables say.
LEMMA DefinedElsewhere ==
    ASSUME DefInv, RefInv', Grown, UNCHANGED loader,
           UNCHANGED tables \/ Recounted
    PROVE  DefInv'
<1>1. Inv /\ Layout /\ Layout'
  BY DEF DefInv, RefInv, Inv
<1>2. {"acl", "profile"} \subseteq Kinds
  BY DEF Kinds
<1>3. /\ \A k \in Kinds : DOMAIN tables'[k] = DOMAIN tables[k]
                          /\ Len(tables'[k]) = Len(tables[k])
      /\ \A k \in Kinds \ {"profile"} : tables'[k] = tables[k]
      /\ \A i \in DOMAIN tables.profile :
             tables'.profile[i].conf = tables.profile[i].conf
  <2>1. CASE UNCHANGED tables
    BY <2>1
  <2>2. CASE Recounted
    <3>1. DOMAIN tables'.profile = DOMAIN tables.profile
      BY <1>1, <1>2, <2>2, Lengths DEF Recounted
    <3> QED
      BY <2>2, <3>1 DEF Recounted
  <2> QED
    BY <2>1, <2>2
<1>4. ASSUME NEW k \in Kinds, NEW i \in DOMAIN tables'[k]
      PROVE  EntryDefined(k, tables'[k][i])
  <2>1. EntryDefined(k, tables[k][i])
    BY <1>3 DEF DefInv
  <2>2. CASE k = "profile"
    BY <1>3, <2>1, <2>2 DEF EntryDefined
  <2>3. CASE k # "profile"
    BY <1>3, <2>1, <2>3
  <2> QED
    BY <2>2, <2>3
<1>5. Ready'
  BY <1>1, DefaultStays DEF DefInv, Ready
<1>6. Statement' = Statement
  BY DEF Statement
<1>7. ASSUME loader.at = "keys", Statement.kind = "acl"
      PROVE  Entry' = Entry
  <2>1. tables'.acl = tables.acl
    BY <1>2, <1>3
  <2> QED
    BY <1>6, <1>7, <2>1 DEF Entry, IsNew
<1> QED
  BY <1>4, <1>5, <1>6, <1>7 DEF DefInv

LEMMA NextDefined ==
    ASSUME CarefulFiles
    PROVE  DefInv /\ [Next]_vars => DefInv'
<1> SUFFICES ASSUME DefInv, [Next]_vars PROVE DefInv'
  OBVIOUS
<1>1. RefInv /\ RefInv' /\ Inv /\ Grown /\ Layout
  BY NextRefs, NextInv DEF DefInv, RefInv, Inv
<1>2. CASE Listener
  <2>1. CASE \/ \E remote \in RemoteConfigs : reload_access_conf(remote)
             \/ ReadInclude \/ SkipWildmat \/ load_access_conf \/ die
    BY <1>1, <2>1, DefinedIdleSteps
  <2>2. CASE ReadStatement
    BY <1>1, <2>2, ReadStatementDefined
  <2>3. CASE ReadKey
    BY <1>1, <2>3, ReadKeyDefined
  <2>4. CASE EndStatement
    BY <1>1, <2>4, EndStatementDefined
  <2>5. CASE \E s \in Sessions, a \in Clients : access_check(s, a)
    <3>1. /\ loader.at = "select" /\ UNCHANGED tables
          /\ loader' = loader \/ loader' = [loader EXCEPT !.at = "dead"]
      BY <2>5 DEF access_check
    <3>2. /\ loader'.at # "keys" /\ loader'.todo = loader.todo
      BY <1>1, <3>1 DEF Inv, LoaderOK, LoaderFields
    <3> QED
      BY <1>1, <3>1, <3>2, DefinedIdle DEF DefInv, Ready
  <2> QED
    BY <1>2, <2>1, <2>2, <2>3, <2>4, <2>5 DEF Listener
<1>3. CASE \E s \in Sessions : Child(s)
  BY <1>1, <1>3, ChildRecounts, DefinedElsewhere
<1>4. CASE \E f \in Files : EditFile(f)
  BY <1>1, <1>4, DefinedElsewhere DEF EditFile
<1>5. CASE UNCHANGED vars
  BY <1>1, <1>5, DefinedElsewhere DEF vars
<1> QED
  BY <1>2, <1>3, <1>4, <1>5 DEF Next

LEMMA InitDefined == Init => DefInv
<1> SUFFICES ASSUME Init PROVE DefInv
  OBVIOUS
<1>1. RefInv
  BY InitRefs
<1>2. loader.todo = <<>> /\ loader.at = "select" /\ \A k \in Kinds : tables[k] = <<>>
  BY DEF Init
<1>3. Ready
  BY <1>2, NothingListed DEF Ready
<1>4. DOMAIN <<>> = {}
  BY EmptySeq
<1> QED
  BY <1>1, <1>2, <1>3, <1>4 DEF DefInv

LEMMA DefinedNow ==
    ASSUME DefInv
    PROVE  RefsDefined
<1>1. Layout /\ Refs
  BY DEF DefInv, RefInv, Inv
<1>2. {"acl", "auth", "profile", "alias", "pfxmap", "wildmat"} \subseteq Kinds
  BY DEF Kinds
<1>3. Len(tables.profile) \in Nat /\ DOMAIN tables.profile = 1 .. Len(tables.profile)
  BY <1>1, <1>2, TableFacts DEF Layout
<1>4. \A p \in 0 .. Len(tables.profile) : p # NULL => p \in DOMAIN tables.profile
  BY <1>3 DEF NULL
<1>5. ASSUME NEW i \in DOMAIN tables.acl
      PROVE  tables.acl[i].profile \in DOMAIN tables.profile
  <2>1. EntryRefs(tables, "acl", tables.acl[i]) /\ EntryDefined("acl", tables.acl[i])
    BY <1>1, <1>2 DEF Refs, DefInv
  <2> QED
    BY <1>4, <2>1 DEF EntryRefs, EntryDefined
<1>6. ASSUME NEW i \in DOMAIN tables.auth
      PROVE  /\ tables.auth[i].alias \in DOMAIN tables.alias
             /\ tables.auth[i].profile \in DOMAIN tables.profile
  <2>1. EntryRefs(tables, "auth", tables.auth[i]) /\ tables.auth[i].profile # NULL
    BY <1>1, <1>2 DEF Refs
  <2> QED
    BY <1>4, <2>1 DEF EntryRefs
<1>7. ASSUME NEW i \in DOMAIN tables.profile
      PROVE  ProfileDefined(tables.profile[i])
  <2>1. /\ EntryRefs(tables, "profile", tables.profile[i])
        /\ EntryDefined("profile", tables.profile[i])
    BY <1>1, <1>2 DEF Refs, DefInv
  <2> QED
    BY <2>1, FindIsNamed DEF EntryRefs, EntryDefined, ProfileDefined
<1>8. ASSUME NEW s \in Sessions
      PROVE  /\ sess[s].at # "none" => sess[s].acl \in DOMAIN tables.acl
             /\ sess[s].at \notin {"none", "forked"} =>
                    sess[s].profile \in DOMAIN tables.profile
             /\ sess[s].at = "module" => sess[s].auth \in DOMAIN tables.auth
  BY ClientFacts DEF DefInv
<1> QED
  BY <1>5, <1>6, <1>7, <1>8 DEF RefsDefined

\* When every file lists its default profile first, what one table says of
\* another exists at every moment a child may look, half way through a reload
\* and after one that died.
THEOREM DefinedRefs ==
    ASSUME CarefulFiles
    PROVE  Spec => []RefsDefined
<1>1. Spec => []DefInv
  BY InitDefined, NextDefined, PTL DEF Spec
<1>2. DefInv => RefsDefined
  BY DefinedNow
<1> QED
  BY <1>1, <1>2, PTL

-----------------------------------------------------------------------------
(* What a prefix marks in its map.                                         *)

LEMMA DivFacts ==
    ASSUME NEW a \in Nat, NEW n \in Nat \ {0}
    PROVE  a \div n \in Nat /\ n * (a \div n) <= a /\ a < n * (a \div n) + n
  OBVIOUS

LEMMA MulMono ==
    ASSUME NEW x \in Nat, NEW y \in Nat, NEW n \in Nat \ {0}, x < y
    PROVE  n * x + n <= n * y
  OBVIOUS

LEMMA DivRange ==
    ASSUME NEW a \in Nat, NEW c \in Nat, NEW n \in Nat \ {0}
    PROVE  c <= a \div n <=> n * c <= a
<1>1. PICK q : q = a \div n
  OBVIOUS
<1>2. q \in Nat /\ n * q <= a /\ a < n * q + n
  BY <1>1, DivFacts
<1>3. CASE c <= q
  <2>1. n * c <= n * q
    BY <1>2, <1>3
  <2> QED
    BY <1>1, <1>2, <1>3, <2>1
<1>4. CASE q < c
  <2>1. n * q + n <= n * c
    BY <1>2, <1>4, MulMono
  <2> QED
    BY <1>1, <1>2, <1>4, <2>1
<1> QED
  BY <1>2, <1>3, <1>4

LEMMA DivExact ==
    ASSUME NEW c \in Nat, NEW n \in Nat \ {0}
    PROVE  (n * c) \div n = c
  OBVIOUS

LEMMA DivSmall ==
    ASSUME NEW a \in Nat, NEW n \in Nat, a < n
    PROVE  a \div n = 0
  OBVIOUS

LEMMA ModFacts ==
    ASSUME NEW x \in Nat, NEW n \in Nat, x < n
    PROVE  x % n = x /\ n % n = 0
  OBVIOUS

\* A block of m networks of size n that starts at a multiple of its size.
LEMMA BlockMarks ==
    ASSUME NEW a \in Nat, NEW q \in Nat, NEW m \in Nat \ {0}, NEW n \in Nat \ {0}
    PROVE  a \div n \in q * m .. q * m + m - 1 <=>
               a \in q * (m * n) .. q * (m * n) + m * n - 1
<1>1. PICK c : c = q * m
  OBVIOUS
<1>2. c \in Nat /\ c + m \in Nat
  BY <1>1
<1>3. q * (m * n) = n * c /\ q * (m * n) + m * n = n * (c + m)
  BY <1>1
<1>4. PICK d, lo, hi : d = a \div n /\ lo = n * c /\ hi = n * (c + m)
  OBVIOUS
<1>5. d \in Nat /\ lo \in Nat /\ hi \in Nat
  BY <1>2, <1>4, DivFacts
<1>6. (c <= d <=> lo <= a) /\ (c + m <= d <=> hi <= a)
  BY <1>2, <1>4, DivRange
<1>7. d \in c .. c + m - 1 <=> a \in lo .. hi - 1
  BY <1>2, <1>5, <1>6
<1> QED
  BY <1>1, <1>3, <1>4, <1>7

\* An address finds the bit of its network set by a prefix if and only if the
\* prefix covers it, but for the lengths the map cannot hold.
LEMMA PrefixMarks ==
    ASSUME NEW p, IsNet(p), NEW a \in Addresses
    PROVE  pfx_iplookup(a, parse_prefix(p)) <=>
               p.len \in 2 .. NetBits /\ Covers(p, a)
<1>1. PICK A, N, l : A = AddrBits /\ N = NetBits /\ l = p.len
  OBVIOUS
<1>2. A \in Nat /\ N \in 1 .. A - 1 /\ l \in (0 .. A) \ {1}
  BY <1>1, FileAssumption DEF IsNet
<1>3. /\ 2 ^ 0 = 1
      /\ \A m, n \in 0 .. A :
             /\ 2 ^ m \in Nat \ {0}
             /\ m < n => 2 ^ m < 2 ^ n
             /\ m + n <= A => 2 ^ (m + n) = 2 ^ m * 2 ^ n
  BY <1>1, PowerAssumption
<1>4. /\ A - N \in 1 .. A /\ A - l \in 0 .. A /\ A \in 0 .. A /\ 0 \in 0 .. A
      /\ l \in 0 .. A
  BY <1>2
<1>5. PICK S, Z : S = 2 ^ (A - N) /\ Z = 2 ^ (A - l)
  OBVIOUS
<1>6. S \in Nat \ {0} /\ Z \in Nat \ {0}
  BY <1>3, <1>4, <1>5
<1>7. NetSize = S
  BY <1>1, <1>5 DEF NetSize
<1>8. PICK q : q \in 0 .. 2 ^ l - 1 /\ p.start = q * Z
  BY <1>1, <1>5 DEF IsNet
<1>9. q \in Nat /\ p.start \in Nat
  <2>1. 2 ^ l \in Nat
    BY <1>3, <1>4
  <2>2. q \in Nat
    BY <1>8, <2>1
  <2> QED
    BY <1>6, <1>8, <2>2
<1>10. a \in Nat
  <2>1. 2 ^ A \in Nat
    BY <1>3, <1>4
  <2> QED
    BY <1>1, <2>1 DEF Addresses
<1>11. Covers(p, a) <=> a \in q * Z .. q * Z + Z - 1
  BY <1>1, <1>5, <1>8 DEF Covers
<1>12. PICK M : M = MapSize(l)
  OBVIOUS
<1>13. M = 2 ^ ((A - l) % A) \div S
  BY <1>1, <1>7, <1>12 DEF MapSize
<1>14. pfx_iplookup(a, parse_prefix(p)) <=>
           a \div S \in p.start \div S .. p.start \div S + M - 1
  BY <1>1, <1>7, <1>12 DEF pfx_iplookup, parse_prefix
<1>15. CASE l \in 2 .. N
  <2>1. A - l \in Nat /\ A - l < A /\ N - l \in 0 .. A
        /\ (N - l) + (A - N) = A - l /\ (N - l) + (A - N) <= A
    BY <1>2, <1>15
  <2>2. (A - l) % A = A - l
    BY <1>2, <2>1, ModFacts
  <2>3. PICK m : m = 2 ^ (N - l)
    OBVIOUS
  <2>4. m \in Nat \ {0} /\ Z = m * S
    <3>1. 2 ^ ((N - l) + (A - N)) = 2 ^ (N - l) * 2 ^ (A - N)
      BY <1>3, <1>4, <2>1
    <3> QED
      BY <1>3, <1>5, <2>1, <2>3, <3>1
  <2>5. M = m
    <3>1. M = (S * m) \div S
      BY <1>5, <1>6, <1>13, <2>2, <2>4
    <3> QED
      BY <1>6, <2>4, <3>1, DivExact
  <2>6. p.start \div S = q * m
    <3>1. PICK c : c = q * m
      OBVIOUS
    <3>2. c \in Nat /\ p.start = S * c
      BY <1>6, <1>8, <1>9, <2>4, <3>1
    <3> QED
      BY <1>6, <3>1, <3>2, DivExact
  <2>7. a \div S \in q * m .. q * m + m - 1 <=> a \in q * Z .. q * Z + Z - 1
    BY <1>6, <1>9, <1>10, <2>4, BlockMarks
  <2> QED
    BY <1>1, <1>11, <1>14, <1>15, <2>5, <2>6, <2>7
<1>16. CASE l \notin 2 .. N
  <2>1. M = 0
    <3>1. CASE l = 0
      <4>1. (A - l) % A = 0
        BY <1>2, <3>1, ModFacts
      <4>2. 1 < S
        BY <1>3, <1>4, <1>5
      <4>3. M = 1 \div S
        BY <1>3, <1>13, <4>1
      <4> QED
        BY <1>6, <4>2, <4>3, DivSmall
    <3>2. CASE l # 0
      <4>1. A - l \in Nat /\ A - l < A /\ A - l < A - N
        BY <1>2, <1>16, <3>2
      <4>2. (A - l) % A = A - l
        BY <1>2, <4>1, ModFacts
      <4>3. Z < S
        BY <1>3, <1>4, <1>5, <4>1
      <4>4. M = Z \div S
        BY <1>5, <1>13, <4>2
      <4> QED
        BY <1>6, <4>3, <4>4, DivSmall
    <3> QED
      BY <3>1, <3>2
  <2>2. PICK f, d : f = p.start \div S /\ d = a \div S
    OBVIOUS
  <2>3. f \in Nat
    BY <1>6, <1>9, <2>2, DivFacts
  <2>4. d \notin f .. f + M - 1
    BY <2>1, <2>3
  <2> QED
    BY <1>1, <1>14, <1>16, <2>2, <2>4
<1> QED
  BY <1>15, <1>16

-----------------------------------------------------------------------------
(* What the file says is in force, statement by statement.                 *)

ConfKinds == {"profile", "vhost"}

\* The statements of a line of the file, and of its first n lines.
Part(s) == IF s.kind = "include" THEN Includes[s.name] ELSE <<s>>
Parts(file) == [i \in DOMAIN file |-> Part(file[i])]
Flattened(seqs) ==
    LET flatten[i \in 1 .. Len(seqs)] ==
            IF i = 1 THEN seqs[i] ELSE flatten[i - 1] \o seqs[i]
    IN  flatten
Unfolded(file, n) == IF n = 0 THEN <<>> ELSE Flattened(Parts(file))[n]

\* The listener has read k lines, the statements U; of those d are done with.
Reached(U, k, d) ==
    LET open == Len(U) - d
    IN  /\ IsSequence(loader.file) /\ k \in 0 .. Len(loader.file)
        /\ U = Unfolded(loader.file, k) /\ IsSequence(U) /\ d \in 0 .. Len(U)
        /\ \A i \in 1 .. Len(U) : U[i].kind # "include"
        /\ Len(loader.todo) = open + (Len(loader.file) - k)
        /\ \A i \in 1 .. open : loader.todo[i] = U[d + i]
        /\ \A i \in 1 .. Len(loader.file) - k :
               loader.todo[open + i] = loader.file[k + i]

\* What a statement refers to without a setting.
Referred(s) ==
    /\ s.kind = "acl" => Find("profile", OrElse(s.profile, "default")) # NULL
    /\ s.kind = "auth" =>
           /\ Find("alias", OrElse(s.alias, "auth_default")) # NULL
           /\ Find("profile", OrElse(s.profile, "default")) # NULL
Known(key) == key.field \in Pointers => Resolve(key.field, key.value) # NULL

InTable(s) == tables[s.kind][Find(s.kind, s.name)]
IsOpen(s) == loader.at = "keys" /\ SameEntry(s, Statement)
EntryOf(s) == IF IsOpen(s) THEN Entry ELSE InTable(s)

NamesTold(U, d) ==
    \A i \in 1 .. d :
        /\ U[i].kind \in Kinds /\ Referred(U[i])
        /\ Skipped(U[i]) \/ Find(U[i].kind, U[i].name) # NULL

\* Each statement that is the last of its name so far, but the one being read
\* and those skipped.
StatementsTold(U, d) ==
    \A i \in 1 .. d :
        /\ U[i].kind \notin ConfKinds /\ ~ IsOpen(U[i]) /\ ~ Skipped(U[i])
        /\ \A m \in i + 1 .. d : ~ SameEntry(U[i], U[m])
        => SaysWhat(U[i], InTable(U[i]))

\* Setting n of statement m is stored, c settings of the open statement are.
Done(d, c, m, n) == m <= d \/ (m = d + 1 /\ n \in 1 .. c)
LastDone(U, d, c, i, j) ==
    \A m \in i .. Len(U) : SameEntry(U[i], U[m]) =>
        \A n \in DOMAIN U[m].keys :
            Done(d, c, m, n) /\ U[m].keys[n].field = U[i].keys[j].field
                => m = i /\ n <= j
SettingsTold(U, d, c) ==
    \A i \in 1 .. Len(U) : U[i].kind \in ConfKinds =>
        \A j \in DOMAIN U[i].keys : Done(d, c, i, j) =>
            /\ Known(U[i].keys[j])
            /\ LastDone(U, d, c, i, j) =>
                   EntryOf(U[i]).conf[U[i].keys[j].field]
                       = Resolve(U[i].keys[j].field, U[i].keys[j].value)

\* What the open entry says after c keys of statement s.
SaysSoFar(s, c, e) ==
    /\ s.kind = "acl" => /\ e.flags = {s.keys[n] : n \in 1 .. c}
                         /\ e.profile = Find("profile", OrElse(s.profile, "default"))
    /\ s.kind = "auth" =>
           /\ e.alias = Find("alias", OrElse(s.alias, "auth_default"))
           /\ c = 1 => e.profile = Find("profile", OrElse(s.profile, "default"))
    /\ s.kind = "pfxmap" => e.map = UNION {parse_prefix(s.keys[n]) : n \in 1 .. c}
    /\ s.kind \notin KeyKinds => e.value = s.value
Consumed(s, c) ==
    /\ IsSequence(KeysOf(s)) /\ c \in 0 .. Len(KeysOf(s))
    /\ Len(loader.keys) = Len(KeysOf(s)) - c
    /\ \A j \in 1 .. Len(KeysOf(s)) - c : loader.keys[j] = KeysOf(s)[c + j]

Progress(U, k, d, c) ==
    /\ Reached(U, k, d)
    /\ NamesTold(U, d) /\ StatementsTold(U, d) /\ SettingsTold(U, d, c)
    /\ IF loader.at = "keys"
       THEN /\ d < Len(U) /\ Consumed(Statement, c)
            /\ Referred(Statement) /\ SaysSoFar(Statement, c, Entry)
       ELSE c = 0

Joined(f, seqs, i) == IF i = 1 THEN seqs[i] ELSE f[i - 1] \o seqs[i]
IsFlattened(f, seqs) == f = [i \in 1 .. Len(seqs) |-> Joined(f, seqs, i)]

LEMMA FlattenedExists ==
    ASSUME NEW seqs, Len(seqs) \in Nat
    PROVE  \E f : IsFlattened(f, seqs)
<1> DEFINE N == Len(seqs)
           Upto(f, k) == \A i \in 1 .. N : i <= k => f[i] = Joined(f, seqs, i)
           T == {k \in Nat : ~ \E f : Upto(f, k)}
<1>0. N \in Nat
  OBVIOUS
<1> HIDE DEF N
<1>1. ASSUME NEW k \in Nat, NEW f, Upto(f, k)
      PROVE  \E g : Upto(g, k + 1)
  <2> DEFINE g == [i \in 1 .. N |-> Joined(f, seqs, i)]
  <2>1. \A i \in 1 .. N : g[i] = Joined(f, seqs, i)
    OBVIOUS
  <2> HIDE DEF g
  <2>2. ASSUME NEW i \in 1 .. N, i <= k + 1
        PROVE  g[i] = Joined(g, seqs, i)
    <3>1. CASE i = 1
      BY <2>1, <3>1 DEF Joined
    <3>2. CASE i # 1
      <4>1. i - 1 \in 1 .. N /\ i - 1 <= k
        BY <1>0, <2>2, <3>2
      <4>2. f[i - 1] = g[i - 1]
        BY <1>1, <2>1, <4>1
      <4> QED
        BY <2>1, <4>2 DEF Joined
    <3> QED
      BY <3>1, <3>2
  <2> QED
    BY <2>2
<1>2. T = {}
  <2> SUFFICES ASSUME T # {} PROVE FALSE
    OBVIOUS
  <2>1. PICK k \in T : \A j \in T : k <= j
    BY LeastNumber
  <2>2. CASE k = 0
    <3> DEFINE f == [i \in 1 .. N |-> seqs]
    <3>1. Upto(f, 0)
      BY <1>0
    <3> HIDE DEF f, Upto
    <3> QED
      BY <2>1, <2>2, <3>1
  <2>3. CASE k # 0
    <3> HIDE DEF Upto
    <3>1. k - 1 \in Nat /\ k - 1 \notin T /\ (k - 1) + 1 = k
      BY <2>1, <2>3
    <3>2. PICK f : Upto(f, k - 1)
      BY <3>1
    <3>3. \E g : Upto(g, (k - 1) + 1)
      BY <1>1, <3>1, <3>2
    <3> QED
      BY <2>1, <3>1, <3>3
  <2> QED
    BY <2>2, <2>3
<1>3. PICK f : Upto(f, N)
  BY <1>0, <1>2
<1> DEFINE g == [i \in 1 .. N |-> Joined(f, seqs, i)]
           h == [i \in 1 .. N |-> Joined(g, seqs, i)]
<1>4. \A i \in 1 .. N : g[i] = Joined(f, seqs, i)
  OBVIOUS
<1>5. \A i \in 1 .. N : f[i] = g[i]
  <2>1. \A i \in 1 .. N : i <= N
    BY <1>0
  <2> HIDE DEF g
  <2> QED
    BY <1>3, <1>4, <2>1
<1>6. ASSUME NEW i \in 1 .. N
      PROVE  g[i] = h[i]
  <2>1. h[i] = Joined(g, seqs, i)
    OBVIOUS
  <2> HIDE DEF g, h
  <2>2. CASE i = 1
    BY <1>4, <2>1, <2>2 DEF Joined
  <2>3. CASE i # 1
    <3>1. i - 1 \in 1 .. N
      BY <1>0, <2>3
    <3> QED
      BY <1>4, <1>5, <2>1, <3>1 DEF Joined
  <2> QED
    BY <2>2, <2>3
<1>7. g = h
  BY <1>6
<1>8. IsFlattened(g, seqs)
  <2> HIDE DEF g
  <2> QED
    BY <1>7 DEF IsFlattened, N
<1> QED
  BY <1>8

LEMMA FlattenedIs ==
    ASSUME NEW seqs, Len(seqs) \in Nat
    PROVE  IsFlattened(Flattened(seqs), seqs)
<1> DEFINE s == CHOOSE f : IsFlattened(f, seqs)
<1>1. Flattened(seqs) = s
  BY DEF Flattened, IsFlattened, Joined
<1>2. IsFlattened(s, seqs)
  BY FlattenedExists, Zenon
<1> QED
  BY <1>1, <1>2

LEMMA PartsFacts ==
    ASSUME NEW file, IsSequence(file)
    PROVE  /\ Len(file) \in Nat /\ Len(Parts(file)) = Len(file)
           /\ DOMAIN Parts(file) = 1 .. Len(file)
           /\ \A i \in 1 .. Len(file) : Parts(file)[i] = Part(file[i])
<1>1. Len(file) \in Nat /\ DOMAIN file = 1 .. Len(file)
  BY SeqFacts
<1> DEFINE S == {Part(file[i]) : i \in 1 .. Len(file)}
<1>2. Parts(file) \in [1 .. Len(file) -> S]
  BY <1>1 DEF Parts
<1> HIDE DEF S
<1>3. Len(Parts(file)) = Len(file)
  BY <1>1, <1>2, SeqIntro
<1> QED
  BY <1>1, <1>3 DEF Parts

\* One line more.
LEMMA UnfoldsByOne ==
    ASSUME NEW file, IsSequence(file), NEW n \in 0 .. Len(file) - 1,
           IsSequence(Part(file[n + 1]))
    PROVE  Unfolded(file, n + 1) = Unfolded(file, n) \o Part(file[n + 1])
<1> DEFINE q == Parts(file)
           f == Flattened(q)
           p == Part(file[n + 1])
<1>1. /\ Len(file) \in Nat /\ Len(q) = Len(file)
      /\ n + 1 \in 1 .. Len(file) /\ q[n + 1] = p
  BY PartsFacts
<1>2. IsFlattened(f, q)
  BY <1>1, FlattenedIs
<1> HIDE DEF q, f, p
<1>3. f[n + 1] = Joined(f, q, n + 1)
  BY <1>1, <1>2 DEF IsFlattened
<1>4. Unfolded(file, n + 1) = f[n + 1]
  BY <1>1 DEF Unfolded, f, q
<1>5. CASE n = 0
  <2>1. IsSequence(p)
    BY DEF p
  <2>2. <<>> \o p = p
    BY <2>1, ConcatEmptySeq DEF IsSequence
  <2> QED
    BY <1>1, <1>3, <1>4, <1>5, <2>2 DEF Unfolded, Joined, p
<1>6. CASE n # 0
  <2>1. Unfolded(file, n) = f[n]
    BY <1>6 DEF Unfolded, f, q
  <2>2. n + 1 # 1 /\ (n + 1) - 1 = n
    BY <1>1, <1>6
  <2>3. f[n + 1] = f[n] \o q[n + 1]
    BY <1>3, <2>2 DEF Joined
  <2> QED
    BY <1>1, <1>4, <2>1, <2>3 DEF p
<1> QED
  BY <1>5, <1>6

LEMMA ExpandedUnfolds ==
    ASSUME NEW file, IsSequence(file)
    PROVE  Expanded(file) = Unfolded(file, Len(file))
<1>1. Len(file) \in Nat /\ Len(Parts(file)) = Len(file)
  BY PartsFacts
<1>2. Expanded(file) = FlattenSeq(Parts(file))
  BY DEF Expanded, Parts, Part
<1>3. CASE Len(file) = 0
  <2>1. Parts(file) = <<>>
    BY <1>1, <1>3, PartsFacts
  <2> QED
    BY <1>1, <1>2, <1>3, <2>1 DEF FlattenSeq, Unfolded
<1>4. CASE Len(file) # 0
  BY <1>1, <1>2, <1>4 DEF FlattenSeq, Unfolded, Flattened
<1> QED
  BY <1>3, <1>4

\* What was found is found, and a statement that referred to it still does.
LEMMA KnownStays ==
    ASSUME Layout, Layout', Grown
    PROVE  /\ \A s : s.kind \in Kinds /\ Find(s.kind, s.name) # NULL =>
                  Find(s.kind, s.name)' = Find(s.kind, s.name)
           /\ \A s : Referred(s) =>
                  /\ Referred(s)'
                  /\ \A e : SaysWhat(s, e) => SaysWhat(s, e)'
                  /\ \A c, e : SaysSoFar(s, c, e) => SaysSoFar(s, c, e)'
           /\ \A key : Known(key) =>
                  /\ Known(key)'
                  /\ Resolve(key.field, key.value)' = Resolve(key.field, key.value)
<1>1. \A k \in Kinds : \A n : Find(k, n) # NULL => Find(k, n)' = Find(k, n)
  BY FindStays
<1>2. {"acl", "auth", "profile", "alias", "pfxmap", "wildmat"} \subseteq Kinds
  BY DEF Kinds
<1>3. ASSUME NEW s, Referred(s)
      PROVE  /\ s.kind = "acl" => Find("profile", OrElse(s.profile, "default"))'
                                   = Find("profile", OrElse(s.profile, "default"))
             /\ s.kind = "auth" =>
                    /\ Find("profile", OrElse(s.profile, "default"))'
                           = Find("profile", OrElse(s.profile, "default"))
                    /\ Find("alias", OrElse(s.alias, "auth_default"))'
                           = Find("alias", OrElse(s.alias, "auth_default"))
  BY <1>1, <1>2, <1>3 DEF Referred
<1>4. ASSUME NEW s, Referred(s)
      PROVE  /\ Referred(s)'
             /\ \A e : SaysWhat(s, e) => SaysWhat(s, e)'
             /\ \A c, e : SaysSoFar(s, c, e) => SaysSoFar(s, c, e)'
  <2>1. Referred(s)'
    BY <1>3, <1>4 DEF Referred
  <2>2. ASSUME NEW e, SaysWhat(s, e)
        PROVE  SaysWhat(s, e)'
    <3>1. CASE s.kind = "acl"
      BY <1>3, <1>4, <2>2, <3>1 DEF SaysWhat
    <3>2. CASE s.kind = "auth"
      BY <1>3, <1>4, <2>2, <3>2 DEF SaysWhat
    <3>3. CASE s.kind \notin {"acl", "auth"}
      BY <2>2, <3>3 DEF SaysWhat
    <3> QED
      BY <3>1, <3>2, <3>3
  <2>3. ASSUME NEW c, NEW e, SaysSoFar(s, c, e)
        PROVE  SaysSoFar(s, c, e)'
    BY <1>3, <1>4, <2>3 DEF SaysSoFar
  <2> QED
    BY <2>1, <2>2, <2>3
<1>5. ASSUME NEW key, Known(key)
      PROVE  /\ Known(key)'
             /\ Resolve(key.field, key.value)' = Resolve(key.field, key.value)
  <2>1. CASE key.field \in Pointers
    <3>1. Resolve(key.field, key.value) # NULL
      BY <1>5, <2>1 DEF Known
    <3>2. Resolve(key.field, key.value)' = Resolve(key.field, key.value)
      <4>1. CASE key.field = "Accounting"
        BY <1>1, <1>2, <3>1, <4>1 DEF Resolve
      <4>2. CASE key.field = "PrefixMap"
        BY <1>1, <1>2, <3>1, <4>2 DEF Resolve
      <4>3. CASE key.field = "FailProfile"
        BY <1>1, <1>2, <3>1, <4>3 DEF Resolve
      <4> QED
        BY <2>1, <4>1, <4>2, <4>3 DEF Pointers
    <3> QED
      BY <3>1, <3>2 DEF Known
  <2>2. CASE key.field \notin Pointers
    BY <2>2 DEF Known, Resolve, Pointers
  <2> QED
    BY <2>1, <2>2
<1> QED
  BY <1>1, <1>4, <1>5

\* A step that tells no statement: what the tables say of those that were told
\* stays, and so do the settings of every entry.
LEMMA TellsNothing ==
    ASSUME Layout, Layout', Grown, loader'.remote = loader.remote,
           NEW U, NEW d, NamesTold(U, d), StatementsTold(U, d),
           \A i \in 1 .. d : IsOpen(U[i]) => IsOpen(U[i])',
           \A i \in 1 .. d :
               /\ U[i].kind \notin ConfKinds /\ ~ IsOpen(U[i])'
               /\ Find(U[i].kind, U[i].name) # NULL
               => InTable(U[i])' = InTable(U[i])
    PROVE  NamesTold(U, d)' /\ StatementsTold(U, d)'
<1>0. \A s : Skipped(s)' <=> Skipped(s)
  BY DEF Skipped
<1>1. NamesTold(U, d)'
  BY <1>0, KnownStays DEF NamesTold
<1>2. ASSUME NEW i \in 1 .. d,
             U[i].kind \notin ConfKinds, ~ IsOpen(U[i])', ~ Skipped(U[i])',
             \A m \in i + 1 .. d : ~ SameEntry(U[i], U[m])
      PROVE  SaysWhat(U[i], InTable(U[i]))'
  <2>1. SaysWhat(U[i], InTable(U[i]))
    BY <1>0, <1>2 DEF StatementsTold
  <2>2. InTable(U[i])' = InTable(U[i]) /\ Referred(U[i])
    BY <1>0, <1>2 DEF NamesTold
  <2> DEFINE e == InTable(U[i])
  <2>3. e' = e /\ SaysWhat(U[i], e)
    BY <2>1, <2>2
  <2> QED
    BY <2>2, <2>3, KnownStays
<1> QED
  BY <1>1, <1>2 DEF StatementsTold

LEMMA ConfNamed ==
    ASSUME NEW U, NEW d, NamesTold(U, d), NEW i \in 1 .. d, U[i].kind \in ConfKinds
    PROVE  U[i].kind \in Kinds /\ Find(U[i].kind, U[i].name) # NULL
BY DEF NamesTold, Skipped, ConfKinds

\* A step that stores no setting.
LEMMA SettingsStay ==
    ASSUME Layout, Layout', Grown, NEW U, NEW d, NEW c, SettingsTold(U, d, c),
           \A i \in 1 .. Len(U) :
               U[i].kind \in ConfKinds
                   /\ (\E j \in DOMAIN U[i].keys : Done(d, c, i, j))
               => EntryOf(U[i])'.conf = EntryOf(U[i]).conf
    PROVE  SettingsTold(U, d, c)'
<1>1. ASSUME NEW i \in 1 .. Len(U), U[i].kind \in ConfKinds,
             NEW j \in DOMAIN U[i].keys, Done(d, c, i, j)
      PROVE  /\ Known(U[i].keys[j])'
             /\ LastDone(U, d, c, i, j) =>
                    EntryOf(U[i])'.conf[U[i].keys[j].field]
                        = Resolve(U[i].keys[j].field, U[i].keys[j].value)'
  <2>1. /\ Known(U[i].keys[j])
        /\ LastDone(U, d, c, i, j) =>
               EntryOf(U[i]).conf[U[i].keys[j].field]
                   = Resolve(U[i].keys[j].field, U[i].keys[j].value)
    BY <1>1 DEF SettingsTold
  <2>2. EntryOf(U[i])'.conf = EntryOf(U[i]).conf
    BY <1>1
  <2>3. \A key : Known(key) =>
            /\ Known(key)'
            /\ Resolve(key.field, key.value)' = Resolve(key.field, key.value)
    BY KnownStays
  <2> QED
    BY <2>1, <2>2, <2>3
<1> QED
  BY <1>1 DEF SettingsTold

\* All that changes in the tables is the entry statement s names.
Touches(s) ==
    \/ UNCHANGED tables
    \/ \E x, e : /\ Rewritten(s.kind, x, e)
                 /\ x \in DOMAIN tables[s.kind] => tables[s.kind][x].name = s.name

LEMMA OtherInTable ==
    ASSUME Layout, Layout', Grown, NEW s, s.kind \in Kinds, Touches(s),
           NEW t, t.kind \in Kinds, Find(t.kind, t.name) # NULL,
           ~ SameEntry(t, s)
    PROVE  InTable(t)' = InTable(t)
<1> DEFINE k == s.kind
           m == t.kind
           i == Find(m, t.name)
<1>1. i' = i /\ i \in DOMAIN tables[m] /\ tables[m][i].name = t.name
  BY FindStays, FindFacts
<1>2. InTable(t)' = tables'[m][i] /\ InTable(t) = tables[m][i]
  BY <1>1 DEF InTable
<1>3. ~ (m = k /\ t.name = s.name)
  BY DEF SameEntry
<1> HIDE DEF i
<1>4. CASE UNCHANGED tables
  BY <1>2, <1>4
<1>5. ASSUME NEW x, NEW e, Rewritten(k, x, e),
             x \in DOMAIN tables[k] => tables[k][x].name = s.name
      PROVE  InTable(t)' = InTable(t)
  <2>1. CASE m # k
    BY <1>2, <1>5, <2>1 DEF Rewritten
  <2>2. CASE m = k
    <3>1. i # x
      BY <1>1, <1>3, <1>5, <2>2
    <3>2. i \in DOMAIN tables'[k]
      BY <1>1, <1>5, <2>2 DEF Rewritten
    <3> QED
      BY <1>2, <1>5, <2>2, <3>1, <3>2 DEF Rewritten
  <2> QED
    BY <2>1, <2>2
<1> QED
  BY <1>4, <1>5 DEF Touches

\* The statement being read is the one behind those done with.
LEMMA OpenIsNext ==
    ASSUME LoaderOK, loader.todo # <<>>, NEW U, NEW k, NEW d, Reached(U, k, d),
           d < Len(U)
    PROVE  d + 1 \in 1 .. Len(U) /\ Statement = U[d + 1]
<1>1. Statement = loader.todo[1]
  BY HeadStatement
<1>2. IsSequence(U) /\ d \in 0 .. Len(U)
  BY DEF Reached
<1>3. Len(U) \in Nat
  BY <1>2, SeqFacts
<1>4. 1 \in 1 .. Len(U) - d /\ d + 1 \in 1 .. Len(U)
  BY <1>2, <1>3
<1> QED
  BY <1>1, <1>4 DEF Reached

LEMMA ReachedStays ==
    ASSUME NEW U, NEW k, NEW d, Reached(U, k, d),
           loader'.file = loader.file, loader'.todo = loader.todo
    PROVE  Reached(U, k, d)'
  BY DEF Reached

ForceInv ==
    /\ DefInv
    /\ loader.at # "dead" => \E U, k, d, c : Progress(U, k, d, c)
    /\ loader.at = "select" => loader.todo = <<>>

\* The children change the counters of profiles, which no statement tells.
LEMMA ForceElsewhere ==
    ASSUME ForceInv, DefInv', Grown, UNCHANGED loader,
           UNCHANGED tables \/ Recounted
    PROVE  ForceInv'
<1>1. Layout /\ Layout' /\ DefInv
  BY DEF ForceInv, DefInv, RefInv, Inv
<1>2. {"acl", "profile"} \subseteq Kinds
  BY DEF Kinds
<1>3. /\ \A m \in Kinds : DOMAIN tables'[m] = DOMAIN tables[m]
                          /\ Len(tables'[m]) = Len(tables[m])
      /\ \A m \in Kinds \ {"profile"} : tables'[m] = tables[m]
      /\ \A i \in DOMAIN tables.profile :
             tables'.profile[i].conf = tables.profile[i].conf
  <2>1. CASE UNCHANGED tables
    BY <2>1
  <2>2. CASE Recounted
    <3>1. DOMAIN tables'.profile = DOMAIN tables.profile
      BY <1>1, <1>2, <2>2, Lengths DEF Recounted
    <3> QED
      BY <2>2, <3>1 DEF Recounted
  <2> QED
    BY <2>1, <2>2
<1>4. Statement' = Statement /\ \A s : IsOpen(s)' <=> IsOpen(s)
  BY DEF Statement, IsOpen
<1>5. ASSUME NEW s, s.kind \in Kinds, Find(s.kind, s.name) # NULL
      PROVE  /\ s.kind # "profile" => InTable(s)' = InTable(s)
             /\ InTable(s)'.conf = InTable(s).conf
  <2> DEFINE m == s.kind
             i == Find(m, s.name)
  <2>1. i' = i /\ i \in DOMAIN tables[m]
    BY <1>1, <1>5, FindStays, FindFacts
  <2>2. InTable(s)' = tables'[m][i] /\ InTable(s) = tables[m][i]
    BY <2>1 DEF InTable
  <2> HIDE DEF i
  <2>3. CASE m = "profile"
    BY <1>3, <2>1, <2>2, <2>3
  <2>4. CASE m # "profile"
    BY <1>3, <1>5, <2>2, <2>4
  <2> QED
    BY <2>3, <2>4
<1>6. ASSUME loader.at = "keys"
      PROVE  /\ Statement.kind # "profile" => Entry' = Entry
             /\ Entry'.conf = Entry.conf
  <2> DEFINE m == Statement.kind
  <2>1. m \in Kinds /\ Filling
    BY <1>1, <1>6 DEF Filling, DefInv, RefInv, Inv, LoaderOK
  <2>2. IsNew' <=> IsNew
    BY <1>3, <1>4, <2>1 DEF IsNew
  <2>3. CASE IsNew
    BY <2>2, <2>3 DEF Entry
  <2>4. CASE ~ IsNew
    <3>1. loader.entry \in DOMAIN tables[m]
      BY <1>1, <2>1, <2>4, TableFacts DEF Filling, IsNew, Layout
    <3>2. Entry = tables[m][loader.entry] /\ Entry' = tables'[m][loader.entry]
      BY <1>4, <2>2, <2>4 DEF Entry
    <3> QED
      BY <1>3, <2>1, <3>1, <3>2
  <2> QED
    BY <2>3, <2>4
<1>7. ASSUME loader.at # "dead", NEW U, NEW k, NEW d, NEW c, Progress(U, k, d, c)
      PROVE  Progress(U, k, d, c)'
  <2>1. /\ Reached(U, k, d)
        /\ NamesTold(U, d) /\ StatementsTold(U, d) /\ SettingsTold(U, d, c)
        /\ IF loader.at = "keys"
           THEN /\ d < Len(U) /\ Consumed(Statement, c)
                /\ Referred(Statement) /\ SaysSoFar(Statement, c, Entry)
           ELSE c = 0
    BY <1>7 DEF Progress
  <2>2. Reached(U, k, d)'
    BY <2>1, ReachedStays
  <2>3. NamesTold(U, d)' /\ StatementsTold(U, d)'
    <3>1. \A i \in 1 .. d :
              /\ U[i].kind \notin ConfKinds /\ Find(U[i].kind, U[i].name) # NULL
              => InTable(U[i])' = InTable(U[i])
      BY <1>5, <2>1 DEF NamesTold, ConfKinds
    <3> QED
      BY <1>1, <1>4, <2>1, <3>1, TellsNothing
  <2>4. SettingsTold(U, d, c)'
    <3>1. ASSUME NEW i \in 1 .. Len(U), U[i].kind \in ConfKinds,
                 NEW j \in DOMAIN U[i].keys, Done(d, c, i, j)
          PROVE  EntryOf(U[i])'.conf = EntryOf(U[i]).conf
      <4>1. CASE IsOpen(U[i])
        BY <1>4, <1>6, <4>1 DEF EntryOf, IsOpen
      <4>2. CASE ~ IsOpen(U[i])
        <5>1. EntryOf(U[i]) = InTable(U[i]) /\ EntryOf(U[i])' = InTable(U[i])'
          BY <1>4, <4>2 DEF EntryOf
        <5>2. CASE i \in 1 .. d
          BY <1>5, <2>1, <3>1, <5>1, <5>2, ConfNamed
        <5>3. CASE i \notin 1 .. d
          <6>1. d \in 0 .. Len(U) /\ Len(U) \in Nat
            BY <2>1, SeqFacts DEF Reached
          <6>2. i = d + 1 /\ c # 0
            BY <3>1, <5>3, <6>1 DEF Done
          <6>3. loader.at = "keys" /\ U[i] = Statement
            BY <1>1, <2>1, <6>2, OpenIsNext
               DEF DefInv, RefInv, Inv, LoaderOK, Filling
          <6> QED
            BY <4>2, <6>3 DEF IsOpen, SameEntry
        <5> QED
          BY <5>2, <5>3
      <4> QED
        BY <4>1, <4>2
    <3> QED
      BY <1>1, <2>1, <3>1, SettingsStay
  <2>5. ASSUME loader.at = "keys"
        PROVE  /\ Consumed(Statement, c)' /\ Referred(Statement)'
               /\ SaysSoFar(Statement, c, Entry)'
    <3> DEFINE s == Statement
               e == Entry
    <3>1. Consumed(s, c)'
      BY <1>4, <2>1, <2>5 DEF Consumed
    <3>2. Referred(s) /\ SaysSoFar(s, c, e) /\ s' = s
      BY <1>4, <2>1, <2>5
    <3>3. s.kind # "profile" => e' = e
      BY <1>6, <2>5
    <3> HIDE DEF s, e
    <3>4. Referred(s)' /\ (s.kind # "profile" => SaysSoFar(s, c, e)')
      BY <1>1, <3>2, <3>3, KnownStays
    <3>5. s.kind = "profile" => SaysSoFar(s, c, e)'
      BY <3>2 DEF SaysSoFar, KeyKinds
    <3> QED
      BY <3>1, <3>4, <3>5 DEF s, e
  <2> QED
    BY <2>1, <2>2, <2>3, <2>4, <2>5 DEF Progress
<1> QED
  BY <1>7 DEF ForceInv

\* The tables stay and no statement is open before or after.
LEMMA ToldIdle ==
    ASSUME Layout, UNCHANGED tables, loader'.remote = loader.remote, loader.at # "keys", loader'.at # "keys",
           NEW U, NEW d, NamesTold(U, d), StatementsTold(U, d),
           SettingsTold(U, d, 0)
    PROVE  NamesTold(U, d)' /\ StatementsTold(U, d)' /\ SettingsTold(U, d, 0)'
<1>1. Layout' /\ Grown
  BY NothingGrows
<1>2. \A s : InTable(s)' = InTable(s)
  BY DEF InTable, Find
<1>3. \A s : ~ IsOpen(s) /\ ~ IsOpen(s)'
  BY DEF IsOpen
<1>4. NamesTold(U, d)' /\ StatementsTold(U, d)'
  BY <1>1, <1>2, <1>3, TellsNothing
<1>5. \A s : EntryOf(s)' = EntryOf(s)
  BY <1>2, <1>3 DEF EntryOf
<1>6. SettingsTold(U, d, 0)'
  BY <1>1, <1>5, SettingsStay
<1> QED
  BY <1>4, <1>6

LEMMA ForceIdle ==
    ASSUME ForceInv, DefInv', UNCHANGED tables,
           loader'.file = loader.file, loader'.todo = loader.todo,
           loader'.remote = loader.remote, loader.at \notin {"keys", "dead"}, loader'.at # "keys",
           loader'.at = "select" => loader.todo = <<>>
    PROVE  ForceInv'
<1>1. Layout
  BY DEF ForceInv, DefInv, RefInv, Inv
<1>2. PICK U, k, d, c : Progress(U, k, d, c)
  BY DEF ForceInv
<1>3. /\ Reached(U, k, d) /\ c = 0
      /\ NamesTold(U, d) /\ StatementsTold(U, d) /\ SettingsTold(U, d, c)
  BY <1>2 DEF Progress
<1>4. Reached(U, k, d)'
  BY <1>3, ReachedStays
<1>5. NamesTold(U, d)' /\ StatementsTold(U, d)' /\ SettingsTold(U, d, 0)'
  BY <1>1, <1>3, ToldIdle
<1>6. Progress(U, k, d, 0)'
  BY <1>4, <1>5 DEF Progress
<1> QED
  BY <1>6 DEF ForceInv

LEMMA ReloadForce ==
    ASSUME ForceInv, DefInv', NEW remote, reload_access_conf(remote)
    PROVE  ForceInv'
<1>1. Inv /\ DOMAIN loader = LoaderFields
  BY DEF ForceInv, DefInv, RefInv, Inv, LoaderOK
<1>2. loader'.at = "read" /\ loader'.file = disk /\ loader'.todo = disk
  BY <1>1 DEF reload_access_conf, LoaderFields
<1>3. IsSequence(disk)
  BY <1>1, FileAssumption DEF Inv, IsFile
<1>4. Len(disk) \in Nat
  BY <1>3, SeqFacts
<1>5. IsSequence(<<>>) /\ Len(<<>>) = 0
  BY EmptySeq DEF IsSequence
<1>6. Reached(<<>>, 0, 0)'
  BY <1>2, <1>3, <1>4, <1>5 DEF Reached, Unfolded
<1>7. /\ NamesTold(<<>>, 0)' /\ StatementsTold(<<>>, 0)'
      /\ SettingsTold(<<>>, 0, 0)'
  BY <1>5 DEF NamesTold, StatementsTold, SettingsTold
<1>8. Progress(<<>>, 0, 0, 0)'
  BY <1>2, <1>6, <1>7 DEF Progress
<1> QED
  BY <1>2, <1>8 DEF ForceInv

\* What is told of the first statements of one sequence is told of the first
\* statements of a longer one.
LEMMA ToldLonger ==
    ASSUME NEW U, NEW W, Len(U) \in Nat, Len(W) \in Nat, Len(U) <= Len(W),
           NEW d \in 0 .. Len(U), \A i \in 1 .. Len(U) : W[i] = U[i],
           NamesTold(U, d), StatementsTold(U, d), SettingsTold(U, d, 0)
    PROVE  NamesTold(W, d) /\ StatementsTold(W, d) /\ SettingsTold(W, d, 0)
<1>1. \A i \in 1 .. d : i \in 1 .. Len(U) /\ W[i] = U[i]
  OBVIOUS
<1>2. NamesTold(W, d)
  BY <1>1 DEF NamesTold
<1>3. StatementsTold(W, d)
  <2>1. \A i \in 1 .. d : \A m \in i + 1 .. d : m \in 1 .. d
    OBVIOUS
  <2> QED
    BY <1>1, <2>1 DEF StatementsTold
<1>4. ASSUME NEW i \in 1 .. Len(W), W[i].kind \in ConfKinds,
             NEW j \in DOMAIN W[i].keys, Done(d, 0, i, j)
      PROVE  /\ Known(W[i].keys[j])
             /\ LastDone(W, d, 0, i, j) =>
                    EntryOf(W[i]).conf[W[i].keys[j].field]
                        = Resolve(W[i].keys[j].field, W[i].keys[j].value)
  <2>1. i \in 1 .. d
    BY <1>4 DEF Done
  <2>2. i \in 1 .. Len(U) /\ W[i] = U[i]
    BY <1>1, <2>1
  <2>3. LastDone(W, d, 0, i, j) => LastDone(U, d, 0, i, j)
    <3>1. \A m \in i .. Len(U) : m \in i .. Len(W) /\ W[m] = U[m]
      BY <2>1
    <3> QED
      BY <2>2, <3>1 DEF LastDone
  <2> QED
    BY <1>4, <2>2, <2>3 DEF SettingsTold
<1> QED
  BY <1>2, <1>3, <1>4 DEF SettingsTold

\* The listener is behind the k lines of U; V is the next one, W are all.
Joins(U, k, V, W) ==
    /\ Len(U) \in Nat /\ Len(V) \in Nat /\ Len(W) = Len(U) + Len(V)
    /\ k \in Nat /\ k + 1 \in 0 .. Len(loader.file) /\ Len(loader.file) \in Nat
    /\ Len(loader.todo) = Len(loader.file) - k
    /\ \A i \in 1 .. Len(loader.file) - k : loader.todo[i] = loader.file[k + i]
    /\ IsSequence(W) /\ W = Unfolded(loader.file, k + 1)
    /\ \A i \in 1 .. Len(U) : W[i] = U[i]
    /\ \A i \in 1 .. Len(V) : W[Len(U) + i] = V[i]
    /\ \A i \in 1 .. Len(W) : W[i].kind # "include"

LEMMA LineJoins ==
    ASSUME LoaderOK, loader.todo # <<>>,
           NEW U, NEW k, NEW d, Reached(U, k, d), d = Len(U),
           NEW V, V = Part(Statement), IsSequence(V),
           \A i \in 1 .. Len(V) : V[i].kind # "include",
           NEW W, W = U \o V
    PROVE  Joins(U, k, V, W)
<1>1. /\ IsSequence(loader.file) /\ IsSequence(U) /\ IsSequence(loader.todo)
      /\ k \in 0 .. Len(loader.file) /\ U = Unfolded(loader.file, k)
      /\ Len(loader.todo) = (Len(U) - d) + (Len(loader.file) - k)
      /\ \A i \in 1 .. Len(loader.file) - k :
             loader.todo[(Len(U) - d) + i] = loader.file[k + i]
  BY DEF Reached, LoaderOK, IsFile
<1>2. Len(U) \in Nat /\ Len(V) \in Nat /\ Len(loader.file) \in Nat
  BY <1>1, SeqFacts
<1>3. Len(loader.todo) >= 1 /\ Len(U) - d = 0
  BY <1>1, <1>2, SeqTail
<1>4. /\ Len(loader.todo) = Len(loader.file) - k
      /\ k + 1 \in 0 .. Len(loader.file) /\ k \in 0 .. Len(loader.file) - 1
      /\ 1 \in 1 .. Len(loader.file) - k /\ k \in Nat
  <2>1. /\ k \in 0 .. Len(loader.file)
        /\ Len(loader.todo) = 0 + (Len(loader.file) - k)
    BY <1>1, <1>3
  <2>2. Len(loader.todo) = Len(loader.file) - k
    BY <1>2, <2>1
  <2> QED
    BY <1>2, <1>3, <2>1, <2>2
<1>5. \A i \in 1 .. Len(loader.file) - k : loader.todo[i] = loader.file[k + i]
  <2>1. \A i \in 1 .. Len(loader.file) - k : (Len(U) - d) + i = i
    BY <1>1, <1>2, <1>3
  <2> QED
    BY <1>1, <2>1
<1>6. Statement = loader.file[k + 1]
  BY <1>4, <1>5, HeadStatement
<1>7. W = Unfolded(loader.file, k + 1)
  BY <1>1, <1>4, <1>6, UnfoldsByOne
<1>8. /\ IsSequence(W) /\ Len(W) = Len(U) + Len(V)
      /\ \A i \in 1 .. Len(U) : W[i] = U[i]
      /\ \A i \in 1 .. Len(V) : W[Len(U) + i] = V[i]
  BY <1>1, SeqConcat
<1>9. ASSUME NEW i \in 1 .. Len(W)
      PROVE  W[i].kind # "include"
  <2>1. CASE i \in 1 .. Len(U)
    BY <1>8, <2>1 DEF Reached
  <2>2. CASE i \notin 1 .. Len(U)
    <3>1. i - Len(U) \in 1 .. Len(V) /\ Len(U) + (i - Len(U)) = i
      BY <1>2, <1>8, <2>2
    <3> QED
      BY <1>8, <3>1
  <2> QED
    BY <2>1, <2>2
<1> QED
  BY <1>2, <1>4, <1>5, <1>7, <1>8, <1>9 DEF Joins

LEMMA ReadIncludeForce ==
    ASSUME ForceInv, DefInv', ReadInclude
    PROVE  ForceInv'
<1>0. PICK V : V = Includes[Statement.name]
  OBVIOUS
<1>1. LoaderOK /\ Layout /\ DOMAIN loader = LoaderFields
  BY DEF ForceInv, DefInv, RefInv, Inv, LoaderOK
<1>2. /\ loader.at = "read" /\ loader.todo # <<>> /\ Statement.kind = "include"
      /\ Statement.name \in DOMAIN Includes /\ UNCHANGED tables
      /\ loader'.at = "read" /\ loader'.file = loader.file
      /\ loader'.remote = loader.remote
      /\ loader'.todo = V \o Tail(loader.todo)
  BY <1>0, <1>1 DEF ReadInclude, StatementFails, Kinds, LoaderFields
<1>3. PICK U, k, d, c : Progress(U, k, d, c)
  BY <1>2 DEF ForceInv
<1>4. /\ Reached(U, k, d) /\ c = 0
      /\ NamesTold(U, d) /\ StatementsTold(U, d) /\ SettingsTold(U, d, 0)
  BY <1>2, <1>3 DEF Progress
<1>5. d = Len(U) /\ Len(U) \in Nat
  <2>1. IsSequence(U) /\ d \in 0 .. Len(U)
    BY <1>4 DEF Reached
  <2>2. Len(U) \in Nat
    BY <2>1, SeqFacts
  <2>3. ~ d < Len(U)
    <3> SUFFICES ASSUME d < Len(U) PROVE FALSE
      OBVIOUS
    <3>1. d + 1 \in 1 .. Len(U) /\ Statement = U[d + 1]
      BY <1>1, <1>2, <1>4, OpenIsNext
    <3> QED
      BY <1>2, <1>4, <3>1 DEF Reached
  <2> QED
    BY <2>1, <2>2, <2>3
<1>6. /\ IsSequence(V) /\ V = Part(Statement) /\ Len(V) \in Nat
      /\ \A i \in 1 .. Len(V) : V[i].kind # "include"
  <2>1. V \in Range(Includes)
    BY <1>0, <1>2 DEF Range
  <2>2. IsSequence(V)
    BY <2>1, FileAssumption DEF IsFile
  <2>3. Len(V) \in Nat /\ DOMAIN V = 1 .. Len(V)
    BY <2>2, SeqFacts
  <2>4. \A i \in DOMAIN V : V[i].kind # "include"
    BY <1>0, <1>2, FileAssumption
  <2> QED
    BY <1>0, <1>2, <2>2, <2>3, <2>4 DEF Part
<1>7. PICK W : W = U \o V
  OBVIOUS
<1>70. Joins(U, k, V, W)
  BY <1>1, <1>2, <1>4, <1>5, <1>6, <1>7, LineJoins
<1>8. NamesTold(W, d)' /\ StatementsTold(W, d)' /\ SettingsTold(W, d, 0)'
  <2>1. NamesTold(W, d) /\ StatementsTold(W, d) /\ SettingsTold(W, d, 0)
    <3>1. /\ Len(U) \in Nat /\ Len(W) \in Nat /\ Len(U) <= Len(W)
          /\ \A i \in 1 .. Len(U) : W[i] = U[i]
      BY <1>70 DEF Joins
    <3>2. d \in 0 .. Len(U)
      BY <1>5
    <3> QED
      BY <1>4, <3>1, <3>2, ToldLonger
  <2>2. loader.at # "keys" /\ loader'.at # "keys"
    BY <1>2
  <2> QED
    BY <1>1, <1>2, <2>1, <2>2, ToldIdle
<1> DEFINE t == Tail(loader.todo)
           n == Len(loader.file)
<1>9. /\ IsSequence(t) /\ Len(t) = Len(loader.todo) - 1 /\ k \in Nat
      /\ \A i \in 1 .. Len(loader.todo) - 1 : t[i] = loader.todo[i + 1]
  <2>1. IsSequence(loader.todo) /\ k \in 0 .. Len(loader.file)
    BY <1>1, <1>4 DEF LoaderOK, IsFile, Reached
  <2> QED
    BY <1>2, <2>1, SeqTail
<1> HIDE DEF t
<1>10. /\ Len(loader'.todo) = Len(V) + Len(t)
       /\ \A i \in 1 .. Len(V) : loader'.todo[i] = V[i]
       /\ \A i \in 1 .. Len(t) : loader'.todo[Len(V) + i] = t[i]
  BY <1>2, <1>6, <1>9, SeqConcat DEF t
<1>11. Len(W) - d = Len(V) /\ Len(t) = n - (k + 1) /\ d \in 0 .. Len(W)
  BY <1>5, <1>6, <1>70, <1>9 DEF Joins
<1>12. Reached(W, k + 1, d)'
  <2>1. Len(loader'.todo) = (Len(W) - d) + (n - (k + 1))
    BY <1>10, <1>11
  <2>2. \A i \in 1 .. Len(W) - d : loader'.todo[i] = W[d + i]
    BY <1>5, <1>70, <1>10, <1>11 DEF Joins
  <2>3. \A i \in 1 .. n - (k + 1) :
            loader'.todo[(Len(W) - d) + i] = loader.file[(k + 1) + i]
    <3> SUFFICES ASSUME NEW i \in 1 .. n - (k + 1)
                 PROVE  loader'.todo[(Len(W) - d) + i] = loader.file[(k + 1) + i]
      OBVIOUS
    <3>1. loader'.todo[Len(V) + i] = t[i]
      BY <1>10, <1>11
    <3>2. i \in 1 .. Len(loader.todo) - 1 /\ i + 1 \in 1 .. n - k
      BY <1>70, <1>9, <1>11 DEF Joins
    <3>3. t[i] = loader.todo[i + 1] /\ loader.todo[i + 1] = loader.file[k + (i + 1)]
      BY <1>70, <1>9, <3>2 DEF Joins
    <3>4. k + (i + 1) = (k + 1) + i
      BY <1>9, <3>2
    <3> QED
      BY <1>11, <3>1, <3>3, <3>4
  <2>4. IsSequence(loader.file)
    BY <1>4 DEF Reached
  <2> QED
    BY <1>2, <1>70, <1>11, <2>1, <2>2, <2>3, <2>4 DEF Reached, Joins
<1>13. Progress(W, k + 1, d, 0)'
  BY <1>2, <1>8, <1>12 DEF Progress
<1> QED
  BY <1>2, <1>13 DEF ForceInv

\* A statement that is not among those of the lines read is on the next line.
LEMMA NextStatement ==
    ASSUME ForceInv, loader.at = "read", loader.todo # <<>>,
           Statement.kind # "include"
    PROVE  \E U, k, d : d < Len(U) /\ Progress(U, k, d, 0)
<1>1. LoaderOK
  BY DEF ForceInv, DefInv, RefInv, Inv
<1>2. PICK U, k, d, c : Progress(U, k, d, c)
  BY DEF ForceInv
<1>3. /\ Reached(U, k, d) /\ c = 0
      /\ NamesTold(U, d) /\ StatementsTold(U, d) /\ SettingsTold(U, d, 0)
  BY <1>2 DEF Progress
<1>4. IsSequence(U) /\ d \in 0 .. Len(U) /\ Len(U) \in Nat
  BY <1>3, SeqFacts DEF Reached
<1>5. CASE d < Len(U)
  BY <1>2, <1>3, <1>5
<1>6. CASE d = Len(U)
  <2> DEFINE V == <<Statement>>
             W == U \o V
             n == Len(loader.file)
  <2>1. V = Part(Statement) /\ Len(V) = 1 /\ V[1] = Statement
    BY DEF Part
  <2>2. IsSequence(V)
    <3>1. V \in [1 .. 1 -> {Statement}]
      OBVIOUS
    <3> QED
      BY <3>1, SeqIntro
  <2> HIDE DEF V
  <2>3. \A i \in 1 .. Len(V) : V[i].kind # "include"
    BY <2>1
  <2>4. Joins(U, k, V, W)
    BY <1>1, <1>3, <1>6, <2>1, <2>2, <2>3, LineJoins
  <2> HIDE DEF W
  <2>5. NamesTold(W, d) /\ StatementsTold(W, d) /\ SettingsTold(W, d, 0)
    <3>1. /\ Len(U) \in Nat /\ Len(W) \in Nat /\ Len(U) <= Len(W)
          /\ \A i \in 1 .. Len(U) : W[i] = U[i]
      BY <2>4 DEF Joins
    <3> QED
      BY <1>3, <1>4, <3>1, ToldLonger
  <2>6. IsSequence(loader.file)
    BY <1>3 DEF Reached
  <2>7. Len(W) - d = 1 /\ d < Len(W) /\ d \in 0 .. Len(W) /\ W[d + 1] = Statement
    BY <1>4, <1>6, <2>1, <2>4 DEF Joins
  <2>8. Reached(W, k + 1, d)
    <3>1. Len(loader.todo) = (Len(W) - d) + (n - (k + 1))
      BY <2>4, <2>7 DEF Joins
    <3>2. \A i \in 1 .. Len(W) - d : loader.todo[i] = W[d + i]
      BY <1>1, <2>7, HeadStatement
    <3>3. ASSUME NEW i \in 1 .. n - (k + 1)
          PROVE  loader.todo[(Len(W) - d) + i] = loader.file[(k + 1) + i]
      <4>1. 1 + i \in 1 .. n - k /\ k + (1 + i) = (k + 1) + i
        BY <2>4 DEF Joins
      <4>2. loader.todo[1 + i] = loader.file[k + (1 + i)]
        BY <2>4, <4>1 DEF Joins
      <4> QED
        BY <2>7, <4>1, <4>2
    <3> QED
      BY <2>4, <2>6, <2>7, <3>1, <3>2, <3>3 DEF Reached, Joins
  <2>9. Progress(W, k + 1, d, 0)
    BY <2>5, <2>8 DEF Progress
  <2> QED
    BY <2>7, <2>9
<1> QED
  BY <1>4, <1>5, <1>6

\* Nothing is said yet of a statement's keys when its entry is opened.
LEMMA OpenedSays ==
    ASSUME ForceInv, loader.todo # <<>>, Statement.kind \in Kinds,
           ~ StatementFails(Statement),
           NEW i, i = Find(Statement.kind, Statement.name),
           NEW e, e = Opened(Statement, i)
    PROVE  Referred(Statement) /\ SaysSoFar(Statement, 0, e)
<1> DEFINE s == Statement
           k == s.kind
<1>1. DefInv /\ Layout
  BY DEF ForceInv, DefInv, RefInv, Inv
<1>2. CASE k = "acl"
  <2>1. e = [name |-> s.name, flags |-> {},
             profile |-> Find("profile", OrElse(s.profile, "default"))]
    BY <1>2 DEF Opened, OpenedAcl
  <2>2. e.profile # NULL
    BY <1>1, <1>2, DefinedOpened
  <2>3. {s.keys[n] : n \in 1 .. 0} = {}
    OBVIOUS
  <2> QED
    BY <1>2, <2>1, <2>2, <2>3 DEF Referred, SaysSoFar, KeyKinds
<1>3. CASE k = "auth"
  <2>1. e.alias = Find("alias", OrElse(s.alias, "auth_default"))
    BY <1>3 DEF Opened
  <2> QED
    BY <1>3, <2>1 DEF Referred, SaysSoFar, StatementFails, KeyKinds
<1>4. CASE k = "pfxmap"
  <2>1. e.map = {}
    BY <1>4 DEF Opened
  <2>2. UNION {parse_prefix(s.keys[n]) : n \in 1 .. 0} = {}
    OBVIOUS
  <2> QED
    BY <1>4, <2>1, <2>2 DEF Referred, SaysSoFar, KeyKinds
<1>5. CASE k \in ConfKinds
  BY <1>5 DEF Referred, SaysSoFar, KeyKinds, ConfKinds
<1>6. CASE k \notin KeyKinds
  BY <1>6 DEF Opened, Referred, SaysSoFar, KeyKinds
<1> QED
  BY <1>2, <1>3, <1>4, <1>5, <1>6 DEF KeyKinds, ConfKinds

LEMMA ReadStatementForce ==
    ASSUME ForceInv, DefInv', ReadStatement
    PROVE  ForceInv'
<1> DEFINE s == Statement
           k == s.kind
           found == Find(k, s.name)
           x == IF found # NULL THEN found ELSE Len(tables[k]) + 1
           e == Opened(s, found)
<1>1. /\ loader.at = "read" /\ loader.todo # <<>> /\ k \in Kinds
      /\ ~ StatementFails(s) /\ Write(k, x, e)
  BY DEF ReadStatement
<1>2. Inv /\ Layout /\ LoaderOK /\ DOMAIN loader = LoaderFields
  BY DEF ForceInv, DefInv, RefInv, Inv, LoaderOK
<1>3. Layout' /\ Grown
  BY <1>2, ReadStatementStep DEF Inv
<1>4. Shape(k, e) /\ e.name = s.name
  BY <1>1, <1>2, OpenedShape
<1>5. \/ found = NULL /\ x = Len(tables[k]) + 1
      \/ found # NULL /\ x = found /\ x \in DOMAIN tables[k]
         /\ tables[k][x].name = s.name
  BY <1>1, <1>2, FindFacts
<1>6. Len(tables[k]) \in Nat /\ DOMAIN tables[k] = 1 .. Len(tables[k])
  BY <1>1, <1>2, TableFacts DEF Layout
<1>7. /\ x \in 1 .. Len(tables[k]) + 1
      /\ x \in DOMAIN tables[k] => tables[k][x].name = s.name
  BY <1>5, <1>6
<1>8. Referred(s) /\ SaysSoFar(s, 0, e)
  BY <1>1, OpenedSays
<1>9. k \in ConfKinds /\ found # NULL => e = tables[k][found]
  BY DEF Opened, ConfKinds
<1>10. IsSequence(KeysOf(s)) /\ Len(KeysOf(s)) \in Nat
  BY <1>1, <1>2, KeysSequence, SeqFacts
<1>11. s = Statement /\ k = s.kind
  OBVIOUS
<1> HIDE DEF s, k, x, e
<1>12. /\ loader'.at = "keys" /\ loader'.todo = loader.todo
       /\ loader'.remote = loader.remote
       /\ loader'.file = loader.file /\ loader'.keys = KeysOf(Statement)
       /\ Statement' = Statement /\ Entry' = e
  BY <1>1, <1>2, <1>4, <1>7, <1>11, WriteStep
<1>13. Touches(s)
  <2>1. UNCHANGED tables \/ Rewritten(k, x, e)
    BY <1>1, <1>2, <1>7, WriteRewrites
  <2> QED
    BY <1>7, <1>11, <2>1 DEF Touches
<1>14. \A t : /\ ~ IsOpen(t)
              /\ IsOpen(t)' <=> SameEntry(t, s)
  BY <1>1, <1>11, <1>12 DEF IsOpen, SameEntry
<1>15. ASSUME NEW t, t.kind \in Kinds, Find(t.kind, t.name) # NULL,
              ~ SameEntry(t, s)
       PROVE  InTable(t)' = InTable(t)
  BY <1>1, <1>2, <1>3, <1>11, <1>13, <1>15, OtherInTable
<1>16. PICK U, n, d : d < Len(U) /\ Progress(U, n, d, 0)
  <2>1. Statement.kind # "include"
    BY <1>1, <1>11 DEF Kinds
  <2> QED
    BY <1>1, <2>1, NextStatement
<1>17. /\ Reached(U, n, d)
       /\ NamesTold(U, d) /\ StatementsTold(U, d) /\ SettingsTold(U, d, 0)
  BY <1>16 DEF Progress
<1>18. Reached(U, n, d)'
  BY <1>12, <1>17, ReachedStays
<1>19. NamesTold(U, d)' /\ StatementsTold(U, d)'
  <2>1. \A i \in 1 .. d :
            ~ IsOpen(U[i])' /\ Find(U[i].kind, U[i].name) # NULL
                => InTable(U[i])' = InTable(U[i])
    BY <1>14, <1>15, <1>17 DEF NamesTold
  <2> QED
    BY <1>2, <1>3, <1>12, <1>14, <1>17, <2>1, TellsNothing
<1>20. SettingsTold(U, d, 0)'
  <2>1. ASSUME NEW i \in 1 .. Len(U), U[i].kind \in ConfKinds,
               NEW j \in DOMAIN U[i].keys, Done(d, 0, i, j)
        PROVE  EntryOf(U[i])' = EntryOf(U[i])
    <3>1. i \in 1 .. d
      BY <2>1 DEF Done
    <3>2. U[i].kind \in Kinds /\ Find(U[i].kind, U[i].name) # NULL
      BY <1>17, <2>1, <3>1, ConfNamed
    <3>3. EntryOf(U[i]) = InTable(U[i])
      BY <1>14 DEF EntryOf
    <3>4. CASE SameEntry(U[i], s)
      <4>1. EntryOf(U[i])' = e
        BY <1>12, <1>14, <3>4 DEF EntryOf
      <4>2. InTable(U[i]) = tables[k][found] /\ found # NULL /\ k \in ConfKinds
        BY <1>11, <2>1, <3>2, <3>4 DEF InTable, SameEntry
      <4> QED
        BY <1>9, <3>3, <4>1, <4>2
    <3>5. CASE ~ SameEntry(U[i], s)
      <4>1. EntryOf(U[i])' = InTable(U[i])'
        BY <1>14, <3>5 DEF EntryOf
      <4> QED
        BY <1>15, <3>2, <3>3, <3>5, <4>1
    <3> QED
      BY <3>4, <3>5
  <2> QED
    BY <1>2, <1>3, <1>17, <2>1, SettingsStay
<1>21. Consumed(Statement, 0)'
  BY <1>10, <1>11, <1>12 DEF Consumed
<1>22. Referred(Statement)' /\ SaysSoFar(Statement, 0, Entry)'
  <2>1. PICK r, f : r = Statement /\ f = e
    OBVIOUS
  <2>2. Referred(r) /\ SaysSoFar(r, 0, f)
    BY <1>8, <1>11, <2>1
  <2>3. Referred(r)' /\ SaysSoFar(r, 0, f)'
    BY <1>2, <1>3, <2>2, KnownStays
  <2>4. Statement' = r /\ Entry' = f
    BY <1>12, <2>1
  <2> QED
    BY <2>3, <2>4
<1>23. Progress(U, n, d, 0)'
  BY <1>12, <1>16, <1>18, <1>19, <1>20, <1>21, <1>22 DEF Progress
<1> QED
  BY <1>12, <1>23 DEF ForceInv

\* A step of the listener within a statement: what is told of the statements
\* before it stays.
LEMMA ToldWithin ==
    ASSUME Layout, Layout', Grown, Statement' = Statement, Statement.kind \in Kinds,
           loader.at = "keys", loader'.at = "keys", Touches(Statement),
           loader'.remote = loader.remote,
           NEW U, NEW d, NamesTold(U, d), StatementsTold(U, d)
    PROVE  NamesTold(U, d)' /\ StatementsTold(U, d)'
<1>1. \A t : IsOpen(t)' <=> IsOpen(t)
  BY DEF IsOpen
<1>2. \A i \in 1 .. d :
          ~ IsOpen(U[i])' /\ Find(U[i].kind, U[i].name) # NULL
              => InTable(U[i])' = InTable(U[i])
  <2> SUFFICES ASSUME NEW i \in 1 .. d, ~ IsOpen(U[i])',
                      Find(U[i].kind, U[i].name) # NULL
               PROVE  InTable(U[i])' = InTable(U[i])
    OBVIOUS
  <2>1. ~ SameEntry(U[i], Statement)
    BY DEF IsOpen
  <2>2. U[i].kind \in Kinds /\ Find(U[i].kind, U[i].name) # NULL
    BY DEF NamesTold
  <2> QED
    BY <2>1, <2>2, OtherInTable
<1> QED
  BY <1>1, <1>2, TellsNothing

LEMMA UnionMore ==
    ASSUME NEW R, NEW S, NEW p, R \subseteq S, p \in S,
           \A q \in S : q \in R \/ q = p
    PROVE  UNION S = (UNION R) \cup p
<1>1. ASSUME NEW z \in UNION S
      PROVE  z \in (UNION R) \cup p
  <2>1. PICK q \in S : z \in q
    BY <1>1
  <2> QED
    BY <2>1
<1>2. ASSUME NEW z \in (UNION R) \cup p
      PROVE  z \in UNION S
  <2>1. CASE z \in p
    BY <2>1
  <2>2. CASE z \in UNION R
    <3>1. PICK q \in R : z \in q
      BY <2>2
    <3> QED
      BY <3>1
  <2> QED
    BY <1>2, <2>1, <2>2
<1> QED
  BY <1>1, <1>2

\* One key more.
LEMMA StoredSays ==
    ASSUME LoaderOK, Filling, NEW c, Consumed(Statement, c), loader.keys # <<>>,
           SaysSoFar(Statement, c, Entry),
           NEW e, e = Stored(Statement.kind, Entry, Head(loader.keys))
    PROVE  /\ c + 1 \in 1 .. Len(KeysOf(Statement))
           /\ Head(loader.keys) = KeysOf(Statement)[c + 1]
           /\ SaysSoFar(Statement, c + 1, e)
<1> DEFINE s == Statement
           k == s.kind
           key == Head(loader.keys)
           n == Len(KeysOf(s))
<1>1. k \in KeyKinds /\ Shape(k, Entry) /\ IsSequence(loader.keys)
  BY DEF Filling
<1>2. /\ IsSequence(KeysOf(s)) /\ c \in 0 .. n /\ Len(loader.keys) = n - c
      /\ \A j \in 1 .. n - c : loader.keys[j] = KeysOf(s)[c + j]
  BY DEF Consumed
<1>3. n \in Nat
  BY <1>2, SeqFacts
<1>4. Len(loader.keys) >= 1 /\ key = loader.keys[1]
  BY <1>1, SeqTail
<1>5. c + 1 \in 1 .. n /\ 1 \in 1 .. n - c /\ c \in Nat
  BY <1>2, <1>3, <1>4
<1>6. key = KeysOf(s)[c + 1]
  BY <1>2, <1>4, <1>5
<1>7. 1 .. c + 1 = (1 .. c) \cup {c + 1}
  BY <1>5
<1> HIDE DEF key, n
<1>8. SaysSoFar(s, c + 1, e)
  <2>1. CASE k = "acl"
    <3>1. key = s.keys[c + 1]
      BY <1>6, <2>1 DEF KeysOf
    <3>2. /\ Entry.flags = {s.keys[j] : j \in 1 .. c}
          /\ Entry.profile = Find("profile", OrElse(s.profile, "default"))
      BY <2>1 DEF SaysSoFar
    <3>3. DOMAIN Entry = {"name", "flags", "profile"}
      BY <1>1, <2>1 DEF Shape, Fields
    <3>4. e = [Entry EXCEPT !.flags = Entry.flags \cup {key}]
      BY <2>1, <3>3 DEF Stored, key
    <3>5. e.flags = Entry.flags \cup {key} /\ e.profile = Entry.profile
      BY <3>3, <3>4
    <3>6. {s.keys[j] : j \in 1 .. c + 1} = {s.keys[j] : j \in 1 .. c} \cup {key}
      BY <1>7, <3>1
    <3> QED
      BY <2>1, <3>2, <3>5, <3>6 DEF SaysSoFar, KeyKinds
  <2>2. CASE k = "auth"
    <3> DEFINE p == OrElse(s.profile, "default")
    <3>1. Len(KeysOf(s)) = 1 /\ KeysOf(s)[1] = p
      <4>1. KeysOf(s) = <<p>>
        BY <2>2 DEF KeysOf
      <4> HIDE DEF p
      <4> QED
        BY <4>1
    <3>2. c + 1 = 1
      BY <1>5, <3>1 DEF n
    <3>3. key = p
      BY <1>6, <3>1, <3>2
    <3>4. DOMAIN Entry = {"name", "alias", "profile"}
      BY <1>1, <2>2 DEF Shape, Fields
    <3> HIDE DEF p
    <3>5. e = [Entry EXCEPT !.profile = Find("profile", p)]
      BY <2>2, <3>3 DEF Stored, key
    <3>6. e.profile = Find("profile", p) /\ e.alias = Entry.alias
      BY <3>4, <3>5
    <3> QED
      BY <2>2, <3>6 DEF SaysSoFar, KeyKinds, p
  <2>3. CASE k = "pfxmap"
    <3>1. key = s.keys[c + 1]
      BY <1>6, <2>3 DEF KeysOf
    <3>2. Entry.map = UNION {parse_prefix(s.keys[j]) : j \in 1 .. c}
      BY <2>3 DEF SaysSoFar
    <3>3. DOMAIN Entry = {"name", "map"}
      BY <1>1, <2>3 DEF Shape, Fields
    <3>4. e = [Entry EXCEPT !.map = Entry.map \cup parse_prefix(key)]
      BY <2>3, <3>3 DEF Stored, key
    <3>5. e.map = Entry.map \cup parse_prefix(key)
      BY <3>3, <3>4
    <3> DEFINE R == {parse_prefix(s.keys[j]) : j \in 1 .. c}
               S == {parse_prefix(s.keys[j]) : j \in 1 .. c + 1}
               p == parse_prefix(key)
    <3>6. R \subseteq S
      BY <1>7
    <3>7. p \in S
      BY <1>7, <3>1
    <3>8. ASSUME NEW q \in S
          PROVE  q \in R \/ q = p
      <4>1. PICK j \in 1 .. c + 1 : q = parse_prefix(s.keys[j])
        OBVIOUS
      <4>2. CASE j \in 1 .. c
        BY <4>1, <4>2
      <4>3. CASE j = c + 1
        BY <3>1, <4>1, <4>3
      <4> QED
        BY <1>7, <4>1, <4>2, <4>3
    <3>9. UNION S = (UNION R) \cup p
      <4> HIDE DEF R, S, p
      <4> QED
        BY <3>6, <3>7, <3>8, UnionMore
    <3>10. e.map = UNION S
      BY <3>2, <3>5, <3>9
    <3> QED
      BY <2>3, <3>10 DEF SaysSoFar, KeyKinds
  <2>4. CASE k \in ConfKinds
    BY <2>4 DEF SaysSoFar, KeyKinds, ConfKinds
  <2> QED
    BY <1>1, <2>1, <2>2, <2>3, <2>4 DEF KeyKinds, ConfKinds
<1> QED
  BY <1>5, <1>6, <1>8 DEF key, n

\* The setting stored last is in force, and the settings of other fields are
\* those they were.
LEMMA SettingStored ==
    ASSUME Filling, loader.at = "keys", Statement.kind \in ConfKinds,
           NEW key, ~ KeyFails(Statement.kind, key),
           NEW e, e = Stored(Statement.kind, Entry, key)
    PROVE  /\ Known(key)
           /\ e.conf[key.field] = Resolve(key.field, key.value)
           /\ \A f : f # key.field => e.conf[f] = Entry.conf[f]
<1> DEFINE k == Statement.kind
<1>1. Shape(k, Entry)
  BY DEF Filling
<1>2. DOMAIN Entry = {"name", "conf", "connections"}
      /\ DOMAIN Entry.conf = ConfFields(k)
  BY <1>1 DEF Shape, Fields, ConfKinds
<1>3. key.field \in ConfFields(k)
  BY BlankFields DEF KeyFails, SettingFails, ConfKinds
<1>4. e = [Entry EXCEPT !.conf =
               [Entry.conf EXCEPT ![key.field] = Resolve(key.field, key.value)]]
  BY <1>2 DEF Stored, ConfKinds
<1>5. e.conf = [Entry.conf EXCEPT ![key.field] = Resolve(key.field, key.value)]
  BY <1>2, <1>4
<1>6. Known(key)
  <2>1. CASE k = "profile"
    BY <2>1 DEF KeyFails, SettingFails, Known
  <2>2. CASE k = "vhost"
    BY <1>3, <2>2 DEF ConfFields, Known, Pointers
  <2> QED
    BY <2>1, <2>2 DEF ConfKinds
<1> QED
  BY <1>2, <1>3, <1>5, <1>6

LEMMA ReadKeyForce ==
    ASSUME ForceInv, DefInv', ReadKey
    PROVE  ForceInv'
<1>0. PICK s, e, key : /\ s = Statement /\ key = Head(loader.keys)
                       /\ e = Stored(Statement.kind, Entry, Head(loader.keys))
  OBVIOUS
<1> DEFINE k == s.kind
           x == loader.entry
<1>1. /\ loader.at = "keys" /\ loader.keys # <<>> /\ Write(k, x, e)
      /\ ~ KeyFails(k, key)
  BY <1>0 DEF ReadKey
<1>2. /\ Inv /\ Layout /\ LoaderOK /\ DOMAIN loader = LoaderFields /\ Filling
  BY <1>1 DEF ForceInv, DefInv, RefInv, Inv, LoaderOK
<1>3. Layout' /\ Grown
  BY <1>2, ReadKeyStep DEF Inv
<1>4. /\ k \in KeyKinds /\ k \in Kinds /\ Shape(k, Entry)
      /\ Entry.name = s.name /\ x \in 1 .. Len(tables[k]) + 1
      /\ loader.todo # <<>> /\ IsSequence(loader.keys)
  BY <1>0, <1>1, <1>2 DEF Filling
<1>5. Shape(k, e) /\ e.name = s.name
  BY <1>0, <1>4, StoredShape
<1>6. Len(tables[k]) \in Nat /\ DOMAIN tables[k] = 1 .. Len(tables[k])
  BY <1>2, <1>4, TableFacts DEF Layout
<1>7. x \in DOMAIN tables[k] => tables[k][x].name = s.name
  <2>1. IsNew <=> x \notin DOMAIN tables[k]
    BY <1>0, <1>4, <1>6 DEF IsNew
  <2> QED
    BY <1>0, <1>4, <2>1 DEF Entry
<1>8. k = Statement.kind
  BY <1>0
<1> HIDE DEF k, x
<1>9. /\ loader'.at = "keys" /\ loader'.todo = loader.todo
      /\ loader'.remote = loader.remote
      /\ loader'.file = loader.file /\ loader'.keys = Tail(loader.keys)
      /\ Statement' = Statement /\ Entry' = e
  <2>1. x \in DOMAIN tables[k] => e.name = tables[k][x].name
    BY <1>5, <1>7
  <2> QED
    BY <1>1, <1>2, <1>4, <1>5, <1>8, <2>1, WriteStep
<1>10. Touches(Statement)
  <2>1. UNCHANGED tables \/ Rewritten(k, x, e)
    BY <1>1, <1>2, <1>4, WriteRewrites
  <2> QED
    BY <1>0, <1>7, <1>8, <2>1 DEF Touches
<1>11. PICK U, n, d, c : Progress(U, n, d, c)
  BY <1>1 DEF ForceInv
<1>12. /\ Reached(U, n, d)
       /\ NamesTold(U, d) /\ StatementsTold(U, d) /\ SettingsTold(U, d, c)
       /\ d < Len(U) /\ Consumed(Statement, c)
       /\ Referred(Statement) /\ SaysSoFar(Statement, c, Entry)
  BY <1>1, <1>11 DEF Progress
<1>13. Reached(U, n, d)'
  BY <1>9, <1>12, ReachedStays
<1>14. NamesTold(U, d)' /\ StatementsTold(U, d)'
  BY <1>1, <1>2, <1>3, <1>4, <1>8, <1>9, <1>10, <1>12, ToldWithin
<1>15. /\ c + 1 \in 1 .. Len(KeysOf(s)) /\ key = KeysOf(s)[c + 1]
       /\ SaysSoFar(s, c + 1, e)
  BY <1>0, <1>1, <1>2, <1>12, StoredSays
<1>16. Referred(Statement)' /\ SaysSoFar(Statement, c + 1, Entry)'
  <2>1. Referred(s)' /\ SaysSoFar(s, c + 1, e)'
    BY <1>0, <1>2, <1>3, <1>12, <1>15, KnownStays
  <2>2. Statement' = s /\ Entry' = e
    BY <1>0, <1>9
  <2> QED
    BY <2>1, <2>2
<1>17. Consumed(Statement, c + 1)'
  <2> DEFINE m == Len(KeysOf(s))
  <2>1. /\ IsSequence(KeysOf(s)) /\ c \in 0 .. m /\ Len(loader.keys) = m - c
        /\ \A j \in 1 .. m - c : loader.keys[j] = KeysOf(s)[c + j]
    BY <1>0, <1>12 DEF Consumed
  <2>2. m \in Nat
    BY <2>1, SeqFacts
  <2>3. /\ Len(Tail(loader.keys)) = Len(loader.keys) - 1
        /\ \A j \in 1 .. Len(loader.keys) - 1 : Tail(loader.keys)[j] = loader.keys[j + 1]
    BY <1>1, <1>4, SeqTail
  <2> HIDE DEF m
  <2>4. Len(Tail(loader.keys)) = m - (c + 1) /\ c + 1 \in 0 .. m
    BY <1>15, <2>1, <2>2, <2>3 DEF m
  <2>5. ASSUME NEW j \in 1 .. m - (c + 1)
        PROVE  Tail(loader.keys)[j] = KeysOf(s)[(c + 1) + j]
    <3>1. j \in 1 .. Len(loader.keys) - 1 /\ j + 1 \in 1 .. m - c
      BY <2>1, <2>2
    <3>2. c + (j + 1) = (c + 1) + j
      BY <2>1, <2>2
    <3> QED
      BY <2>1, <2>3, <3>1, <3>2
  <2> QED
    BY <1>0, <1>9, <2>1, <2>4, <2>5 DEF Consumed, m
<1>18. U[d + 1] = s /\ d + 1 \in 1 .. Len(U) /\ d \in Nat /\ Len(U) \in Nat
  <2>1. d \in 0 .. Len(U) /\ IsSequence(U)
    BY <1>12 DEF Reached
  <2>2. Len(U) \in Nat
    BY <2>1, SeqFacts
  <2> QED
    BY <1>0, <1>2, <1>4, <1>12, <2>1, <2>2, OpenIsNext
<1>19. c \in Nat
  BY <1>12, SeqFacts DEF Consumed
<1>20. \A t : (IsOpen(t) <=> SameEntry(t, s)) /\ (IsOpen(t)' <=> SameEntry(t, s))
  BY <1>0, <1>1, <1>9 DEF IsOpen, SameEntry
<1>21. SettingsTold(U, d, c + 1)'
  <2> SUFFICES ASSUME NEW i \in 1 .. Len(U), U[i].kind \in ConfKinds,
                      NEW j \in DOMAIN U[i].keys, Done(d, c + 1, i, j)
               PROVE  /\ Known(U[i].keys[j])'
                      /\ LastDone(U, d, c + 1, i, j) =>
                             EntryOf(U[i])'.conf[U[i].keys[j].field]
                                 = Resolve(U[i].keys[j].field, U[i].keys[j].value)'
    BY DEF SettingsTold
  <2> DEFINE set == U[i].keys[j]
  <2>1. \A q : Known(q) => Known(q)' /\ Resolve(q.field, q.value)' = Resolve(q.field, q.value)
    BY <1>2, <1>3, KnownStays
  <2>2. k \in ConfKinds =>
            /\ Known(key)
            /\ e.conf[key.field] = Resolve(key.field, key.value)
            /\ \A f : f # key.field => e.conf[f] = Entry.conf[f]
    BY <1>0, <1>1, <1>2, <1>8, SettingStored
  <2>3. k \in ConfKinds => KeysOf(s) = s.keys
    BY DEF k, KeysOf, ConfKinds
  <2>4. SameEntry(U[i], s) => k \in ConfKinds /\ EntryOf(U[i])' = e
    BY <1>9, <1>20 DEF EntryOf, SameEntry, k
  <2>5. CASE i = d + 1 /\ j = c + 1
    <3>1. U[i] = s /\ SameEntry(U[i], s)
      BY <1>18, <2>5 DEF SameEntry
    <3>2. set = key
      BY <1>15, <2>3, <2>4, <2>5, <3>1
    <3> QED
      BY <2>1, <2>2, <2>4, <3>1, <3>2
  <2>6. CASE ~ (i = d + 1 /\ j = c + 1)
    <3>1. Done(d, c, i, j)
      BY <1>18, <1>19, <2>6 DEF Done
    <3>2. Known(set) /\ (LastDone(U, d, c, i, j) =>
              EntryOf(U[i]).conf[set.field] = Resolve(set.field, set.value))
      BY <1>12, <3>1 DEF SettingsTold
    <3>3. ASSUME LastDone(U, d, c + 1, i, j)
          PROVE  EntryOf(U[i])'.conf[set.field] = Resolve(set.field, set.value)
      <4>1. LastDone(U, d, c, i, j)
        <5>1. \A m, q : Done(d, c, m, q) => Done(d, c + 1, m, q)
          BY <1>19 DEF Done
        <5> QED
          BY <3>3, <5>1 DEF LastDone
      <4>2. CASE SameEntry(U[i], s)
        <5>1. EntryOf(U[i]) = Entry /\ EntryOf(U[i])' = e /\ k \in ConfKinds
          BY <1>20, <2>4, <4>2 DEF EntryOf
        <5>2. set.field # key.field
          <6> SUFFICES ASSUME set.field = key.field PROVE FALSE
            OBVIOUS
          <6>1. d + 1 \in i .. Len(U) /\ SameEntry(U[i], U[d + 1])
            BY <1>18, <3>1, <4>2 DEF Done
          <6>2. c + 1 \in DOMAIN U[d + 1].keys /\ U[d + 1].keys[c + 1] = key
            <7>1. IsSequence(KeysOf(s))
              BY <1>0, <1>12 DEF Consumed
            <7>2. DOMAIN KeysOf(s) = 1 .. Len(KeysOf(s))
              BY <7>1, SeqFacts
            <7> QED
              BY <1>15, <1>18, <2>3, <5>1, <7>2
          <6>3. Done(d, c + 1, d + 1, c + 1)
            BY <1>19 DEF Done
          <6>4. d + 1 = i /\ c + 1 <= j
            BY <3>3, <6>1, <6>2, <6>3 DEF LastDone
          <6> QED
            BY <1>18, <1>19, <3>1, <6>4 DEF Done
        <5>3. e.conf[set.field] = Entry.conf[set.field]
          BY <2>2, <5>1, <5>2
        <5> QED
          BY <3>2, <4>1, <5>1, <5>3
      <4>3. CASE ~ SameEntry(U[i], s)
        <5>1. i \in 1 .. d
          <6>1. i # d + 1
            BY <1>18, <4>3 DEF SameEntry
          <6> QED
            BY <1>18, <3>1, <6>1 DEF Done
        <5>2. U[i].kind \in Kinds /\ Find(U[i].kind, U[i].name) # NULL
          BY <1>12, <2>6, <5>1, ConfNamed
        <5>3. ~ SameEntry(U[i], Statement) /\ Statement.kind \in Kinds
          BY <1>0, <1>4, <1>8, <4>3
        <5>4. InTable(U[i])' = InTable(U[i])
          BY <1>2, <1>3, <1>10, <5>2, <5>3, OtherInTable
        <5>5. EntryOf(U[i])' = EntryOf(U[i])
          BY <1>20, <4>3, <5>4 DEF EntryOf
        <5> QED
          BY <3>2, <4>1, <5>5
      <4> QED
        BY <4>2, <4>3
    <3> QED
      BY <2>1, <3>2, <3>3
  <2> QED
    BY <2>5, <2>6
<1>22. Progress(U, n, d, c + 1)'
  BY <1>9, <1>12, <1>13, <1>14, <1>16, <1>17, <1>21 DEF Progress
<1> QED
  BY <1>9, <1>22 DEF ForceInv

\* The entry found under the name of the statement is then the one filled.
LEMMA EndFinds ==
    ASSUME Inv, Layout', EndStatement, NEW s, s = Statement
    PROVE  /\ s.kind \in Kinds /\ Touches(s)
           /\ Find(s.kind, s.name)' # NULL /\ InTable(s)' = Entry
<1> DEFINE k == s.kind
<1>1. k \in Kinds /\ Layout /\ Filling
  BY DEF Inv, LoaderOK, Filling, EndStatement
<1>2. IsTable(k, tables[k]) /\ IsTable(k, tables'[k]) /\ Entry.name = s.name
  BY <1>1 DEF Layout, Filling
<1>3. /\ Len(tables[k]) \in Nat /\ DOMAIN tables[k] = 1 .. Len(tables[k])
      /\ DOMAIN tables'[k] = 1 .. Len(tables'[k])
  BY <1>2, TableFacts
<1>4. \/ ~ IsNew /\ UNCHANGED tables
      \/ /\ IsNew /\ Entry = loader.draft
         /\ Rewritten(k, Len(tables[k]) + 1, loader.draft)
  BY EndRewrites
<1>5. Touches(s)
  <2>1. Len(tables[k]) + 1 \notin DOMAIN tables[k]
    BY <1>3
  <2> QED
    BY <1>4, <2>1 DEF Touches
<1>6. PICK i : i \in DOMAIN tables'[k] /\ tables'[k][i] = Entry
  <2>1. CASE ~ IsNew /\ UNCHANGED tables
    <3>1. loader.entry \in DOMAIN tables[k] /\ Entry = tables[k][loader.entry]
      BY <1>1, <1>3, <2>1 DEF Filling, IsNew, Entry
    <3> QED
      BY <2>1, <3>1
  <2>2. CASE /\ IsNew /\ Entry = loader.draft
             /\ Rewritten(k, Len(tables[k]) + 1, loader.draft)
    BY <2>2 DEF Rewritten
  <2> QED
    BY <1>4, <2>1, <2>2
<1>7. tables'[k][i].name = s.name
  BY <1>2, <1>6
<1> HIDE DEF k
<1>8. Named(tables'[k], s.name) = i /\ i # NULL
  <2>1. PICK t : t = tables'[k]
    OBVIOUS
  <2>2. Named(t, s.name) \in DOMAIN t /\ t[Named(t, s.name)].name = s.name
    BY <1>2, <1>6, <1>7, <2>1, NamedFacts
  <2>3. Named(t, s.name) = i
    BY <1>2, <1>6, <1>7, <2>1, <2>2 DEF IsTable
  <2>4. i # 0
    BY <1>3, <1>6
  <2> QED
    BY <2>1, <2>3, <2>4 DEF NULL
<1>9. Find(k, s.name)' = i
  BY <1>8, FindIsNamed
<1> QED
  BY <1>1, <1>5, <1>6, <1>8, <1>9 DEF InTable, k

LEMMA EndSays ==
    ASSUME NEW s, s.kind \in Kinds \ ConfKinds, IsStatement(s),
           Consumed(s, Len(KeysOf(s))),
           NEW e, SaysSoFar(s, Len(KeysOf(s)), e)
    PROVE  SaysWhat(s, e)
<1> DEFINE q == s.keys
<1>1. CASE s.kind = "acl"
  <2>1. KeysOf(s) = q
    BY <1>1 DEF KeysOf
  <2>2. DOMAIN q = 1 .. Len(q)
    BY <2>1, SeqFacts DEF Consumed
  <2>3. {q[n] : n \in 1 .. Len(q)} = Range(q)
    BY <2>2 DEF Range
  <2> QED
    BY <1>1, <2>1, <2>3 DEF SaysSoFar, SaysWhat
<1>2. CASE s.kind = "auth"
  <2> DEFINE p == OrElse(s.profile, "default")
  <2>1. KeysOf(s) = <<p>>
    BY <1>2 DEF KeysOf
  <2> HIDE DEF p
  <2>2. Len(KeysOf(s)) = 1
    BY <2>1
  <2> QED
    BY <1>2, <2>2 DEF SaysSoFar, SaysWhat
<1>3. CASE s.kind = "pfxmap"
  <2>1. KeysOf(s) = q
    BY <1>3 DEF KeysOf
  <2>2. DOMAIN q = 1 .. Len(q)
    BY <2>1, SeqFacts DEF Consumed
  <2>3. e.map = UNION {parse_prefix(q[n]) : n \in 1 .. Len(q)}
    BY <1>3, <2>1 DEF SaysSoFar
  <2>4. \A n \in 1 .. Len(q) : IsNet(q[n])
    BY <1>3, <2>2 DEF IsStatement
  <2>5. ASSUME NEW a \in Addresses
        PROVE  pfx_iplookup(a, e.map) <=>
                   \E p \in Range(q) : p.len \in 2 .. NetBits /\ Covers(p, a)
    <3>1. pfx_iplookup(a, e.map) <=>
              \E n \in 1 .. Len(q) : pfx_iplookup(a, parse_prefix(q[n]))
      BY <2>3 DEF pfx_iplookup
    <3>2. \A n \in 1 .. Len(q) :
              pfx_iplookup(a, parse_prefix(q[n])) <=>
                  q[n].len \in 2 .. NetBits /\ Covers(q[n], a)
      BY <2>4, PrefixMarks
    <3> QED
      BY <2>2, <3>1, <3>2 DEF Range
  <2> QED
    BY <1>3, <2>5 DEF SaysWhat
<1>4. CASE s.kind \notin KeyKinds
  BY <1>4 DEF SaysSoFar, SaysWhat, KeyKinds
<1> QED
  BY <1>1, <1>2, <1>3, <1>4 DEF KeyKinds, ConfKinds

\* The statement that ends is done with: the next to read is behind it.
LEMMA ReachedNext ==
    ASSUME LoaderOK, loader.todo # <<>>,
           NEW U, NEW k, NEW d, Reached(U, k, d), d < Len(U),
           loader'.file = loader.file, loader'.todo = Tail(loader.todo)
    PROVE  Reached(U, k, d + 1)'
<1> DEFINE open == Len(U) - d
           new == Len(U) - (d + 1)
           left == Len(loader.file) - k
           t == Tail(loader.todo)
<1>1. /\ IsSequence(loader.file) /\ k \in 0 .. Len(loader.file)
      /\ U = Unfolded(loader.file, k) /\ IsSequence(U) /\ d \in 0 .. Len(U)
      /\ \A i \in 1 .. Len(U) : U[i].kind # "include"
      /\ Len(loader.todo) = open + left
      /\ \A i \in 1 .. open : loader.todo[i] = U[d + i]
      /\ \A i \in 1 .. left : loader.todo[open + i] = loader.file[k + i]
  BY DEF Reached
<1>2. Len(U) \in Nat /\ Len(loader.file) \in Nat
  BY <1>1, SeqFacts
<1>3. /\ Len(t) = Len(loader.todo) - 1
      /\ \A i \in 1 .. Len(loader.todo) - 1 : t[i] = loader.todo[i + 1]
  BY SeqTail DEF LoaderOK, IsFile
<1>4. /\ open \in Nat /\ new \in Nat /\ left \in Nat /\ open = new + 1
      /\ d \in Nat /\ d + 1 \in 0 .. Len(U)
  BY <1>1, <1>2
<1> HIDE DEF open, new, left, t
<1>5. Len(t) = new + left
  BY <1>1, <1>3, <1>4
<1>6. ASSUME NEW i \in 1 .. new
      PROVE  t[i] = U[(d + 1) + i]
  <2>1. i \in 1 .. Len(loader.todo) - 1 /\ i + 1 \in 1 .. open
    BY <1>1, <1>4
  <2>2. d + (i + 1) = (d + 1) + i
    BY <1>4
  <2> QED
    BY <1>1, <1>3, <2>1, <2>2
<1>7. ASSUME NEW i \in 1 .. left
      PROVE  t[new + i] = loader.file[k + i]
  <2>1. new + i \in 1 .. Len(loader.todo) - 1 /\ (new + i) + 1 = open + i
    BY <1>1, <1>4
  <2> QED
    BY <1>1, <1>3, <2>1
<1> QED
  BY <1>1, <1>4, <1>5, <1>6, <1>7 DEF Reached, new, left, t

\* A statement that is skipped says nothing.
LEMMA SkipWildmatForce ==
    ASSUME ForceInv, DefInv', SkipWildmat
    PROVE  ForceInv'
<1>1. LoaderOK /\ Layout /\ DOMAIN loader = LoaderFields
  BY DEF ForceInv, DefInv, RefInv, Inv, LoaderOK
<1>2. /\ loader.at = "read" /\ loader.todo # <<>> /\ Skipped(Statement)
      /\ Statement.kind = "wildmat" /\ UNCHANGED tables
      /\ loader'.at = "read" /\ loader'.file = loader.file
      /\ loader'.remote = loader.remote /\ loader'.todo = Tail(loader.todo)
  BY <1>1 DEF SkipWildmat, Skipped, LoaderFields
<1>3. PICK U, k, d : d < Len(U) /\ Progress(U, k, d, 0)
  BY <1>2, NextStatement
<1>4. /\ Reached(U, k, d)
      /\ NamesTold(U, d) /\ StatementsTold(U, d) /\ SettingsTold(U, d, 0)
  BY <1>3 DEF Progress
<1>5. U[d + 1] = Statement /\ d \in Nat /\ Len(U) \in Nat
  <2>1. d \in 0 .. Len(U) /\ IsSequence(U)
    BY <1>4 DEF Reached
  <2>2. Len(U) \in Nat
    BY <2>1, SeqFacts
  <2> QED
    BY <1>1, <1>2, <1>3, <1>4, <2>1, <2>2, OpenIsNext
<1>6. 1 .. d + 1 = (1 .. d) \cup {d + 1}
  BY <1>5
<1>7. NamesTold(U, d + 1)
  BY <1>2, <1>4, <1>5, <1>6 DEF NamesTold, Referred, Kinds
<1>8. StatementsTold(U, d + 1)
  <2>1. \A i \in 1 .. d : \A m \in i + 1 .. d : m \in i + 1 .. d + 1
    BY <1>5
  <2> QED
    BY <1>2, <1>4, <1>5, <1>6, <2>1 DEF StatementsTold
<1>9. SettingsTold(U, d + 1, 0)
  <2> SUFFICES ASSUME NEW i \in 1 .. Len(U), U[i].kind \in ConfKinds,
                      NEW j \in DOMAIN U[i].keys, Done(d + 1, 0, i, j)
               PROVE  /\ Known(U[i].keys[j])
                      /\ LastDone(U, d + 1, 0, i, j) =>
                             EntryOf(U[i]).conf[U[i].keys[j].field]
                                 = Resolve(U[i].keys[j].field, U[i].keys[j].value)
    BY DEF SettingsTold
  <2>1. i # d + 1
    BY <1>2, <1>5 DEF ConfKinds
  <2>2. Done(d, 0, i, j)
    BY <1>5, <2>1 DEF Done
  <2>3. \A m \in i .. Len(U) : \A n : Done(d, 0, m, n) => Done(d + 1, 0, m, n)
    BY <1>5 DEF Done
  <2>4. LastDone(U, d + 1, 0, i, j) => LastDone(U, d, 0, i, j)
    BY <2>3 DEF LastDone
  <2> QED
    BY <1>4, <2>2, <2>4 DEF SettingsTold
<1>10. NamesTold(U, d + 1)' /\ StatementsTold(U, d + 1)' /\ SettingsTold(U, d + 1, 0)'
  <2>1. loader.at # "keys" /\ loader'.at # "keys"
    BY <1>2
  <2> QED
    BY <1>1, <1>2, <1>7, <1>8, <1>9, <2>1, ToldIdle
<1>11. Reached(U, k, d + 1)'
  BY <1>1, <1>2, <1>3, <1>4, ReachedNext
<1>12. Progress(U, k, d + 1, 0)'
  BY <1>2, <1>10, <1>11 DEF Progress
<1> QED
  BY <1>2, <1>12 DEF ForceInv

LEMMA EndStatementForce ==
    ASSUME ForceInv, DefInv', EndStatement
    PROVE  ForceInv'
<1>0. PICK s, e : s = Statement /\ e = Entry
  OBVIOUS
<1>1. /\ Inv /\ Layout /\ LoaderOK /\ DOMAIN loader = LoaderFields /\ Filling
      /\ loader.at = "keys" /\ loader.keys = <<>>
  BY DEF ForceInv, DefInv, RefInv, Inv, LoaderOK, EndStatement
<1>2. Layout' /\ Grown
  BY <1>1, EndStatementStep DEF Inv
<1>3. /\ loader'.at = "read" /\ loader'.todo = Tail(loader.todo)
      /\ loader'.file = loader.file /\ loader'.remote = loader.remote
  BY <1>1 DEF EndStatement, LoaderFields
<1>4. /\ s.kind \in Kinds /\ Touches(s)
      /\ Find(s.kind, s.name)' # NULL /\ InTable(s)' = e
  BY <1>0, <1>1, <1>2, EndFinds
<1>5. PICK U, n, d, c : Progress(U, n, d, c)
  BY <1>1 DEF ForceInv
<1>6. /\ Reached(U, n, d)
      /\ NamesTold(U, d) /\ StatementsTold(U, d) /\ SettingsTold(U, d, c)
      /\ d < Len(U) /\ Consumed(s, c) /\ Referred(s) /\ SaysSoFar(s, c, e)
  BY <1>0, <1>1, <1>5 DEF Progress
<1>7. U[d + 1] = s /\ d + 1 \in 1 .. Len(U) /\ d \in Nat /\ Len(U) \in Nat
  <2>1. d \in 0 .. Len(U) /\ IsSequence(U)
    BY <1>6 DEF Reached
  <2>2. Len(U) \in Nat
    BY <2>1, SeqFacts
  <2> QED
    BY <1>0, <1>1, <1>6, <2>1, <2>2, OpenIsNext DEF Filling
<1>8. c = Len(KeysOf(s)) /\ DOMAIN KeysOf(s) = 1 .. c /\ c \in Nat
  <2>1. /\ IsSequence(KeysOf(s)) /\ c \in 0 .. Len(KeysOf(s))
        /\ Len(loader.keys) = Len(KeysOf(s)) - c
    BY <1>6 DEF Consumed
  <2>2. Len(KeysOf(s)) \in Nat /\ DOMAIN KeysOf(s) = 1 .. Len(KeysOf(s))
    BY <2>1, SeqFacts
  <2>3. PICK m : m = Len(KeysOf(s))
    OBVIOUS
  <2>4. Len(loader.keys) = 0
    BY <1>1
  <2>5. m \in Nat /\ c \in 0 .. m /\ m - c = 0
    BY <2>1, <2>2, <2>3, <2>4
  <2>6. c = m
    BY <2>5
  <2> QED
    BY <2>2, <2>3, <2>6
<1>9. \A t : (IsOpen(t) <=> SameEntry(t, s)) /\ ~ IsOpen(t)'
  BY <1>0, <1>1, <1>3 DEF IsOpen
<1>10. ASSUME NEW i \in 1 .. d, ~ SameEntry(U[i], s), ~ Skipped(U[i])
       PROVE  InTable(U[i])' = InTable(U[i])
  <2>1. U[i].kind \in Kinds /\ Find(U[i].kind, U[i].name) # NULL
    BY <1>6, <1>10 DEF NamesTold
  <2> QED
    BY <1>1, <1>2, <1>4, <1>10, <2>1, OtherInTable
<1>11. 1 .. d + 1 = (1 .. d) \cup {d + 1}
  BY <1>7
<1>12. Reached(U, n, d + 1)'
  BY <1>1, <1>3, <1>6, ReachedNext DEF Filling
<1>13. Referred(s)' /\ \A f : SaysWhat(s, f) => SaysWhat(s, f)'
  BY <1>1, <1>2, <1>6, KnownStays
<1>18. \A t : Skipped(t)' <=> Skipped(t)
  BY <1>3 DEF Skipped
<1>19. IsStatement(s)
  BY <1>0, <1>1, HeadStatement DEF Filling
<1>14. NamesTold(U, d + 1)'
  <2>1. NamesTold(U, d)'
    BY <1>1, <1>2, <1>6, <1>18, KnownStays DEF NamesTold
  <2> QED
    BY <1>4, <1>7, <1>11, <1>13, <2>1 DEF NamesTold
<1>15. StatementsTold(U, d + 1)'
  <2> SUFFICES ASSUME NEW i \in 1 .. d + 1, U[i].kind \notin ConfKinds,
                      ~ Skipped(U[i])',
                      \A m \in i + 1 .. d + 1 : ~ SameEntry(U[i], U[m])
               PROVE  SaysWhat(U[i], InTable(U[i]))'
    BY DEF StatementsTold
  <2>1. CASE i = d + 1
    <3>1. SaysWhat(s, e)
      BY <1>4, <1>6, <1>7, <1>8, <1>19, <2>1, EndSays
    <3> QED
      BY <1>4, <1>7, <1>13, <2>1, <3>1
  <2>2. CASE i \in 1 .. d
    <3>1. ~ SameEntry(U[i], s) /\ \A m \in i + 1 .. d : ~ SameEntry(U[i], U[m])
      BY <1>7, <2>2
    <3>2. SaysWhat(U[i], InTable(U[i])) /\ Referred(U[i])
      BY <1>6, <1>9, <1>18, <2>2, <3>1 DEF StatementsTold, NamesTold
    <3>3. PICK f : f = InTable(U[i])
      OBVIOUS
    <3>4. SaysWhat(U[i], f)'
      BY <1>1, <1>2, <3>2, <3>3, KnownStays
    <3> QED
      BY <1>10, <1>18, <2>2, <3>1, <3>3, <3>4
  <2> QED
    BY <1>11, <2>1, <2>2
<1>16. SettingsTold(U, d + 1, 0)'
  <2> SUFFICES ASSUME NEW i \in 1 .. Len(U), U[i].kind \in ConfKinds,
                      NEW j \in DOMAIN U[i].keys, Done(d + 1, 0, i, j)
               PROVE  /\ Known(U[i].keys[j])'
                      /\ LastDone(U, d + 1, 0, i, j) =>
                             EntryOf(U[i])'.conf[U[i].keys[j].field]
                                 = Resolve(U[i].keys[j].field, U[i].keys[j].value)'
    BY DEF SettingsTold
  <2> DEFINE set == U[i].keys[j]
  <2>1. s.kind \in ConfKinds => DOMAIN s.keys = 1 .. c
    BY <1>8 DEF KeysOf, ConfKinds
  <2>2. i \in 1 .. d + 1
    BY <1>7 DEF Done
  <2>3. Done(d, c, i, j)
    <3>1. CASE i \in 1 .. d
      BY <1>7, <3>1 DEF Done
    <3>2. CASE i = d + 1
      <4>1. j \in 1 .. c
        BY <1>7, <2>1, <3>2
      <4> QED
        BY <3>2, <4>1 DEF Done
    <3> QED
      BY <1>11, <2>2, <3>1, <3>2
  <2>4. LastDone(U, d + 1, 0, i, j) => LastDone(U, d, c, i, j)
    <3>1. ASSUME NEW m \in i .. Len(U), NEW q, Done(d, c, m, q)
          PROVE  Done(d + 1, 0, m, q)
      <4>1. CASE m <= d
        BY <1>7, <4>1 DEF Done
      <4>2. CASE m = d + 1
        BY <1>7, <4>2 DEF Done
      <4> QED
        BY <3>1, <4>1, <4>2 DEF Done
    <3> QED
      BY <3>1 DEF LastDone
  <2>5. /\ Known(set)
        /\ LastDone(U, d, c, i, j) =>
               EntryOf(U[i]).conf[set.field] = Resolve(set.field, set.value)
    BY <1>6, <2>3 DEF SettingsTold
  <2>6. Known(set)' /\ Resolve(set.field, set.value)' = Resolve(set.field, set.value)
    BY <1>1, <1>2, <2>5, KnownStays
  <2>7. EntryOf(U[i])' = EntryOf(U[i])
    <3>1. EntryOf(U[i])' = InTable(U[i])'
      BY <1>9 DEF EntryOf
    <3>2. CASE SameEntry(U[i], s)
      <4>1. EntryOf(U[i]) = e
        BY <1>0, <1>9, <3>2 DEF EntryOf
      <4>2. InTable(U[i])' = InTable(s)'
        BY <3>2 DEF InTable, SameEntry
      <4> QED
        BY <1>4, <3>1, <4>1, <4>2
    <3>3. CASE ~ SameEntry(U[i], s)
      <4>1. i \in 1 .. d
        BY <1>7, <1>11, <2>2, <3>3 DEF SameEntry
      <4>2. EntryOf(U[i]) = InTable(U[i])
        BY <1>9, <3>3 DEF EntryOf
      <4>3. ~ Skipped(U[i])
        BY DEF Skipped, ConfKinds
      <4> QED
        BY <1>10, <3>1, <3>3, <4>1, <4>2, <4>3
    <3> QED
      BY <3>2, <3>3
  <2> QED
    BY <2>4, <2>5, <2>6, <2>7
<1>17. Progress(U, n, d + 1, 0)'
  BY <1>3, <1>12, <1>14, <1>15, <1>16 DEF Progress
<1> QED
  BY <1>3, <1>17 DEF ForceInv

LEMMA ListenerForce ==
    ASSUME ForceInv, DefInv', Listener
    PROVE  ForceInv'
<1>1. Inv /\ DOMAIN loader = LoaderFields
  BY DEF ForceInv, DefInv, RefInv, Inv, LoaderOK
<1>2. CASE load_access_conf
  <2>1. /\ loader'.todo = loader.todo /\ loader'.at = "select"
        /\ loader'.file = loader.file /\ loader'.remote = loader.remote
        /\ loader.at = "read" /\ loader.todo = <<>> /\ UNCHANGED tables
    BY <1>1, <1>2 DEF load_access_conf, LoaderFields
  <2> QED
    BY <2>1, ForceIdle
<1>3. CASE die
  <2>1. loader'.at = "dead"
    BY <1>1, <1>3 DEF die, LoaderFields
  <2> QED
    BY <2>1 DEF ForceInv
<1>4. CASE \E s \in Sessions, a \in Clients : access_check(s, a)
  <2>1. /\ loader.at = "select" /\ UNCHANGED tables
        /\ loader' = loader \/ loader' = [loader EXCEPT !.at = "dead"]
    BY <1>4 DEF access_check
  <2>2. CASE loader' = loader
    <3>1. loader.todo = <<>>
      BY <2>1 DEF ForceInv
    <3> QED
      BY <2>1, <2>2, <3>1, ForceIdle
  <2>3. CASE loader' = [loader EXCEPT !.at = "dead"]
    <3>1. loader'.at = "dead"
      BY <1>1, <2>3 DEF LoaderFields
    <3> QED
      BY <3>1 DEF ForceInv
  <2> QED
    BY <2>1, <2>2, <2>3
<1> QED
  BY <1>2, <1>3, <1>4, ReloadForce, ReadIncludeForce, SkipWildmatForce,
     ReadStatementForce, ReadKeyForce, EndStatementForce DEF Listener

LEMMA NextForce ==
    ASSUME CarefulFiles
    PROVE  ForceInv /\ [Next]_vars => ForceInv'
<1> SUFFICES ASSUME ForceInv, [Next]_vars PROVE ForceInv'
  OBVIOUS
<1>1. DefInv /\ RefInv /\ Inv /\ Layout
  BY DEF ForceInv, DefInv, RefInv, Inv
<1>2. DefInv' /\ Grown
  BY <1>1, NextDefined, NextInv
<1>3. CASE Listener
  BY <1>2, <1>3, ListenerForce
<1>4. CASE \E s \in Sessions : Child(s)
  BY <1>1, <1>2, <1>4, ChildRecounts, ForceElsewhere
<1>5. CASE \E f \in Files : EditFile(f)
  BY <1>2, <1>5, ForceElsewhere DEF EditFile
<1>6. CASE UNCHANGED vars
  BY <1>2, <1>6, ForceElsewhere DEF vars
<1> QED
  BY <1>3, <1>4, <1>5, <1>6 DEF Next

LEMMA InitForce == Init => ForceInv
<1> SUFFICES ASSUME Init PROVE ForceInv
  OBVIOUS
<1>1. DefInv
  BY InitDefined
<1>2. loader.at = "select" /\ loader.todo = <<>> /\ loader.file = <<>>
  BY DEF Init
<1>3. IsSequence(<<>>) /\ Len(<<>>) = 0
  BY EmptySeq DEF IsSequence
<1>4. Reached(<<>>, 0, 0)
  BY <1>2, <1>3 DEF Reached, Unfolded
<1>5. NamesTold(<<>>, 0) /\ StatementsTold(<<>>, 0) /\ SettingsTold(<<>>, 0, 0)
  BY <1>3 DEF NamesTold, StatementsTold, SettingsTold
<1>6. Progress(<<>>, 0, 0, 0)
  BY <1>2, <1>4, <1>5 DEF Progress
<1> QED
  BY <1>1, <1>2, <1>6 DEF ForceInv

\* At select every line is read and every statement done with.
LEMMA ForceNow ==
    ASSUME ForceInv
    PROVE  FileInForce
<1> SUFFICES ASSUME loader.at = "select" PROVE FileInForce
  BY DEF FileInForce
<1>1. PICK U, k, d, c : Progress(U, k, d, c)
  BY DEF ForceInv
<1>2. /\ Reached(U, k, d) /\ c = 0 /\ loader.todo = <<>>
      /\ NamesTold(U, d) /\ StatementsTold(U, d) /\ SettingsTold(U, d, 0)
  BY <1>1 DEF Progress, ForceInv
<1>3. /\ IsSequence(loader.file) /\ k \in 0 .. Len(loader.file)
      /\ U = Unfolded(loader.file, k) /\ IsSequence(U) /\ d \in 0 .. Len(U)
      /\ Len(loader.todo) = (Len(U) - d) + (Len(loader.file) - k)
  BY <1>2 DEF Reached
<1>4. Len(U) \in Nat /\ DOMAIN U = 1 .. Len(U) /\ Len(loader.file) \in Nat
  BY <1>3, SeqFacts
<1>5. Len(loader.todo) = 0
  BY <1>2
<1>6. k = Len(loader.file) /\ d = Len(U)
  <2>1. PICK x, y : x = Len(loader.file) /\ y = Len(U)
    OBVIOUS
  <2>2. x \in Nat /\ y \in Nat /\ k \in 0 .. x /\ d \in 0 .. y
    BY <1>3, <1>4, <2>1
  <2>3. (y - d) + (x - k) = 0
    BY <1>3, <1>5, <2>1
  <2>4. k = x /\ d = y
    BY <2>2, <2>3
  <2> QED
    BY <2>1, <2>4
<1>7. Expanded(loader.file) = U
  BY <1>3, <1>6, ExpandedUnfolds
<1>8. \A t : ~ IsOpen(t) /\ EntryOf(t) = InTable(t)
  BY DEF IsOpen, EntryOf
<1>9. ASSUME NEW i \in DOMAIN U, U[i].kind \in ConfKinds,
             NEW j \in DOMAIN U[i].keys, LastSetting(U, i, j)
      PROVE  InTable(U[i]).conf[U[i].keys[j].field]
                 = Resolve(U[i].keys[j].field, U[i].keys[j].value)
  <2>1. Done(d, 0, i, j)
    BY <1>4, <1>6 DEF Done
  <2>2. LastDone(U, d, 0, i, j)
    BY <1>9 DEF LastDone, LastSetting
  <2> QED
    BY <1>2, <1>4, <1>8, <1>9, <2>1, <2>2 DEF SettingsTold
<1>10. ASSUME NEW i \in DOMAIN U, U[i].kind \notin ConfKinds, ~ Skipped(U[i]),
              \A m \in i + 1 .. Len(U) : ~ SameEntry(U[i], U[m])
       PROVE  SaysWhat(U[i], InTable(U[i]))
  BY <1>2, <1>4, <1>6, <1>8, <1>10 DEF StatementsTold
<1> QED
  BY <1>7, <1>9, <1>10 DEF FileInForce, InTable, ConfKinds

\* When every file lists its default profile first, a file that was read is in
\* force as a whole: whatever the tables held, however its includes nest their
\* statements and however often it repeats a name, each statement that is the
\* last of its name and each last setting of a profile or vhost says what its
\* entry says.
THEOREM FilesInForce ==
    ASSUME CarefulFiles
    PROVE  Spec => []FileInForce
<1>1. Spec => []ForceInv
  BY InitForce, NextForce, PTL DEF Spec
<1>2. ForceInv => FileInForce
  BY ForceNow
<1> QED
  BY <1>1, <1>2, PTL
=============================================================================
