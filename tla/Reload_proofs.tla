---------------------------- MODULE Reload_proofs ----------------------------
(***************************************************************************)
(* Proofs about Reload, for any lists of groups, any number of levels and  *)
(* children and any order of signals, runs of updategroups and edits of    *)
(* servers.conf.                                                           *)
(***************************************************************************)
EXTENDS Reload, Finite_proofs, SequenceTheorems

-----------------------------------------------------------------------------
(* bsearch.                                                                *)

\* The step of the search, with f for what it goes on with.
Stretches(n) == (0 .. n) \X (0 .. n)

Mid(s) == (s[1] + s[2]) \div 2 + 1

Probe(f, table, n, group, s) ==
    IF s[1] >= s[2] THEN NULL
    ELSE IF NameAt(table, Mid(s)) = group THEN Mid(s)
    ELSE IF NameAt(table, Mid(s)) > group THEN f[<<s[1], Mid(s) - 1>>]
    ELSE f[<<Mid(s), s[2]>>]

LEMMA Middle ==
    ASSUME NEW n \in Nat, NEW s \in Stretches(n), s[1] < s[2]
    PROVE  /\ s[1] \in Nat /\ s[2] \in Nat /\ Mid(s) \in Nat
           /\ s[1] < Mid(s) /\ Mid(s) <= s[2] /\ s[2] <= n
           /\ <<s[1], Mid(s) - 1>> \in Stretches(n)
           /\ <<Mid(s), s[2]>> \in Stretches(n)
BY DEF Stretches, Mid

\* f is what the search computes for the stretches no longer than k.
Searches(f, k, table, n, group) ==
    \A s \in Stretches(n) :
        s[2] - s[1] <= k => f[s] = Probe(f, table, n, group, s)

LEMMA SearchLonger ==
    ASSUME NEW table, NEW n \in Nat, NEW group, NEW k \in Nat, NEW f,
           Searches(f, k, table, n, group)
    PROVE  Searches([s \in Stretches(n) |-> Probe(f, table, n, group, s)],
                    k + 1, table, n, group)
<1> DEFINE g == [s \in Stretches(n) |-> Probe(f, table, n, group, s)]
<1> SUFFICES ASSUME NEW s \in Stretches(n), s[2] - s[1] <= k + 1
             PROVE  g[s] = Probe(g, table, n, group, s)
  BY DEF Searches
<1>1. g[s] = Probe(f, table, n, group, s)
  OBVIOUS
<1>2. CASE s[1] >= s[2]
  BY <1>1, <1>2 DEF Probe
<1>3. CASE ~ s[1] >= s[2]
  <2> DEFINE left == <<s[1], Mid(s) - 1>>
             right == <<Mid(s), s[2]>>
  <2>1. /\ left \in Stretches(n) /\ right \in Stretches(n)
        /\ left[2] - left[1] <= k /\ right[2] - right[1] <= k
    <3>1. s[1] \in Nat /\ s[2] \in Nat
      BY DEF Stretches
    <3>2. s[1] < s[2]
      BY <1>3, <3>1
    <3>3. /\ Mid(s) \in Nat /\ s[1] < Mid(s) /\ Mid(s) <= s[2]
          /\ left \in Stretches(n) /\ right \in Stretches(n)
      BY <3>2, Middle
    <3> QED BY <3>1, <3>3
  <2>2. /\ f[left] = Probe(f, table, n, group, left)
        /\ f[right] = Probe(f, table, n, group, right)
    <3> HIDE DEF left, right
    <3> QED BY <2>1 DEF Searches
  <2>3. /\ g[left] = Probe(f, table, n, group, left)
        /\ g[right] = Probe(f, table, n, group, right)
    <3> HIDE DEF left, right
    <3> QED BY <2>1
  <2>4. g[left] = f[left] /\ g[right] = f[right]
    BY <2>2, <2>3
  <2> HIDE DEF g
  <2> QED BY <1>1, <2>4 DEF Probe
<1> QED BY <1>2, <1>3

\* The search of one array ends, whatever the array: it is defined.
IsSearch(f, table, n, group) ==
    f = [s \in Stretches(n) |-> Probe(f, table, n, group, s)]

LEMMA SearchExists ==
    ASSUME NEW table, NEW n \in Nat, NEW group
    PROVE  \E f : IsSearch(f, table, n, group)
<1> DEFINE T == {k \in Nat : ~ \E f : Searches(f, k, table, n, group)}
<1>1. T = {}
  <2> SUFFICES ASSUME T # {} PROVE FALSE
    OBVIOUS
  <2>1. PICK k \in T : \A j \in T : k <= j
    BY LeastNumber
  <2>2. CASE k = 0
    <3> DEFINE f == [s \in Stretches(n) |-> NULL]
    <3>1. ASSUME NEW s \in Stretches(n), s[2] - s[1] <= 0
          PROVE  f[s] = Probe(f, table, n, group, s)
      BY <3>1 DEF Probe, Stretches
    <3>2. Searches(f, 0, table, n, group)
      <4> HIDE DEF f
      <4> QED BY <3>1 DEF Searches
    <3> QED BY <2>1, <2>2, <3>2
  <2>3. CASE k # 0
    <3>1. k - 1 \in Nat /\ k - 1 \notin T
      BY <2>1, <2>3
    <3>2. PICK f : Searches(f, k - 1, table, n, group)
      BY <3>1
    <3>3. \E g : Searches(g, k - 1 + 1, table, n, group)
      BY <3>1, <3>2, SearchLonger
    <3>4. k - 1 + 1 = k
      BY <2>1
    <3> QED BY <2>1, <3>3, <3>4
  <2> QED BY <2>2, <2>3
<1>2. PICK f : Searches(f, n, table, n, group)
  BY <1>1
<1> DEFINE g == [s \in Stretches(n) |-> Probe(f, table, n, group, s)]
<1>3. \A s \in Stretches(n) : f[s] = g[s]
  <2>1. \A s \in Stretches(n) : s[2] - s[1] <= n
    BY DEF Stretches
  <2> QED BY <1>2, <2>1 DEF Searches
<1>4. \A s \in Stretches(n) :
          Probe(f, table, n, group, s) = Probe(g, table, n, group, s)
  <2> SUFFICES ASSUME NEW s \in Stretches(n)
               PROVE  Probe(f, table, n, group, s) = Probe(g, table, n, group, s)
    OBVIOUS
  <2> HIDE DEF g
  <2>1. CASE s[1] >= s[2]
    BY <2>1 DEF Probe
  <2>2. CASE ~ s[1] >= s[2]
    <3>1. s[1] < s[2]
      BY <2>2 DEF Stretches
    <3>2. /\ <<s[1], Mid(s) - 1>> \in Stretches(n)
          /\ <<Mid(s), s[2]>> \in Stretches(n)
      BY <3>1, Middle
    <3>3. /\ f[<<s[1], Mid(s) - 1>>] = g[<<s[1], Mid(s) - 1>>]
          /\ f[<<Mid(s), s[2]>>] = g[<<Mid(s), s[2]>>]
      BY <1>3, <3>2
    <3> QED BY <3>3 DEF Probe
  <2> QED BY <2>1, <2>2
<1>5. IsSearch(g, table, n, group)
  <2>1. g = [s \in Stretches(n) |-> Probe(g, table, n, group, s)]
    <3> DEFINE h == [s \in Stretches(n) |-> Probe(g, table, n, group, s)]
    <3>1. \A s \in Stretches(n) : g[s] = h[s]
      <4>1. \A s \in Stretches(n) : g[s] = Probe(f, table, n, group, s)
        OBVIOUS
      <4> HIDE DEF g
      <4>2. \A s \in Stretches(n) : h[s] = Probe(g, table, n, group, s)
        OBVIOUS
      <4> QED BY <1>4, <4>1, <4>2
    <3> QED BY <3>1
  <2> QED BY <2>1 DEF IsSearch
<1> QED BY <1>5

\* What bsearch returns is a search of the whole array.
LEMMA SearchFunction ==
    ASSUME NEW table, NEW n \in Nat, NEW group
    PROVE  \E f : /\ IsSearch(f, table, n, group)
                  /\ bsearch(table, n, group) = f[<<0, n>>]
<1> DEFINE s == CHOOSE f : IsSearch(f, table, n, group)
<1>1. bsearch(table, n, group) = s[<<0, n>>]
  BY DEF bsearch, IsSearch, Probe, Mid, Stretches
<1>2. IsSearch(s, table, n, group)
  BY SearchExists, Zenon
<1> QED BY <1>1, <1>2
\* A search that finds something is right, whatever the array.
LEMMA SearchSound ==
    ASSUME NEW table, NEW n \in Nat, NEW group, NEW f,
           IsSearch(f, table, n, group), NEW s \in Stretches(n), f[s] # NULL
    PROVE  /\ f[s] \in Nat /\ s[1] < f[s] /\ f[s] <= s[2]
           /\ NameAt(table, f[s]) = group
<1> DEFINE Good(r) == f[r] # NULL => /\ f[r] \in Nat /\ r[1] < f[r] /\ f[r] <= r[2]
                                     /\ NameAt(table, f[r]) = group
           T == {k \in Nat : \E r \in Stretches(n) : r[2] - r[1] = k /\ ~ Good(r)}
<1>1. \A r \in Stretches(n) : f[r] = Probe(f, table, n, group, r)
  BY DEF IsSearch
<1>2. \A r \in Stretches(n) : r[1] \in Nat /\ r[2] \in Nat
  BY DEF Stretches
<1>3. T = {}
  <2> SUFFICES ASSUME T # {} PROVE FALSE
    OBVIOUS
  <2>1. PICK k \in T : \A j \in T : k <= j
    BY LeastNumber
  <2>2. PICK r \in Stretches(n) : r[2] - r[1] = k /\ ~ Good(r)
    BY <2>1
  <2>3. f[r] = Probe(f, table, n, group, r)
    BY <1>1
  <2>4. r[1] < r[2]
    <3>1. f[r] # NULL
      BY <2>2
    <3>2. ~ r[1] >= r[2]
      BY <2>3, <3>1 DEF Probe
    <3> QED BY <1>2, <3>2
  <2> DEFINE left == <<r[1], Mid(r) - 1>>
             right == <<Mid(r), r[2]>>
  <2>5. /\ left \in Stretches(n) /\ right \in Stretches(n)
        /\ Mid(r) \in Nat /\ r[1] < Mid(r) /\ Mid(r) <= r[2]
    BY <2>4, Middle
  <2>6. /\ left[1] = r[1] /\ left[2] = Mid(r) - 1
        /\ right[1] = Mid(r) /\ right[2] = r[2]
    OBVIOUS
  <2> HIDE DEF left, right
  <2>7. /\ left[2] - left[1] \in Nat /\ left[2] - left[1] < k
        /\ right[2] - right[1] \in Nat /\ right[2] - right[1] < k
    BY <1>2, <2>2, <2>5, <2>6
  <2>8. left[2] - left[1] \notin T /\ right[2] - right[1] \notin T
    <3> HIDE DEF T
    <3>1. k \in Nat
      BY <2>1 DEF T
    <3> QED BY <2>1, <2>7, <3>1
  <2>9. Good(left) /\ Good(right)
    <3> HIDE DEF Good
    <3> QED BY <2>5, <2>7, <2>8
  <2>10. \/ f[r] = Mid(r) /\ NameAt(table, Mid(r)) = group
         \/ f[r] = f[left]
         \/ f[r] = f[right]
    BY <2>2, <2>3 DEF Probe, left, right
  <2>11. CASE f[r] = Mid(r) /\ NameAt(table, Mid(r)) = group
    BY <2>2, <2>5, <2>11
  <2>12. CASE f[r] = f[left]
    BY <1>2, <2>2, <2>5, <2>6, <2>9, <2>12
  <2>13. CASE f[r] = f[right]
    BY <1>2, <2>2, <2>5, <2>6, <2>9, <2>13
  <2> QED BY <2>10, <2>11, <2>12, <2>13
<1>4. Good(s)
  <2>1. s[2] - s[1] \in Nat \/ s[1] >= s[2]
    BY <1>2
  <2>2. s[1] >= s[2] => f[s] = NULL
    BY <1>1 DEF Probe
  <2> HIDE DEF Good
  <2>3. CASE s[1] >= s[2]
    BY <2>2, <2>3 DEF Good
  <2>4. CASE s[2] - s[1] \in Nat
    BY <1>3, <2>4
  <2> QED BY <2>1, <2>3, <2>4
<1> QED BY <1>4

\* Names in order, up to the n-th entry.
Ascending(table, n) ==
    /\ n <= Len(table)
    /\ \A i \in 1 .. n : table[i].newsgroup \in Int
    /\ \A i, j \in 1 .. n : i < j => table[i].newsgroup <= table[j].newsgroup

\* Among names in order the search finds every name that is there.
LEMMA SearchComplete ==
    ASSUME NEW table, Len(table) \in Nat, NEW n \in Nat, NEW group \in Int,
           NEW f, IsSearch(f, table, n, group), Ascending(table, n),
           NEW s \in Stretches(n),
           NEW i \in Nat, s[1] < i, i <= s[2], NameAt(table, i) = group
    PROVE  f[s] # NULL
<1> DEFINE Good(r) == (\E j \in Nat : /\ r[1] < j /\ j <= r[2]
                                      /\ NameAt(table, j) = group)
                      => f[r] # NULL
           T == {k \in Nat : \E r \in Stretches(n) : r[2] - r[1] = k /\ ~ Good(r)}
<1>1. \A r \in Stretches(n) : f[r] = Probe(f, table, n, group, r)
  BY DEF IsSearch
<1>2. \A r \in Stretches(n) : r[1] \in Nat /\ r[2] \in Nat /\ r[2] <= n
  BY DEF Stretches
<1>3. /\ \A j \in 1 .. n : NameAt(table, j) \in Int
      /\ \A j, l \in 1 .. n : j < l => NameAt(table, j) <= NameAt(table, l)
  BY DEF Ascending, NameAt
<1>4. T = {}
  <2> SUFFICES ASSUME T # {} PROVE FALSE
    OBVIOUS
  <2>1. PICK k \in T : \A j \in T : k <= j
    BY LeastNumber
  <2>2. PICK r \in Stretches(n) : r[2] - r[1] = k /\ ~ Good(r)
    BY <2>1
  <2>3. PICK j \in Nat : r[1] < j /\ j <= r[2] /\ NameAt(table, j) = group
    BY <2>2
  <2>4. f[r] = NULL /\ f[r] = Probe(f, table, n, group, r)
    BY <1>1, <2>2
  <2>5. r[1] < r[2]
    BY <1>2, <2>3
  <2> DEFINE left == <<r[1], Mid(r) - 1>>
             right == <<Mid(r), r[2]>>
  <2>6. /\ left \in Stretches(n) /\ right \in Stretches(n)
        /\ Mid(r) \in Nat /\ r[1] < Mid(r) /\ Mid(r) <= r[2]
    BY <2>5, Middle
  <2>7. /\ left[1] = r[1] /\ left[2] = Mid(r) - 1
        /\ right[1] = Mid(r) /\ right[2] = r[2]
    OBVIOUS
  <2>8. /\ NameAt(table, Mid(r)) # group
        /\ NameAt(table, Mid(r)) > group => f[left] = NULL
        /\ ~ NameAt(table, Mid(r)) > group => f[right] = NULL
    <3>1. ~ r[1] >= r[2]
      BY <1>2, <2>5
    <3>2. Mid(r) # NULL
      BY <1>2, <2>6 DEF NULL
    <3> QED BY <2>4, <3>1, <3>2 DEF Probe
  <2> HIDE DEF left, right
  <2>9. /\ left[2] - left[1] \in Nat /\ left[2] - left[1] < k
        /\ right[2] - right[1] \in Nat /\ right[2] - right[1] < k
    <3>1. /\ r[1] \in Nat /\ r[2] \in Nat /\ Mid(r) \in Nat
          /\ r[1] < Mid(r) /\ Mid(r) <= r[2] /\ r[2] - r[1] = k
      BY <1>2, <2>2, <2>6
    <3> HIDE DEF Good
    <3> QED BY <2>7, <3>1
  <2>10. left[2] - left[1] \notin T /\ right[2] - right[1] \notin T
    <3> HIDE DEF T
    <3>1. k \in Nat
      BY <2>1 DEF T
    <3> QED BY <2>1, <2>9, <3>1
  <2>11. Good(left) /\ Good(right)
    <3> HIDE DEF Good
    <3> QED BY <2>6, <2>9, <2>10
  <2>12. Mid(r) \in 1 .. n /\ j \in 1 .. n /\ j # Mid(r)
    <3>1. /\ r[1] \in Nat /\ r[2] \in Nat /\ r[2] <= n
      BY <1>2
    <3>2. j \in Nat /\ r[1] < j /\ j <= r[2]
      BY <2>3
    <3>3. Mid(r) \in Nat /\ r[1] < Mid(r) /\ Mid(r) <= r[2]
      BY <2>6
    <3>4. j # Mid(r)
      BY <2>3, <2>8
    <3> HIDE DEF Good
    <3> QED BY <3>1, <3>2, <3>3, <3>4
  <2>13. CASE NameAt(table, Mid(r)) > group
    <3>1. ~ Mid(r) < j
      BY <1>3, <2>3, <2>12, <2>13
    <3>2. left[1] < j /\ j <= left[2]
      BY <1>2, <2>3, <2>6, <2>7, <2>12, <3>1
    <3> QED BY <2>3, <2>8, <2>11, <2>13, <3>2
  <2>14. CASE ~ NameAt(table, Mid(r)) > group
    <3>1. ~ j < Mid(r)
      BY <1>3, <2>3, <2>8, <2>12, <2>14
    <3>2. right[1] < j /\ j <= right[2]
      BY <1>2, <2>3, <2>6, <2>7, <2>12, <3>1
    <3> QED BY <2>3, <2>8, <2>11, <2>14, <3>2
  <2> QED BY <2>13, <2>14
<1>5. Good(s)
  <2>1. s[2] - s[1] \in Nat
    BY <1>2
  <2> HIDE DEF Good
  <2> QED BY <1>4, <2>1
<1> QED BY <1>5

\* bsearch of the first n entries of a table in order: what it returns is an
\* entry of the group, and it returns one if there is one.
LEMMA BsearchFinds ==
    ASSUME NEW table, Len(table) \in Nat, NEW n \in Nat, NEW group \in Int,
           Ascending(table, n)
    PROVE  LET i == bsearch(table, n, group)
           IN  /\ i # NULL => i \in 1 .. n /\ table[i].newsgroup = group
               /\ (\E j \in 1 .. n : table[j].newsgroup = group) => i # NULL
<1>1. PICK f : IsSearch(f, table, n, group) /\ bsearch(table, n, group) = f[<<0, n>>]
  BY SearchFunction
<1> DEFINE s == <<0, n>>
<1>2. s \in Stretches(n) /\ s[1] = 0 /\ s[2] = n
  BY DEF Stretches
<1> HIDE DEF s
<1>3. ASSUME f[s] # NULL
      PROVE  f[s] \in 1 .. n /\ table[f[s]].newsgroup = group
  <2>1. /\ f[s] \in Nat /\ 0 < f[s] /\ f[s] <= n
        /\ NameAt(table, f[s]) = group
    <3>1. /\ f[s] \in Nat /\ s[1] < f[s] /\ f[s] <= s[2]
          /\ NameAt(table, f[s]) = group
      <4>1. IsSearch(f, table, n, group) /\ s \in Stretches(n)
        BY <1>1, <1>2
      <4>2. f[s] # NULL
        BY <1>3
      <4> QED BY <4>1, <4>2, SearchSound
    <3> QED BY <1>2, <3>1
  <2> QED BY <2>1 DEF NameAt, Ascending
<1>4. ASSUME NEW j \in 1 .. n, table[j].newsgroup = group
      PROVE  f[s] # NULL
  <2>1. /\ j \in Nat /\ s[1] < j /\ j <= s[2] /\ NameAt(table, j) = group
    BY <1>2, <1>4 DEF NameAt, Ascending
  <2> QED BY <1>1, <1>2, <2>1, SearchComplete
<1>5. bsearch(table, n, group) = f[s]
  BY <1>1 DEF s
<1> QED BY <1>3, <1>4, <1>5
-----------------------------------------------------------------------------
(* qsort and getlist_active.                                               *)

\* What finds something finds it, in order or not.
LEMMA BsearchSound ==
    ASSUME NEW S, NEW table \in Seq(S), NEW group,
           bsearch(table, Len(table), group) # NULL
    PROVE  \E i \in DOMAIN table : table[i].newsgroup = group
<1> DEFINE n == Len(table)
<1>1. n \in Nat
  OBVIOUS
<1>2. PICK f : IsSearch(f, table, n, group) /\ bsearch(table, n, group) = f[<<0, n>>]
  BY <1>1, SearchFunction
<1> DEFINE s == <<0, n>>
<1>3. s \in Stretches(n) /\ s[1] = 0 /\ s[2] = n
  BY <1>1 DEF Stretches
<1>4. f[s] # NULL /\ IsSearch(f, table, n, group)
  BY <1>2
<1> HIDE DEF s, n
<1>5. /\ f[s] \in Nat /\ s[1] < f[s] /\ f[s] <= s[2]
      /\ NameAt(table, f[s]) = group
  <2>1. IsSearch(f, table, n, group) /\ s \in Stretches(n)
    BY <1>3, <1>4
  <2>2. f[s] # NULL
    BY <1>4
  <2> QED BY <1>1, <2>1, <2>2, SearchSound
<1>6. f[s] \in DOMAIN table
  BY <1>3, <1>5 DEF n
<1> QED BY <1>3, <1>5, <1>6 DEF NameAt, n

\* One sequence has the entries of the other.
SameEntries(t, groups) ==
    \A e : (\E i \in DOMAIN t : t[i] = e) <=>
               (\E i \in DOMAIN groups : groups[i] = e)

LEMMA QsortFacts ==
    ASSUME NEW S, NEW groups \in Seq(S), NEW t \in qsort(groups)
    PROVE  /\ t \in Seq(S) /\ Len(t) = Len(groups) /\ Sorted(t)
           /\ SameEntries(t, groups)
<1> DEFINE D == DOMAIN groups
<1>1. PICK p \in Bijection(D, D) : t = [i \in D |-> groups[p[i]]]
  BY DEF qsort
<1>2. Sorted(t)
  BY DEF qsort
<1>3. /\ \A i \in D : p[i] \in D
      /\ \A j \in D : \E i \in D : p[i] = j
  BY DEF Bijection, Injection, Surjection
<1>4. D = 1 .. Len(groups) /\ Len(groups) \in Nat
  OBVIOUS
<1>5. \A i \in D : groups[i] \in S
  OBVIOUS
<1> HIDE DEF D
<1>6. t \in Seq(S) /\ Len(t) = Len(groups) /\ DOMAIN t = D
  <2>1. \A i \in 1 .. Len(groups) : groups[p[i]] \in S
    BY <1>3, <1>4, <1>5
  <2> QED BY <1>1, <1>4, <2>1
<1>7. \A i \in D : t[i] = groups[p[i]]
  BY <1>1
<1>8. ASSUME NEW e, NEW i \in D, t[i] = e
      PROVE  \E j \in D : groups[j] = e
  BY <1>3, <1>7, <1>8
<1>9. ASSUME NEW e, NEW j \in D, groups[j] = e
      PROVE  \E i \in D : t[i] = e
  <2>1. PICK i \in D : p[i] = j
    BY <1>3
  <2> QED BY <1>7, <1>9, <2>1
<1> QED BY <1>2, <1>6, <1>8, <1>9 DEF D, SameEntries

\* One group of a list, with f for the groups known before.
Take(f, groups, list, level, n) ==
    IF n = 0 THEN groups
    ELSE IF gg(f[n - 1], list[n], Len(groups)) # NULL THEN f[n - 1]
    ELSE Append(f[n - 1], [newsgroup |-> list[n], server |-> level])

IsMerge(f, groups, list, level) ==
    f = [n \in 0 .. Len(list) |-> Take(f, groups, list, level, n)]

LEMMA MergeExists ==
    ASSUME NEW groups, NEW list, Len(list) \in Nat, NEW level
    PROVE  \E f : IsMerge(f, groups, list, level)
<1> DEFINE N == Len(list)
           Known(f, k) == \A n \in 0 .. N :
                              n <= k => f[n] = Take(f, groups, list, level, n)
           T == {k \in Nat : ~ \E f : Known(f, k)}
<1>0. N \in Nat
  OBVIOUS
<1> HIDE DEF N
<1>1. ASSUME NEW k \in Nat, NEW f, Known(f, k)
      PROVE  \E g : Known(g, k + 1)
  <2> DEFINE g == [n \in 0 .. N |-> Take(f, groups, list, level, n)]
  <2>1. \A n \in 0 .. N : g[n] = Take(f, groups, list, level, n)
    OBVIOUS
  <2> HIDE DEF g
  <2>2. ASSUME NEW n \in 0 .. N, n <= k + 1
        PROVE  g[n] = Take(g, groups, list, level, n)
    <3>1. CASE n = 0
      BY <2>1, <3>1 DEF Take
    <3>2. CASE n # 0
      <4>1. n - 1 \in 0 .. N /\ n - 1 <= k
        BY <1>0, <2>2, <3>2
      <4>2. f[n - 1] = g[n - 1]
        BY <1>1, <2>1, <4>1
      <4> QED BY <2>1, <4>2 DEF Take
    <3> QED BY <3>1, <3>2
  <2> QED BY <2>2
<1>2. T = {}
  <2> SUFFICES ASSUME T # {} PROVE FALSE
    OBVIOUS
  <2>1. PICK k \in T : \A j \in T : k <= j
    BY LeastNumber
  <2>2. CASE k = 0
    <3> DEFINE f == [n \in 0 .. N |-> groups]
    <3>1. Known(f, 0)
      BY <1>0 DEF Take
    <3> HIDE DEF f, Known
    <3> QED BY <2>1, <2>2, <3>1
  <2>3. CASE k # 0
    <3> HIDE DEF Known
    <3>1. k - 1 \in Nat /\ k - 1 \notin T
      BY <2>1, <2>3
    <3>2. PICK f : Known(f, k - 1)
      BY <3>1
    <3>3. \E g : Known(g, k - 1 + 1)
      BY <1>1, <3>1, <3>2
    <3>4. k - 1 + 1 = k
      BY <2>1
    <3> QED BY <2>1, <3>3, <3>4
  <2> QED BY <2>2, <2>3
<1>3. PICK f : Known(f, N)
  BY <1>0, <1>2
<1> DEFINE g == [n \in 0 .. N |-> Take(f, groups, list, level, n)]
           h == [n \in 0 .. N |-> Take(g, groups, list, level, n)]
<1>4. \A n \in 0 .. N : g[n] = Take(f, groups, list, level, n)
  OBVIOUS
<1>5. \A n \in 0 .. N : f[n] = g[n]
  <2>1. \A n \in 0 .. N : n <= N
    BY <1>0
  <2> HIDE DEF g
  <2> QED BY <1>3, <1>4, <2>1
<1>6. \A n \in 0 .. N : g[n] = h[n]
  <2> SUFFICES ASSUME NEW n \in 0 .. N PROVE g[n] = h[n]
    OBVIOUS
  <2>1. h[n] = Take(g, groups, list, level, n)
    OBVIOUS
  <2> HIDE DEF g, h
  <2>2. CASE n = 0
    BY <1>4, <2>1, <2>2 DEF Take
  <2>3. CASE n # 0
    <3>1. n - 1 \in 0 .. N
      BY <1>0, <2>3
    <3> QED BY <1>4, <1>5, <2>1, <3>1 DEF Take
  <2> QED BY <2>2, <2>3
<1>7. g = h
  BY <1>6
<1>8. IsMerge(g, groups, list, level)
  <2> HIDE DEF g
  <2> QED BY <1>7 DEF IsMerge, N
<1> QED BY <1>8

LEMMA MergeFunction ==
    ASSUME NEW groups, NEW list, Len(list) \in Nat, NEW level
    PROVE  \E f : /\ IsMerge(f, groups, list, level)
                  /\ Merged(groups, list, level) = f[Len(list)]
<1> DEFINE s == CHOOSE f : IsMerge(f, groups, list, level)
<1>1. Merged(groups, list, level) = s[Len(list)]
  BY DEF Merged, IsMerge, Take
<1>2. IsMerge(s, groups, list, level)
  BY MergeExists, Zenon
<1> QED BY <1>1, <1>2
Entry(group, level) == [newsgroup |-> group, server |-> level]

Unknown(groups, group) == \A i \in DOMAIN groups : groups[i].newsgroup # group

LEMMA GroupNumbers ==
    /\ \A g \in Groups : g \in Int /\ g # 0
    /\ \A l \in Levels : \A list \in Lists[l] : list \in Seq(Groups)
    /\ Levels \subseteq Nat \ {0}
<1>1. /\ Lists \in [Levels -> SUBSET Seq(Nat \ {0})] /\ NumLevels \in Nat
  BY ListAssumption
<1>2. Levels \subseteq Nat \ {0}
  BY <1>1 DEF Levels
<1>3. \A l \in Levels : \A list \in Lists[l] : list \in Seq(Nat \ {0})
  BY <1>1
<1>4. \A l \in Levels : \A list \in Lists[l] :
          \A i \in DOMAIN list : list[i] \in Groups
  BY DEF Groups, Range
<1>5. \A l \in Levels : \A list \in Lists[l] : list \in Seq(Groups)
  BY <1>3, <1>4
<1>6. ASSUME NEW g \in Groups
      PROVE  g \in Int /\ g # 0
  <2>1. PICK l \in Levels : \E list \in Lists[l] : g \in Range(list)
    BY DEF Groups
  <2>2. PICK list \in Lists[l] : g \in Range(list)
    BY <2>1
  <2>3. PICK i \in DOMAIN list : g = list[i]
    BY <2>2 DEF Range
  <2> QED BY <1>3, <2>3
<1> QED BY <1>2, <1>5, <1>6

\* Entries named by numbers and in order can be searched.
LEMMA SortedAscending ==
    ASSUME NEW groups \in Seq(Entries), Sorted(groups)
    PROVE  Ascending(groups, Len(groups))
<1>1. \A e \in Entries : e.newsgroup \in Int
  BY GroupNumbers DEF Entries
<1>2. DOMAIN groups = 1 .. Len(groups) /\ Len(groups) \in Nat
  OBVIOUS
<1>3. \A i \in 1 .. Len(groups) : groups[i] \in Entries
  OBVIOUS
<1> QED BY <1>1, <1>2, <1>3 DEF Ascending, Sorted, cmp_active

\* After n groups of the list: the groups known before, and behind them those
\* of the list that none of them is.
Grown(f, groups, list, level, n) ==
    /\ f[n] \in Seq(Entries)
    /\ Len(groups) <= Len(f[n])
    /\ \A i \in DOMAIN groups : f[n][i] = groups[i]
    /\ \A e : (\E i \in DOMAIN f[n] : f[n][i] = e) <=>
                  \/ \E i \in DOMAIN groups : groups[i] = e
                  \/ \E m \in 1 .. n : /\ Unknown(groups, list[m])
                                       /\ e = Entry(list[m], level)

LEMMA GrowsByOne ==
    ASSUME NEW groups \in Seq(Entries), Sorted(groups),
           NEW list \in Seq(Groups), NEW level \in Levels,
           NEW f, IsMerge(f, groups, list, level),
           NEW n \in 1 .. Len(list), Grown(f, groups, list, level, n - 1)
    PROVE  Grown(f, groups, list, level, n)
<1> DEFINE before == f[n - 1]
           group == list[n]
           new == Entry(group, level)
           Old(e) == \E i \in DOMAIN groups : groups[i] = e
           Taken(e, k) == \E m \in 1 .. k : /\ Unknown(groups, list[m])
                                            /\ e = Entry(list[m], level)
           Within(s, e) == \E i \in DOMAIN s : s[i] = e
<1>1. /\ n \in Nat /\ n - 1 \in Nat /\ n # 0 /\ n \in 0 .. Len(list)
      /\ Len(list) \in Nat /\ Len(groups) \in Nat
  OBVIOUS
<1>2. f[n] = Take(f, groups, list, level, n)
  BY <1>1 DEF IsMerge
<1>3. /\ before \in Seq(Entries)
      /\ Len(groups) <= Len(before)
      /\ \A i \in DOMAIN groups : before[i] = groups[i]
      /\ \A e : Within(before, e) <=> Old(e) \/ Taken(e, n - 1)
  BY DEF Grown
<1>4. f[n] = IF gg(before, group, Len(groups)) # NULL THEN before
             ELSE Append(before, new)
  BY <1>1, <1>2 DEF Take, Entry
<1>5. group \in Groups /\ new \in Entries /\ group \in Int
  <2>1. group \in Groups
    BY <1>1
  <2> QED BY <2>1, GroupNumbers DEF Entries, Entry
<1>6. \A e : Taken(e, n) <=> Taken(e, n - 1) \/ (Unknown(groups, group) /\ e = new)
  <2>1. \A m : m \in 1 .. n <=> m \in 1 .. n - 1 \/ m = n
    BY <1>1
  <2> QED BY <2>1
<1>7. Len(groups) = 0 => \A g : Unknown(groups, g)
  <2>1. DOMAIN groups = 1 .. Len(groups)
    OBVIOUS
  <2> QED BY <2>1 DEF Unknown
<1> HIDE DEF before, Taken
<1>8. CASE gg(before, group, Len(groups)) # NULL
  <2>1. f[n] = before
    BY <1>4, <1>8
  <2>2. ~ Unknown(groups, group) \/ Taken(new, n - 1)
    <3>1. CASE Len(groups) = 0
      <4>1. bsearch(before, Len(before), group) # NULL
        BY <1>8, <3>1 DEF gg
      <4> HIDE DEF group
      <4>2. PICK i \in DOMAIN before : before[i].newsgroup = group
        BY <1>3, <4>1, BsearchSound
      <4>3. ~ Old(before[i])
        <5>1. DOMAIN groups = 1 .. Len(groups)
          OBVIOUS
        <5> QED BY <3>1, <5>1
      <4>4. Taken(before[i], n - 1)
        BY <1>3, <4>2, <4>3
      <4>5. PICK m \in 1 .. n - 1 : before[i] = Entry(list[m], level)
        BY <4>4 DEF Taken
      <4>6. list[m] = group
        BY <4>2, <4>5 DEF Entry
      <4> QED BY <4>4, <4>5, <4>6
    <3>2. CASE Len(groups) # 0
      <4> DEFINE k == Len(groups)
                 i == bsearch(before, k, group)
      <4>1. i # NULL
        BY <1>8, <3>2 DEF gg
      <4>2. Ascending(groups, k)
        BY SortedAscending
      <4>3. DOMAIN groups = 1 .. k /\ k \in Nat
        OBVIOUS
      <4>4. \A j \in 1 .. k : before[j] = groups[j]
        BY <1>3, <4>3
      <4>5. k <= Len(before) /\ Len(before) \in Nat
        BY <1>3
      <4> HIDE DEF k, group
      <4>6. Ascending(before, k)
        BY <4>2, <4>4, <4>5 DEF Ascending
      <4>7. i # NULL => i \in 1 .. k /\ before[i].newsgroup = group
        <5> HIDE DEF i
        <5> QED BY <1>5, <4>3, <4>5, <4>6, BsearchFinds DEF i
      <4> HIDE DEF i
      <4>8. groups[i].newsgroup = group /\ i \in DOMAIN groups
        BY <4>1, <4>3, <4>4, <4>7
      <4> QED BY <4>8 DEF Unknown
    <3> QED BY <3>1, <3>2
  <2>3. \A e : Taken(e, n) <=> Taken(e, n - 1)
    BY <1>6, <2>2
  <2> QED BY <1>3, <2>1, <2>3 DEF Grown, Taken
<1>9. CASE gg(before, group, Len(groups)) = NULL
  <2>1. f[n] = Append(before, new)
    BY <1>4, <1>9
  <2>2. Unknown(groups, group)
    <3>1. SUFFICES ASSUME NEW j \in DOMAIN groups, groups[j].newsgroup = group
                   PROVE  FALSE
      BY DEF Unknown
    <3> DEFINE k == Len(groups)
    <3>2. DOMAIN groups = 1 .. k /\ k \in Nat
      OBVIOUS
    <3>3. k # 0 /\ j \in 1 .. k
      BY <3>2
    <3>4. bsearch(before, k, group) = NULL
      BY <1>9, <3>3 DEF gg
    <3>5. Ascending(groups, k)
      BY SortedAscending
    <3>6. \A l \in 1 .. k : before[l] = groups[l]
      BY <1>3, <3>2
    <3>7. k <= Len(before) /\ Len(before) \in Nat
      BY <1>3
    <3>8. before[j].newsgroup = group
      BY <3>1, <3>3, <3>6
    <3> HIDE DEF k, group
    <3>9. Ascending(before, k)
      BY <3>5, <3>6, <3>7 DEF Ascending
    <3>10. \E l \in 1 .. k : before[l].newsgroup = group
      BY <3>3, <3>8
    <3> QED BY <1>5, <3>2, <3>4, <3>7, <3>9, <3>10, BsearchFinds
  <2>3. /\ f[n] \in Seq(Entries) /\ Len(f[n]) = Len(before) + 1
        /\ DOMAIN f[n] = 1 .. Len(before) + 1 /\ DOMAIN before = 1 .. Len(before)
        /\ \A i \in DOMAIN before : f[n][i] = before[i]
        /\ f[n][Len(before) + 1] = new
    <3> HIDE DEF new
    <3> QED BY <1>3, <1>5, <2>1
  <2>4. Len(before) \in Nat
    BY <1>3
  <2>5. \A e : Within(f[n], e) <=> Within(before, e) \/ e = new
    <3>1. \A i : i \in 1 .. Len(before) + 1 <=>
                     i \in 1 .. Len(before) \/ i = Len(before) + 1
      BY <2>4
    <3> HIDE DEF new
    <3> QED BY <2>3, <3>1
  <2>6. \A e : Within(f[n], e) <=> Old(e) \/ Taken(e, n)
    BY <1>3, <1>6, <2>2, <2>5
  <2>7. \A i \in DOMAIN groups : f[n][i] = groups[i]
    <3>1. DOMAIN groups = 1 .. Len(groups) /\ Len(groups) \in Nat
      OBVIOUS
    <3>2. \A i \in DOMAIN groups : i \in DOMAIN before
      BY <1>3, <2>3, <2>4, <3>1
    <3> QED BY <1>3, <2>3, <3>2
  <2>8. Len(groups) <= Len(f[n])
    BY <1>1, <1>3, <2>3, <2>4
  <2> QED BY <2>3, <2>6, <2>7, <2>8 DEF Grown, Taken
<1> QED BY <1>8, <1>9

\* getlist_active: the groups known and those of the list that were not, in
\* order.
\* The sequence has the entries of groups and those the list adds.
AddsListed(t, groups, list, level) ==
    \A e : (\E i \in DOMAIN t : t[i] = e) <=>
               \/ \E i \in DOMAIN groups : groups[i] = e
               \/ \E m \in DOMAIN list : /\ Unknown(groups, list[m])
                                          /\ e = Entry(list[m], level)

LEMMA GetlistFacts ==
    ASSUME NEW groups \in Seq(Entries), Sorted(groups),
           NEW list \in Seq(Groups), NEW level \in Levels,
           NEW t \in getlist_active(groups, list, level)
    PROVE  /\ t \in Seq(Entries) /\ Sorted(t)
           /\ AddsListed(t, groups, list, level)
<1> DEFINE N == Len(list)
<1>1. N \in Nat /\ DOMAIN list = 1 .. N
  OBVIOUS
<1>2. PICK f : IsMerge(f, groups, list, level) /\ Merged(groups, list, level) = f[N]
  BY <1>1, MergeFunction
<1> DEFINE T == {k \in Nat : k <= N /\ ~ Grown(f, groups, list, level, k)}
<1>3. IsMerge(f, groups, list, level)
  BY <1>2
<1>4. Grown(f, groups, list, level, 0)
  <2>1. f[0] = groups
    BY <1>1, <1>3 DEF IsMerge, Take
  <2>2. Len(groups) \in Nat /\ ~ \E m \in 1 .. 0 : TRUE
    OBVIOUS
  <2> QED BY <2>1, <2>2 DEF Grown
<1>5. T = {}
  <2> SUFFICES ASSUME T # {} PROVE FALSE
    OBVIOUS
  <2>1. PICK k \in T : \A j \in T : k <= j
    BY LeastNumber
  <2>2. k # 0
    BY <1>4, <2>1
  <2>3. k - 1 \in Nat /\ k - 1 \notin T /\ k \in 1 .. N
    BY <1>1, <2>1, <2>2
  <2>4. Grown(f, groups, list, level, k - 1)
    BY <1>1, <2>3
  <2>5. Grown(f, groups, list, level, k)
    <3> HIDE DEF T
    <3> QED BY <1>3, <2>3, <2>4, GrowsByOne
  <2> QED BY <2>1, <2>5
<1>6. Grown(f, groups, list, level, N)
  <2> HIDE DEF N
  <2> QED BY <1>1, <1>5
<1> DEFINE merged == Merged(groups, list, level)
<1>7. /\ merged \in Seq(Entries)
      /\ \A e : (\E i \in DOMAIN merged : merged[i] = e) <=>
                    \/ \E i \in DOMAIN groups : groups[i] = e
                    \/ \E m \in 1 .. N : /\ Unknown(groups, list[m])
                                         /\ e = Entry(list[m], level)
  BY <1>2, <1>6 DEF Grown
<1>8. t \in qsort(merged)
  BY DEF getlist_active
<1> HIDE DEF merged
<1>9. t \in Seq(Entries) /\ Sorted(t) /\ SameEntries(t, merged)
  <2>1. merged \in Seq(Entries)
    BY <1>7
  <2> QED BY <2>1, <1>8, QsortFacts
<1> HIDE DEF N
<1> QED BY <1>1, <1>7, <1>9 DEF SameEntries, AddsListed
-----------------------------------------------------------------------------
(* The variables and the times of the files.                               *)

ListenerPoints == Points \cup {"exit", "dead"}

\* What the variables hold, whole records.
Shapes ==
    /\ clock \in Nat
    /\ conf \in [levels : SUBSET Levels, mtime : Nat]
    /\ active \in [groups : Seq(Entries), mtime : Nat]
    /\ update \in [at : {"idle", "list", "write"}, level : Nat, left : Nat,
                   groups : Seq(Entries), lists : Seq(Seq(Groups))]
    /\ listener \in [at : ListenerPoints, reload : BOOLEAN, terminate : BOOLEAN,
                     asked : Nat, newsgroups : Seq(Entries)]
    /\ servers \in SUBSET Levels
    /\ numgroups \in Nat /\ laststatserver \in Nat /\ laststatactive \in Nat

\* Everything updategroups and the listener hold is in the order the search
\* needs: the file is written in order, so each part of it is in order too.
InOrder ==
    /\ Sorted(active.groups)
    /\ Sorted(listener.newsgroups)
    /\ update.at # "idle" => Sorted(update.groups)
    /\ update.at = "write" =>
          \A i \in DOMAIN active.groups : \A j \in DOMAIN update.groups :
              active.groups[i].newsgroup <= update.groups[j].newsgroup
    /\ numgroups = Len(listener.newsgroups)

\* Times only grow, and a file is never newer than now.
InTime ==
    /\ clock <= MaxClock
    /\ conf.mtime <= clock /\ active.mtime <= clock
    /\ update.level <= NumLevels + 1
    /\ listener.asked <= active.mtime
    /\ laststatserver <= conf.mtime /\ laststatactive <= clock

\* What a run has asked so far: the lists of each level below, joined; a
\* server that has patterns left is that of the level before.
Asked ==
    update.at = "list" =>
        /\ update.level \in Nat \ {0}
        /\ Len(update.lists) = update.level - 1
        /\ update.left # 0 => update.level - 1 \in Levels
        /\ FirstLevelWins

TableInv == Shapes /\ InOrder /\ InTime /\ Asked

LEMMA SortedEmpty == Sorted(<<>>) /\ \A S : <<>> \in Seq(S)
BY DEF Sorted

LEMMA InitTable == Init => TableInv
<1> SUFFICES ASSUME Init PROVE TableInv
  OBVIOUS
<1>1. 1 \in Levels /\ NumLevels \in Nat \ {0} /\ MaxClock \in Nat
  BY ListAssumption DEF Levels
<1>2. PICK list \in Lists[1] : \E groups \in getlist_active(<<>>, list, 1) :
          active = [groups |-> groups, mtime |-> 0]
  BY DEF Init
<1>3. PICK groups \in getlist_active(<<>>, list, 1) :
          active = [groups |-> groups, mtime |-> 0]
  BY <1>2
<1>4. list \in Seq(Groups)
  BY <1>1, <1>2, GroupNumbers
<1>5. groups \in Seq(Entries) /\ Sorted(groups)
  BY <1>1, <1>3, <1>4, SortedEmpty, GetlistFacts
<1>6. /\ clock = 0 /\ conf = [levels |-> Levels, mtime |-> 0]
      /\ update = [at |-> "idle", level |-> 0, left |-> 0, groups |-> <<>>,
                   lists |-> <<>>]
      /\ listener = [at |-> "top", reload |-> FALSE, terminate |-> FALSE,
                     asked |-> 0, newsgroups |-> active.groups]
      /\ servers = Levels /\ numgroups = Len(active.groups)
      /\ laststatserver = 0 /\ laststatactive = 0
  BY DEF Init, Idle
<1>7. active.groups = groups /\ active.mtime = 0
  BY <1>3
<1>8. Shapes
  BY <1>3, <1>5, <1>6, <1>7, SortedEmpty
     DEF Shapes, ListenerPoints, Points, Quiet
<1>9. InOrder
  BY <1>5, <1>6, <1>7 DEF InOrder
<1>10. InTime
  BY <1>1, <1>6, <1>7 DEF InTime
<1>11. Asked
  BY <1>6 DEF Asked
<1> QED BY <1>8, <1>9, <1>10, <1>11 DEF TableInv

\* What a call of update_server leaves of the run.
LEMMA ServerAnswers ==
    ASSUME TableInv, NEW list, UpdateServer(list)
    PROVE  /\ update.at = "list" /\ update.level \in Levels
           /\ list \in Seq(Groups) /\ Patterns[update.level] - 1 \in Nat
           /\ \E groups \in Seq(Entries) :
                  /\ Sorted(groups)
                  /\ \A e : (\E i \in DOMAIN groups : groups[i] = e) <=>
                         \/ \E i \in DOMAIN update.groups : update.groups[i] = e
                         \/ \E m \in DOMAIN list :
                                /\ Unknown(update.groups, list[m])
                                /\ e = Entry(list[m], update.level)
                  /\ update' = [at |-> "list", level |-> update.level + 1,
                                left |-> Patterns[update.level] - 1,
                                groups |-> groups,
                                lists |-> Append(update.lists, list)]
           /\ UNCHANGED <<clock, conf, active, listener, servers, numgroups,
                          laststatserver, laststatactive, newsgroups>>
<1> DEFINE l == update.level
<1>1. /\ update.at = "list" /\ l \in conf.levels /\ list \in Lists[l]
      /\ \E groups \in getlist_active(update.groups, list, l) :
             update' = [update EXCEPT !.level = l + 1, !.left = Patterns[l] - 1,
                                      !.groups = groups,
                                      !.lists = Append(@, list)]
      /\ UNCHANGED <<clock, conf, active, listener, servers, numgroups,
                     laststatserver, laststatactive, newsgroups>>
  BY DEF UpdateServer, files, master
<1>2. l \in Levels /\ update.groups \in Seq(Entries)
  BY <1>1 DEF TableInv, Shapes
<1>3. Sorted(update.groups)
  BY <1>1 DEF TableInv, InOrder
<1>4. list \in Seq(Groups)
  BY <1>1, <1>2, GroupNumbers
<1>5. PICK groups \in getlist_active(update.groups, list, l) :
          update' = [update EXCEPT !.level = l + 1, !.left = Patterns[l] - 1,
                                   !.groups = groups,
                                   !.lists = Append(@, list)]
  BY <1>1
<1>6. update' = [at |-> "list", level |-> l + 1, left |-> Patterns[l] - 1,
                 groups |-> groups, lists |-> Append(update.lists, list)]
  BY <1>1, <1>5 DEF TableInv, Shapes
<1>7. Patterns[l] - 1 \in Nat
  BY <1>2, ListAssumption
<1> HIDE DEF l
<1>8. /\ groups \in Seq(Entries) /\ Sorted(groups)
      /\ AddsListed(groups, update.groups, list, l)
  BY <1>2, <1>3, <1>4, <1>5, GetlistFacts
<1> QED BY <1>1, <1>2, <1>4, <1>6, <1>7, <1>8 DEF l, AddsListed

\* What the list of one more pattern leaves of it.
LEMMA PatternAnswers ==
    ASSUME TableInv, NEW list, NextPattern(list)
    PROVE  /\ update.at = "list" /\ update.level - 1 \in Levels
           /\ update.left - 1 \in Nat /\ list \in Seq(Groups)
           /\ \E groups \in Seq(Entries) :
                  /\ Sorted(groups)
                  /\ \A e : (\E i \in DOMAIN groups : groups[i] = e) <=>
                         \/ \E i \in DOMAIN update.groups : update.groups[i] = e
                         \/ \E m \in DOMAIN list :
                                /\ Unknown(update.groups, list[m])
                                /\ e = Entry(list[m], update.level - 1)
                  /\ update' = [at |-> "list", level |-> update.level,
                                left |-> update.left - 1, groups |-> groups,
                                lists |-> [update.lists EXCEPT
                                               ![update.level - 1] = @ \o list]]
           /\ UNCHANGED <<clock, conf, active, listener, servers, numgroups,
                          laststatserver, laststatactive, newsgroups>>
<1> DEFINE l == update.level - 1
<1>1. /\ update.at = "list" /\ update.left > 0 /\ list \in Lists[l]
      /\ \E groups \in getlist_active(update.groups, list, l) :
             update' = [update EXCEPT !.left = @ - 1, !.groups = groups,
                                      !.lists[l] = @ \o list]
      /\ UNCHANGED <<clock, conf, active, listener, servers, numgroups,
                     laststatserver, laststatactive, newsgroups>>
  BY DEF NextPattern, files, master
<1>2. /\ update.groups \in Seq(Entries) /\ update.left \in Nat
      /\ update = [at |-> update.at, level |-> update.level,
                   left |-> update.left, groups |-> update.groups,
                   lists |-> update.lists]
  BY DEF TableInv, Shapes
<1>3. l \in Levels /\ update.left - 1 \in Nat
  BY <1>1, <1>2 DEF TableInv, Asked
<1>4. Sorted(update.groups)
  BY <1>1 DEF TableInv, InOrder
<1>5. list \in Seq(Groups)
  BY <1>1, <1>3, GroupNumbers
<1>6. PICK groups \in getlist_active(update.groups, list, l) :
          update' = [update EXCEPT !.left = @ - 1, !.groups = groups,
                                   !.lists[l] = @ \o list]
  BY <1>1
<1> HIDE DEF l
<1>7. update' = [at |-> "list", level |-> update.level, left |-> update.left - 1,
                 groups |-> groups,
                 lists |-> [update.lists EXCEPT ![l] = @ \o list]]
  BY <1>1, <1>2, <1>6
<1>8. /\ groups \in Seq(Entries) /\ Sorted(groups)
      /\ AddsListed(groups, update.groups, list, l)
  BY <1>2, <1>3, <1>4, <1>5, <1>6, GetlistFacts
<1> QED BY <1>1, <1>3, <1>5, <1>7, <1>8 DEF l, AddsListed

\* One more pattern adds to the lists of its level.
LEMMA LongerLists ==
    ASSUME NEW lists \in Seq(Seq(Groups)), NEW list \in Seq(Groups),
           NEW l \in 1 .. Len(lists)
    PROVE  /\ [lists EXCEPT ![l] = @ \o list] \in Seq(Seq(Groups))
           /\ Len([lists EXCEPT ![l] = @ \o list]) = Len(lists)
<1>1. lists[l] \o list \in Seq(Groups)
  OBVIOUS
<1> QED BY <1>1

\* What write_active starts to write: what the run has collected, in order.
LEMMA WriteStarts ==
    ASSUME TableInv, write_active
    PROVE  /\ update.at = "list"
           /\ active' = [groups |-> <<>>, mtime |-> clock]
           /\ \E groups \in Seq(Entries) :
                  /\ Sorted(groups)
                  /\ update' = [update EXCEPT !.at = "write", !.groups = groups]
           /\ UNCHANGED <<clock, conf, listener, servers, numgroups,
                          laststatserver, laststatactive, newsgroups>>
<1>1. /\ update.at = "list"
      /\ active' = [groups |-> <<>>, mtime |-> clock]
      /\ \E groups \in qsort(update.groups) :
             update' = [update EXCEPT !.at = "write", !.groups = groups]
      /\ UNCHANGED <<clock, conf, listener, servers, numgroups,
                     laststatserver, laststatactive, newsgroups>>
  BY DEF write_active, master
<1>2. update.groups \in Seq(Entries)
  BY DEF TableInv, Shapes
<1>3. PICK groups \in qsort(update.groups) :
          update' = [update EXCEPT !.at = "write", !.groups = groups]
  BY <1>1
<1>4. groups \in Seq(Entries) /\ Sorted(groups)
  BY <1>2, <1>3, QsortFacts
<1> QED BY <1>1, <1>3, <1>4

LEMMA NextShapes ==
    ASSUME TableInv, [Next]_vars
    PROVE  Shapes'
<1> USE DEF Shapes, ListenerPoints, Points, Quiet, files, master
<1>1. Shapes
  BY DEF TableInv
<1>2. CASE StartUpdate
  BY <1>1, <1>2, SortedEmpty DEF StartUpdate, Idle
<1>3. ASSUME NEW list, UpdateServer(list)
      PROVE  Shapes'
  <2>1. update.level \in Nat /\ update.lists \in Seq(Seq(Groups))
    BY <1>1
  <2>2. update.level + 1 \in Nat /\ Append(update.lists, list) \in Seq(Seq(Groups))
    <3>1. list \in Seq(Groups)
      BY <1>3, ServerAnswers
    <3> QED BY <2>1, <3>1
  <2>5. Patterns[update.level] - 1 \in Nat
    BY <1>3, ServerAnswers
  <2>3. PICK groups \in Seq(Entries) :
            update' = [at |-> "list", level |-> update.level + 1,
                       left |-> Patterns[update.level] - 1, groups |-> groups,
                       lists |-> Append(update.lists, list)]
    BY <1>3, ServerAnswers
  <2>4. UNCHANGED <<clock, conf, active, listener, servers, numgroups,
                    laststatserver, laststatactive>>
    BY <1>3, ServerAnswers
  <2> QED BY <1>1, <2>2, <2>3, <2>4, <2>5
<1>4. CASE SkipLevel
  <2>1. <<>> \in Seq(Groups)
    BY SortedEmpty
  <2>2. /\ update.level + 1 \in Nat
        /\ Append(update.lists, <<>>) \in Seq(Seq(Groups))
    BY <1>1, <2>1
  <2> QED BY <1>1, <1>4, <2>2 DEF SkipLevel
<1>5. CASE UpdateDies
  BY <1>1, <1>5, SortedEmpty DEF UpdateDies, Idle
<1>6. CASE write_active
  <2>1. PICK groups \in Seq(Entries) :
            update' = [update EXCEPT !.at = "write", !.groups = groups]
    BY <1>6, WriteStarts
  <2>2. /\ active' = [groups |-> <<>>, mtime |-> clock]
        /\ UNCHANGED <<clock, conf, listener, servers, numgroups,
                       laststatserver, laststatactive>>
    BY <1>6, WriteStarts
  <2> QED BY <1>1, <2>1, <2>2, SortedEmpty
<1>7. CASE WriteLine
  <2>1. update.groups \in Seq(Entries) /\ update.groups # <<>>
    BY <1>1, <1>7 DEF WriteLine
  <2>2. /\ Tail(update.groups) \in Seq(Entries)
        /\ Append(active.groups, Head(update.groups)) \in Seq(Entries)
    BY <1>1, <2>1
  <2> QED BY <1>1, <1>7, <2>2 DEF WriteLine
<1>8. CASE CloseActive
  BY <1>1, <1>8, SortedEmpty DEF CloseActive, Idle
<1>9. CASE TestReload
  BY <1>1, <1>9 DEF TestReload, Goto
<1>10. CASE reload_servers
  BY <1>1, <1>10 DEF reload_servers, Goto
<1>11. CASE reloadactive
  <2>1. <<>> \in Seq(Entries)
    BY SortedEmpty
  <2>2. listener' = [listener EXCEPT !.at = "load", !.newsgroups = <<>>]
        \/ listener' = [listener EXCEPT !.at = "rest"]
    BY <1>11 DEF reloadactive, Goto
  <2>3. listener' \in [at : ListenerPoints, reload : BOOLEAN,
                       terminate : BOOLEAN, asked : Nat,
                       newsgroups : Seq(Entries)]
    BY <1>1, <2>1, <2>2
  <2> QED BY <1>1, <1>11, <2>3 DEF reloadactive
<1>12. CASE loadactive
  <2>1. active.groups \in Seq(Entries) /\ Len(active.groups) \in Nat
    BY <1>1
  <2>2. listener' = [listener EXCEPT !.at = "stat", !.newsgroups = active.groups]
        \/ listener' = [listener EXCEPT !.at = "dead"]
    BY <1>12 DEF loadactive, Goto
  <2>3. listener' \in [at : ListenerPoints, reload : BOOLEAN,
                       terminate : BOOLEAN, asked : Nat,
                       newsgroups : Seq(Entries)]
    BY <1>1, <2>1, <2>2
  <2> QED BY <1>1, <1>12, <2>1, <2>3 DEF loadactive
<1>13. CASE StatActive
  BY <1>1, <1>13 DEF StatActive, Goto
<1>14. CASE ReloadRest
  BY <1>1, <1>14 DEF ReloadRest, Goto
<1>15. CASE ReloadDone
  BY <1>1, <1>15 DEF ReloadDone
<1>16. CASE daemon_terminate
  BY <1>1, <1>16 DEF daemon_terminate, Goto
<1>17. CASE hup_handler
  BY <1>1, <1>17 DEF hup_handler, Awoken
<1>18. CASE term_handler
  BY <1>1, <1>18 DEF term_handler, Awoken
<1>19. CASE Tick
  BY <1>1, <1>19 DEF Tick
<1>20. ASSUME NEW s \in Sessions, daemon_accept(s)
       PROVE  Shapes'
  BY <1>1, <1>20 DEF daemon_accept, Goto
<1>21. ASSUME NEW s \in Sessions, chld_handler(s)
       PROVE  Shapes'
  BY <1>1, <1>21 DEF chld_handler, Goto, Awoken
<1>22. ASSUME NEW levels \in SUBSET Levels, EditServers(levels)
       PROVE  Shapes'
  BY <1>1, <1>22 DEF EditServers
<1>23. CASE UNCHANGED vars
  BY <1>1, <1>23 DEF vars
<1>24. ASSUME NEW list, NextPattern(list)
       PROVE  Shapes'
  <2>1. PICK groups \in Seq(Entries) :
            /\ Sorted(groups)
            /\ update' = [at |-> "list", level |-> update.level,
                          left |-> update.left - 1, groups |-> groups,
                          lists |-> [update.lists EXCEPT
                                         ![update.level - 1] = @ \o list]]
    BY <1>24, PatternAnswers
  <2>2. /\ update.level - 1 \in Levels /\ update.left - 1 \in Nat
        /\ list \in Seq(Groups) /\ update.at = "list"
        /\ UNCHANGED <<clock, conf, active, listener, servers, numgroups,
                       laststatserver, laststatactive>>
    BY <1>24, PatternAnswers
  <2>3. update.level - 1 \in 1 .. Len(update.lists)
    BY <1>1, <2>2 DEF TableInv, Asked, Levels
  <2>4. [update.lists EXCEPT ![update.level - 1] = @ \o list] \in Seq(Seq(Groups))
    BY <1>1, <2>2, <2>3, LongerLists
  <2> QED BY <1>1, <2>1, <2>2, <2>4
<1> QED BY <1>2, <1>3, <1>4, <1>5, <1>6, <1>7, <1>8, <1>9, <1>10, <1>11,
           <1>12, <1>13, <1>14, <1>15, <1>16, <1>17, <1>18, <1>19, <1>20,
           <1>21, <1>22, <1>23, <1>24
        DEF Next, Loop, updategroups
LEMMA NextInTime ==
    ASSUME TableInv, [Next]_vars
    PROVE  InTime'
<1> USE DEF InTime, files, master
<1>1. InTime /\ Shapes
  BY DEF TableInv
<1>2. /\ clock \in Nat /\ conf.mtime \in Nat /\ active.mtime \in Nat
      /\ update.level \in Nat /\ listener.asked \in Nat
      /\ laststatserver \in Nat /\ laststatactive \in Nat
      /\ NumLevels \in Nat /\ NumLevels # 0 /\ MaxClock \in Nat
  BY <1>1, ListAssumption DEF Shapes
<1>3. /\ update = [at |-> update.at, level |-> update.level,
                   left |-> update.left, groups |-> update.groups,
                   lists |-> update.lists]
      /\ listener = [at |-> listener.at, reload |-> listener.reload,
                     terminate |-> listener.terminate, asked |-> listener.asked,
                     newsgroups |-> listener.newsgroups]
  BY <1>1 DEF Shapes
<1>4. CASE StartUpdate
  BY <1>1, <1>2, <1>3, <1>4 DEF StartUpdate, Idle
<1>5. ASSUME NEW list, UpdateServer(list)
      PROVE  InTime'
  <2>1. PICK groups \in Seq(Entries) :
            update' = [at |-> "list", level |-> update.level + 1,
                       left |-> Patterns[update.level] - 1, groups |-> groups,
                       lists |-> Append(update.lists, list)]
    BY <1>5, ServerAnswers
  <2>2. UNCHANGED <<clock, conf, active, listener, laststatserver,
                    laststatactive>>
    BY <1>5, ServerAnswers
  <2>3. update.level \in Levels
    BY <1>5, ServerAnswers
  <2>4. update'.level = update.level + 1
    BY <1>3, <2>1
  <2>5. update.level + 1 <= NumLevels + 1
    BY <1>2, <2>3 DEF Levels
  <2> QED BY <1>1, <2>2, <2>4, <2>5
<1>6. CASE SkipLevel
  <2>1. update.level \in Levels /\ update'.level = update.level + 1
    BY <1>3, <1>6 DEF SkipLevel
  <2> QED BY <1>1, <1>2, <1>6, <2>1 DEF SkipLevel, Levels
<1>7. CASE UpdateDies
  BY <1>1, <1>2, <1>7 DEF UpdateDies, Idle
<1>8. CASE write_active
  <2>1. update'.level = update.level
    BY <1>3, <1>8, WriteStarts
  <2>2. active'.mtime = clock
    <3>1. active' = [groups |-> <<>>, mtime |-> clock]
      BY <1>8, WriteStarts
    <3> QED BY <3>1
  <2>3. UNCHANGED <<clock, conf, listener, laststatserver, laststatactive>>
    BY <1>8, WriteStarts
  <2> QED BY <1>1, <1>2, <2>1, <2>2, <2>3
<1>9. CASE WriteLine
  BY <1>1, <1>2, <1>3, <1>9 DEF WriteLine
<1>10. CASE CloseActive
  BY <1>1, <1>2, <1>10 DEF CloseActive, Idle
<1>11. CASE TestReload
  BY <1>1, <1>2, <1>3, <1>11 DEF TestReload, Goto
<1>12. CASE reload_servers
  BY <1>1, <1>2, <1>3, <1>12 DEF reload_servers, Goto
<1>13. CASE reloadactive
  BY <1>1, <1>2, <1>3, <1>13 DEF reloadactive, Goto
<1>14. CASE loadactive
  BY <1>1, <1>2, <1>3, <1>14 DEF loadactive, Goto
<1>15. CASE StatActive
  BY <1>1, <1>2, <1>3, <1>15 DEF StatActive, Goto
<1>16. CASE ReloadRest
  BY <1>1, <1>2, <1>3, <1>16 DEF ReloadRest, Goto
<1>17. CASE ReloadDone
  BY <1>1, <1>2, <1>3, <1>17 DEF ReloadDone
<1>18. CASE daemon_terminate
  BY <1>1, <1>2, <1>3, <1>18 DEF daemon_terminate, Goto
<1>19. CASE hup_handler
  BY <1>1, <1>2, <1>3, <1>19 DEF hup_handler
<1>20. CASE term_handler
  BY <1>1, <1>2, <1>3, <1>20 DEF term_handler
<1>21. CASE Tick
  BY <1>1, <1>2, <1>3, <1>21 DEF Tick
<1>22. ASSUME NEW s \in Sessions, daemon_accept(s)
       PROVE  InTime'
  BY <1>1, <1>2, <1>3, <1>22 DEF daemon_accept, Goto
<1>23. ASSUME NEW s \in Sessions, chld_handler(s)
       PROVE  InTime'
  BY <1>1, <1>2, <1>3, <1>23 DEF chld_handler, Goto
<1>24. ASSUME NEW levels \in SUBSET Levels, EditServers(levels)
       PROVE  InTime'
  BY <1>1, <1>2, <1>24 DEF EditServers
<1>25. CASE UNCHANGED vars
  BY <1>1, <1>25 DEF vars
<1>26. ASSUME NEW list, NextPattern(list)
       PROVE  InTime'
  <2>1. PICK groups \in Seq(Entries) :
            /\ Sorted(groups)
            /\ update' = [at |-> "list", level |-> update.level,
                          left |-> update.left - 1, groups |-> groups,
                          lists |-> [update.lists EXCEPT
                                         ![update.level - 1] = @ \o list]]
    BY <1>26, PatternAnswers
  <2>2. UNCHANGED <<clock, conf, active, listener, laststatserver,
                    laststatactive>>
    BY <1>26, PatternAnswers
  <2>3. update'.level = update.level
    BY <2>1
  <2> QED BY <1>1, <2>2, <2>3
<1> QED BY <1>4, <1>5, <1>6, <1>7, <1>8, <1>9, <1>10, <1>11, <1>12, <1>13,
           <1>14, <1>15, <1>16, <1>17, <1>18, <1>19, <1>20, <1>21, <1>22,
           <1>23, <1>24, <1>25, <1>26
        DEF Next, Loop, updategroups

LEMMA NextInOrder ==
    ASSUME TableInv, [Next]_vars
    PROVE  InOrder'
<1> USE DEF files, master
<1>1. InOrder /\ Shapes
  BY DEF TableInv
<1>2. /\ update = [at |-> update.at, level |-> update.level,
                   left |-> update.left, groups |-> update.groups,
                   lists |-> update.lists]
      /\ listener = [at |-> listener.at, reload |-> listener.reload,
                     terminate |-> listener.terminate, asked |-> listener.asked,
                     newsgroups |-> listener.newsgroups]
      /\ active.groups \in Seq(Entries) /\ update.groups \in Seq(Entries)
  BY <1>1 DEF Shapes
<1>3. CASE StartUpdate
  <2>1. update'.at = "list" /\ update'.groups = <<>>
    BY <1>3 DEF StartUpdate, Idle
  <2> QED BY <1>1, <1>3, <2>1, SortedEmpty DEF InOrder, StartUpdate
<1>4. ASSUME NEW list, UpdateServer(list)
      PROVE  InOrder'
  <2>1. PICK groups \in Seq(Entries) :
            /\ Sorted(groups)
            /\ update' = [at |-> "list", level |-> update.level + 1,
                          left |-> Patterns[update.level] - 1,
                          groups |-> groups,
                          lists |-> Append(update.lists, list)]
    BY <1>4, ServerAnswers
  <2>2. update.at = "list" /\ UNCHANGED <<active, listener, numgroups>>
    BY <1>4, ServerAnswers
  <2>3. update'.at = "list" /\ update'.groups = groups
    BY <1>2, <2>1, <2>2
  <2> QED BY <1>1, <2>1, <2>2, <2>3 DEF InOrder
<1>5. CASE SkipLevel
  <2>1. update'.at = "list" /\ update'.groups = update.groups
    BY <1>2, <1>5 DEF SkipLevel
  <2> QED BY <1>1, <1>5, <2>1 DEF InOrder, SkipLevel
<1>6. CASE UpdateDies
  BY <1>1, <1>6 DEF InOrder, UpdateDies, Idle
<1>7. CASE write_active
  <2>1. PICK groups \in Seq(Entries) :
            /\ Sorted(groups)
            /\ update' = [update EXCEPT !.at = "write", !.groups = groups]
    BY <1>7, WriteStarts
  <2>2. /\ active' = [groups |-> <<>>, mtime |-> clock]
        /\ UNCHANGED <<listener, numgroups>>
    BY <1>7, WriteStarts
  <2>3. /\ update'.at = "write" /\ update'.groups = groups
        /\ active'.groups = <<>> /\ DOMAIN active'.groups = {}
    BY <1>2, <2>1, <2>2
  <2> QED BY <1>1, <2>1, <2>2, <2>3, SortedEmpty DEF InOrder
<1>8. CASE WriteLine
  <2> DEFINE a == active.groups
             u == update.groups
             b == Append(a, Head(u))
             v == Tail(u)
  <2>1. /\ update.at = "write" /\ u # <<>> /\ active'.groups = b
        /\ update'.at = "write" /\ update'.groups = v
        /\ UNCHANGED <<listener, numgroups>>
    BY <1>2, <1>8 DEF WriteLine
  <2>2. /\ Sorted(a) /\ Sorted(u)
        /\ \A i \in DOMAIN a : \A j \in DOMAIN u :
               a[i].newsgroup <= u[j].newsgroup
    BY <1>1, <2>1 DEF InOrder
  <2>3. a \in Seq(Entries) /\ u \in Seq(Entries)
    BY <1>2
  <2> HIDE DEF a, u
  <2>4. /\ Len(a) \in Nat /\ Len(u) \in Nat /\ Len(u) # 0
        /\ DOMAIN a = 1 .. Len(a) /\ DOMAIN u = 1 .. Len(u)
        /\ DOMAIN b = 1 .. Len(a) + 1 /\ DOMAIN v = 1 .. Len(u) - 1
        /\ \A i \in 1 .. Len(a) : b[i] = a[i]
        /\ b[Len(a) + 1] = u[1]
        /\ \A j \in 1 .. Len(u) - 1 : v[j] = u[j + 1]
    BY <2>1, <2>3
  <2> HIDE DEF b, v
  <2>5. Sorted(b)
    <3> SUFFICES ASSUME NEW i \in DOMAIN b, NEW j \in DOMAIN b, i < j
                 PROVE  b[i].newsgroup <= b[j].newsgroup
      BY DEF Sorted, cmp_active
    <3>1. i \in 1 .. Len(a) /\ (j \in 1 .. Len(a) \/ j = Len(a) + 1)
      BY <2>4
    <3>2. 1 \in DOMAIN u
      BY <2>4
    <3> QED BY <2>2, <2>4, <3>1, <3>2 DEF Sorted, cmp_active
  <2>6. Sorted(v)
    <3> SUFFICES ASSUME NEW i \in DOMAIN v, NEW j \in DOMAIN v, i < j
                 PROVE  v[i].newsgroup <= v[j].newsgroup
      BY DEF Sorted, cmp_active
    <3>1. i + 1 \in DOMAIN u /\ j + 1 \in DOMAIN u /\ i + 1 < j + 1
      BY <2>4
    <3> QED BY <2>2, <2>4, <3>1 DEF Sorted, cmp_active
  <2>7. ASSUME NEW i \in DOMAIN b, NEW j \in DOMAIN v
        PROVE  b[i].newsgroup <= v[j].newsgroup
    <3>1. 1 \in DOMAIN u /\ j + 1 \in DOMAIN u /\ 1 < j + 1 /\ v[j] = u[j + 1]
      BY <2>4
    <3>2. CASE i \in 1 .. Len(a)
      BY <2>2, <2>4, <3>1, <3>2
    <3>3. CASE i = Len(a) + 1
      BY <2>2, <2>4, <3>1, <3>3 DEF Sorted, cmp_active
    <3> QED BY <2>4, <3>2, <3>3
  <2> QED BY <1>1, <2>1, <2>5, <2>6, <2>7 DEF InOrder
<1>9. CASE CloseActive
  BY <1>1, <1>9 DEF InOrder, CloseActive, Idle
<1>10. CASE reloadactive
  <2>1. \/ /\ listener'.newsgroups = <<>> /\ numgroups' = 0
        \/ /\ listener'.newsgroups = listener.newsgroups
           /\ numgroups' = numgroups
    BY <1>2, <1>10 DEF reloadactive, Goto
  <2>2. Len(<<>>) = 0
    OBVIOUS
  <2> QED BY <1>1, <1>10, <2>1, <2>2, SortedEmpty DEF InOrder, reloadactive
<1>11. CASE loadactive
  <2>1. \/ /\ listener'.newsgroups = active.groups
           /\ numgroups' = Len(active.groups)
        \/ /\ listener'.newsgroups = listener.newsgroups
           /\ numgroups' = numgroups
    BY <1>2, <1>11 DEF loadactive, Goto
  <2> QED BY <1>1, <1>11, <2>1 DEF InOrder, loadactive
<1>12. ASSUME UNCHANGED <<active, update, numgroups>>,
              listener'.newsgroups = listener.newsgroups
       PROVE  InOrder'
  BY <1>1, <1>12 DEF InOrder
<1>13. CASE TestReload
  BY <1>2, <1>12, <1>13 DEF TestReload, Goto
<1>14. CASE reload_servers
  BY <1>2, <1>12, <1>14 DEF reload_servers, Goto
<1>15. CASE StatActive
  BY <1>2, <1>12, <1>15 DEF StatActive, Goto
<1>16. CASE ReloadRest
  BY <1>2, <1>12, <1>16 DEF ReloadRest, Goto
<1>17. CASE ReloadDone
  BY <1>2, <1>12, <1>17 DEF ReloadDone
<1>18. CASE daemon_terminate
  BY <1>2, <1>12, <1>18 DEF daemon_terminate, Goto
<1>19. CASE hup_handler
  BY <1>2, <1>12, <1>19 DEF hup_handler
<1>20. CASE term_handler
  BY <1>2, <1>12, <1>20 DEF term_handler
<1>21. CASE Tick
  BY <1>2, <1>12, <1>21 DEF Tick
<1>22. ASSUME NEW s \in Sessions, daemon_accept(s)
       PROVE  InOrder'
  BY <1>2, <1>12, <1>22 DEF daemon_accept, Goto
<1>23. ASSUME NEW s \in Sessions, chld_handler(s)
       PROVE  InOrder'
  BY <1>2, <1>12, <1>23 DEF chld_handler, Goto
<1>24. ASSUME NEW levels \in SUBSET Levels, EditServers(levels)
       PROVE  InOrder'
  BY <1>12, <1>24 DEF EditServers
<1>25. CASE UNCHANGED vars
  BY <1>12, <1>25 DEF vars
<1>26. ASSUME NEW list, NextPattern(list)
       PROVE  InOrder'
  <2>1. PICK groups \in Seq(Entries) :
            /\ Sorted(groups)
            /\ update' = [at |-> "list", level |-> update.level,
                          left |-> update.left - 1, groups |-> groups,
                          lists |-> [update.lists EXCEPT
                                         ![update.level - 1] = @ \o list]]
    BY <1>26, PatternAnswers
  <2>2. update.at = "list" /\ UNCHANGED <<active, listener, numgroups>>
    BY <1>26, PatternAnswers
  <2>3. update'.at = "list" /\ update'.groups = groups
    BY <2>1
  <2> QED BY <1>1, <2>1, <2>2, <2>3 DEF InOrder
<1> QED BY <1>3, <1>4, <1>5, <1>6, <1>7, <1>8, <1>9, <1>10, <1>11, <1>13,
           <1>14, <1>15, <1>16, <1>17, <1>18, <1>19, <1>20, <1>21, <1>22,
           <1>23, <1>24, <1>25, <1>26
        DEF Next, Loop, updategroups
\* Lists has a group that no list before it has.
First(lists, g, l) ==
    /\ l \in DOMAIN lists /\ g \in Range(lists[l])
    /\ \A m \in 1 .. l - 1 : g \notin Range(lists[m])

Collected(groups, lists) ==
    \A g \in Groups : \A l \in Levels :
        Entry(g, l) \in Range(groups) <=> First(lists, g, l)

\* A group is known as soon as some list has it.
LEMMA KnownGroups ==
    ASSUME NEW groups \in Seq(Entries), NEW lists \in Seq(Seq(Groups)),
           Len(lists) <= NumLevels, Collected(groups, lists), NEW g \in Groups
    PROVE  Unknown(groups, g) <=> \A m \in DOMAIN lists : g \notin Range(lists[m])
<1> DEFINE T == {m \in DOMAIN lists : g \in Range(lists[m])}
<1>1. /\ DOMAIN lists = 1 .. Len(lists) /\ Len(lists) \in Nat
      /\ NumLevels \in Nat
  BY ListAssumption
<1>2. ASSUME T # {}
      PROVE  ~ Unknown(groups, g)
  <2>1. PICK l \in T : \A m \in T : l <= m
    <3>1. T \in SUBSET Nat
      BY <1>1
    <3> HIDE DEF T
    <3> QED BY <1>2, <3>1, LeastNumber
  <2>2. l \in Levels /\ l \in DOMAIN lists /\ l \in Nat
    BY <1>1 DEF Levels
  <2>3. ASSUME NEW m \in 1 .. l - 1
        PROVE  g \notin Range(lists[m])
    <3>1. m \in DOMAIN lists /\ ~ l <= m
      BY <1>1, <2>2
    <3> QED BY <2>1, <3>1
  <2>4. Entry(g, l) \in Range(groups)
    BY <2>1, <2>2, <2>3 DEF Collected, First
  <2>5. PICK i \in DOMAIN groups : groups[i] = Entry(g, l)
    BY <2>4 DEF Range
  <2> QED BY <2>5 DEF Unknown, Entry
<1>3. ASSUME NEW i \in DOMAIN groups, groups[i].newsgroup = g
      PROVE  T # {}
  <2> DEFINE l == groups[i].server
  <2>1. groups[i] \in Entries
    OBVIOUS
  <2>2. l \in Levels /\ groups[i] = Entry(g, l)
    BY <1>3, <2>1 DEF Entries, Entry
  <2>3. Entry(g, l) \in Range(groups)
    BY <2>2 DEF Range
  <2> HIDE DEF l
  <2>4. First(lists, g, l)
    BY <2>2, <2>3 DEF Collected
  <2> QED BY <2>4 DEF First
<1> QED BY <1>2, <1>3 DEF Unknown

\* What one more list adds: its groups that none before it has, as groups of
\* its own level.
LEMMA OneMoreList ==
    ASSUME NEW groups \in Seq(Entries), NEW lists \in Seq(Seq(Groups)),
           NEW list \in Seq(Groups), NEW new \in Seq(Entries),
           NEW l \in Levels, Len(lists) = l - 1, Collected(groups, lists),
           \A e : (\E i \in DOMAIN new : new[i] = e) <=>
                      \/ \E i \in DOMAIN groups : groups[i] = e
                      \/ \E m \in DOMAIN list : /\ Unknown(groups, list[m])
                                                /\ e = Entry(list[m], l)
    PROVE  Collected(new, Append(lists, list))
<1> DEFINE longer == Append(lists, list)
<1>1. /\ l \in Nat /\ l # 0 /\ NumLevels \in Nat /\ l <= NumLevels
      /\ DOMAIN lists = 1 .. l - 1 /\ DOMAIN longer = 1 .. l
      /\ \A m \in 1 .. l - 1 : longer[m] = lists[m]
      /\ longer[l] = list
      /\ Levels = 1 .. NumLevels
  BY ListAssumption DEF Levels
<1> HIDE DEF longer
<1> SUFFICES ASSUME NEW g \in Groups, NEW k \in Levels
             PROVE  Entry(g, k) \in Range(new) <=> First(longer, g, k)
  BY DEF Collected, longer
<1>2. Entry(g, k) \in Range(new) <=>
          \/ Entry(g, k) \in Range(groups)
          \/ \E m \in DOMAIN list : /\ Unknown(groups, list[m])
                                    /\ Entry(g, k) = Entry(list[m], l)
  BY DEF Range
<1>3. Entry(g, k) \in Range(groups) <=> First(lists, g, k)
  BY DEF Collected
<1>4. ASSUME NEW m, Entry(g, k) = Entry(list[m], l)
      PROVE  g = list[m] /\ k = l
  BY <1>4 DEF Entry
<1>5. CASE k < l
  <2>1. First(longer, g, k) <=> First(lists, g, k)
    <3>1. k \in DOMAIN lists /\ k \in DOMAIN longer /\ longer[k] = lists[k]
      BY <1>1, <1>5
    <3>2. \A m \in 1 .. k - 1 : longer[m] = lists[m]
      BY <1>1, <1>5
    <3> QED BY <3>1, <3>2 DEF First
  <2>2. k # l
    BY <1>1, <1>5
  <2> QED BY <1>2, <1>3, <1>4, <2>1, <2>2
<1>6. CASE k > l
  <2>1. k \notin DOMAIN lists /\ k \notin DOMAIN longer /\ k # l
    BY <1>1, <1>6
  <2> QED BY <1>2, <1>3, <1>4, <2>1 DEF First
<1>7. CASE k = l
  <2>1. ~ First(lists, g, k)
    BY <1>1, <1>7 DEF First
  <2>2. Unknown(groups, g) <=> \A m \in 1 .. l - 1 : g \notin Range(lists[m])
    <3>1. Len(lists) <= NumLevels
      BY <1>1
    <3> QED BY <1>1, <3>1, KnownGroups
  <2>3. First(longer, g, l) <=> g \in Range(list) /\ Unknown(groups, g)
    BY <1>1, <2>2 DEF First
  <2>4. Entry(g, k) \in Range(new) <=>
            \E m \in DOMAIN list : Unknown(groups, list[m]) /\ g = list[m]
    BY <1>2, <1>3, <1>4, <1>7, <2>1
  <2> QED BY <1>7, <2>3, <2>4 DEF Range
<1> QED BY <1>1, <1>5, <1>6, <1>7

\* What one more pattern adds: its groups that are not known yet, as groups of
\* its level.
LEMMA OneMorePattern ==
    ASSUME NEW groups \in Seq(Entries), NEW lists \in Seq(Seq(Groups)),
           NEW list \in Seq(Groups), NEW new \in Seq(Entries),
           NEW l \in Levels, Len(lists) = l, Collected(groups, lists),
           \A e : (\E i \in DOMAIN new : new[i] = e) <=>
                      \/ \E i \in DOMAIN groups : groups[i] = e
                      \/ \E m \in DOMAIN list : /\ Unknown(groups, list[m])
                                                /\ e = Entry(list[m], l)
    PROVE  Collected(new, [lists EXCEPT ![l] = @ \o list])
<1> DEFINE longer == [lists EXCEPT ![l] = @ \o list]
<1>1. /\ l \in Nat /\ l # 0 /\ NumLevels \in Nat /\ l <= NumLevels
      /\ DOMAIN lists = 1 .. l /\ DOMAIN longer = 1 .. l
      /\ \A m \in 1 .. l - 1 : longer[m] = lists[m]
      /\ longer[l] = lists[l] \o list /\ lists[l] \in Seq(Groups)
      /\ Levels = 1 .. NumLevels
  <2>1. /\ l \in Nat /\ l # 0 /\ NumLevels \in Nat /\ l <= NumLevels
        /\ Levels = 1 .. NumLevels
    BY ListAssumption DEF Levels
  <2>2. DOMAIN lists = 1 .. l /\ l \in 1 .. l
    BY <2>1
  <2>3. lists[l] \in Seq(Groups)
    BY <2>2
  <2>4. /\ DOMAIN longer = DOMAIN lists
        /\ longer[l] = lists[l] \o list
        /\ \A m \in DOMAIN lists : m # l => longer[m] = lists[m]
    BY <2>2, Zenon
  <2>5. \A m \in 1 .. l - 1 : m \in 1 .. l /\ m # l
    BY <2>1
  <2> HIDE DEF longer
  <2>6. \A m \in 1 .. l - 1 : longer[m] = lists[m]
    BY <2>2, <2>4, <2>5
  <2> QED BY <2>1, <2>2, <2>3, <2>4, <2>6
<1>2. Range(longer[l]) = Range(lists[l]) \cup Range(list)
  <2> DEFINE a == lists[l]
  <2>1. a \in Seq(Groups) /\ longer[l] = a \o list
    BY <1>1
  <2> HIDE DEF a
  <2>2. ASSUME NEW i \in DOMAIN a
        PROVE  i \in DOMAIN (a \o list) /\ (a \o list)[i] = a[i]
    BY <2>1, <2>2
  <2>3. ASSUME NEW i \in DOMAIN list
        PROVE  /\ Len(a) + i \in DOMAIN (a \o list)
               /\ (a \o list)[Len(a) + i] = list[i]
    BY <2>1, <2>3
  <2>4. ASSUME NEW i \in DOMAIN (a \o list)
        PROVE  \/ i \in DOMAIN a /\ (a \o list)[i] = a[i]
               \/ i - Len(a) \in DOMAIN list /\ (a \o list)[i] = list[i - Len(a)]
    BY <2>1, <2>4
  <2> DEFINE b == a \o list
  <2> HIDE DEF b
  <2>5. ASSUME NEW e \in Range(b)
        PROVE  e \in Range(a) \cup Range(list)
    <3>1. PICK i \in DOMAIN b : b[i] = e
      BY DEF Range
    <3>2. CASE i \in DOMAIN a /\ b[i] = a[i]
      BY <3>1, <3>2 DEF Range
    <3>3. CASE i - Len(a) \in DOMAIN list /\ b[i] = list[i - Len(a)]
      BY <3>1, <3>3 DEF Range
    <3> QED BY <2>4, <3>1, <3>2, <3>3 DEF b
  <2>6. ASSUME NEW e \in Range(a) \cup Range(list)
        PROVE  e \in Range(b)
    <3>1. CASE e \in Range(a)
      BY <2>2, <3>1 DEF Range, b
    <3>2. CASE e \in Range(list)
      BY <2>3, <3>2 DEF Range, b
    <3> QED BY <3>1, <3>2
  <2> QED BY <2>1, <2>5, <2>6 DEF a, b
<1> HIDE DEF longer
<1> SUFFICES ASSUME NEW g \in Groups, NEW k \in Levels
             PROVE  Entry(g, k) \in Range(new) <=> First(longer, g, k)
  BY DEF Collected, longer
<1>3. Entry(g, k) \in Range(new) <=>
          \/ Entry(g, k) \in Range(groups)
          \/ \E m \in DOMAIN list : /\ Unknown(groups, list[m])
                                    /\ Entry(g, k) = Entry(list[m], l)
  BY DEF Range
<1>4. Entry(g, k) \in Range(groups) <=> First(lists, g, k)
  BY DEF Collected
<1>5. ASSUME NEW m, Entry(g, k) = Entry(list[m], l)
      PROVE  g = list[m] /\ k = l
  BY <1>5 DEF Entry
<1>6. CASE k < l
  <2>1. First(longer, g, k) <=> First(lists, g, k)
    <3>1. k \in DOMAIN lists /\ k \in DOMAIN longer /\ longer[k] = lists[k]
      BY <1>1, <1>6
    <3>2. \A m \in 1 .. k - 1 : longer[m] = lists[m]
      BY <1>1, <1>6
    <3> QED BY <3>1, <3>2 DEF First
  <2>2. k # l
    BY <1>1, <1>6
  <2> QED BY <1>3, <1>4, <1>5, <2>1, <2>2
<1>7. CASE k > l
  <2>1. k \notin DOMAIN lists /\ k \notin DOMAIN longer /\ k # l
    BY <1>1, <1>7
  <2> QED BY <1>3, <1>4, <1>5, <2>1 DEF First
<1>8. CASE k = l
  <2>1. Unknown(groups, g) <=> \A m \in 1 .. l : g \notin Range(lists[m])
    <3>1. Len(lists) <= NumLevels
      BY <1>1
    <3> QED BY <1>1, <3>1, KnownGroups
  <2>2. First(lists, g, l) <=>
            g \in Range(lists[l]) /\ \A m \in 1 .. l - 1 : g \notin Range(lists[m])
    BY <1>1 DEF First
  <2>3. First(longer, g, l) <=>
            /\ g \in Range(lists[l]) \/ g \in Range(list)
            /\ \A m \in 1 .. l - 1 : g \notin Range(lists[m])
    BY <1>1, <1>2 DEF First
  <2>4. Unknown(groups, g) <=> /\ g \notin Range(lists[l])
                              /\ \A m \in 1 .. l - 1 : g \notin Range(lists[m])
    BY <1>1, <2>1
  <2>5. (\E m \in DOMAIN list : /\ Unknown(groups, list[m])
                                /\ Entry(g, k) = Entry(list[m], l))
            <=> g \in Range(list) /\ Unknown(groups, g)
    BY <1>5, <1>8 DEF Range
  <2> QED BY <1>3, <1>4, <1>8, <2>2, <2>3, <2>4, <2>5
<1> QED BY <1>1, <1>6, <1>7, <1>8

LEMMA FirstCollected ==
    FirstLevelWins <=> (update.at = "list" =>
                            Collected(update.groups, update.lists))
BY DEF FirstLevelWins, Collected, First, Entry

LEMMA NextAsked ==
    ASSUME TableInv, [Next]_vars
    PROVE  Asked'
<1> USE DEF files, master
<1>1. Asked /\ Shapes
  BY DEF TableInv
<1>2. /\ update = [at |-> update.at, level |-> update.level,
                   left |-> update.left, groups |-> update.groups,
                   lists |-> update.lists]
      /\ update.groups \in Seq(Entries) /\ update.lists \in Seq(Seq(Groups))
  BY <1>1 DEF Shapes
<1>3. ASSUME update'.at = "list" =>
                /\ update'.level \in Nat \ {0}
                /\ Len(update'.lists) = update'.level - 1
                /\ update'.left # 0 => update'.level - 1 \in Levels
                /\ Collected(update'.groups, update'.lists)
      PROVE  Asked'
  BY <1>3 DEF Asked, FirstLevelWins, Collected, First, Entry
<1>4. ASSUME update.at = "list"
      PROVE  /\ update.level \in Nat \ {0}
             /\ Len(update.lists) = update.level - 1
             /\ update.left # 0 => update.level - 1 \in Levels
             /\ Collected(update.groups, update.lists)
  BY <1>1, <1>4, FirstCollected DEF Asked
<1>5. CASE UNCHANGED update
  BY <1>3, <1>4, <1>5
<1>6. CASE StartUpdate
  <2>1. update' = [at |-> "list", level |-> 1, left |-> 0, groups |-> <<>>,
                  lists |-> <<>>]
    BY <1>6 DEF StartUpdate, Idle
  <2>2. Collected(<<>>, <<>>)
    BY DEF Collected, First, Range
  <2> QED BY <1>3, <2>1, <2>2
<1>7. ASSUME NEW list, UpdateServer(list)
      PROVE  Asked'
  <2> DEFINE l == update.level
             groups == update.groups
             lists == update.lists
  <2>1. update.at = "list" /\ l \in Levels /\ list \in Seq(Groups)
    BY <1>7, ServerAnswers
  <2>2. PICK new \in Seq(Entries) :
            /\ \A e : (\E i \in DOMAIN new : new[i] = e) <=>
                   \/ \E i \in DOMAIN groups : groups[i] = e
                   \/ \E m \in DOMAIN list : /\ Unknown(groups, list[m])
                                             /\ e = Entry(list[m], l)
            /\ update' = [at |-> "list", level |-> l + 1,
                          left |-> Patterns[l] - 1, groups |-> new,
                          lists |-> Append(lists, list)]
    BY <1>7, ServerAnswers
  <2>3. /\ update'.level = l + 1 /\ update'.groups = new
        /\ update'.lists = Append(lists, list)
    BY <1>2, <2>2
  <2>4. /\ l \in Nat \ {0} /\ Len(lists) = l - 1 /\ Collected(groups, lists)
        /\ groups \in Seq(Entries) /\ lists \in Seq(Seq(Groups))
    BY <1>2, <1>4, <2>1
  <2> HIDE DEF l, groups, lists
  <2>5. Collected(new, Append(lists, list))
    BY <2>1, <2>2, <2>4, OneMoreList
  <2>6. Len(Append(lists, list)) = l + 1 - 1 /\ l + 1 - 1 \in Levels
    BY <2>1, <2>4
  <2> QED BY <1>3, <2>3, <2>4, <2>5, <2>6
<1>8. CASE SkipLevel
  <2> DEFINE l == update.level
             groups == update.groups
             lists == update.lists
  <2>1. update.at = "list" /\ l \in Levels
    BY <1>8 DEF SkipLevel
  <2>2. /\ update'.level = l + 1 /\ update'.groups = groups
        /\ update'.lists = Append(lists, <<>>) /\ update'.left = 0
    BY <1>2, <1>8 DEF SkipLevel
  <2>3. /\ l \in Nat \ {0} /\ Len(lists) = l - 1 /\ Collected(groups, lists)
        /\ groups \in Seq(Entries) /\ lists \in Seq(Seq(Groups))
    BY <1>2, <1>4, <2>1
  <2> HIDE DEF l, groups, lists
  <2>4. <<>> \in Seq(Groups) /\ DOMAIN <<>> = {}
    BY SortedEmpty
  <2>5. Collected(groups, Append(lists, <<>>))
    BY <2>1, <2>3, <2>4, OneMoreList
  <2>6. Len(Append(lists, <<>>)) = l + 1 - 1
    BY <2>3, <2>4
  <2> QED BY <1>3, <2>2, <2>3, <2>5, <2>6
<1>9. CASE UpdateDies
  BY <1>3, <1>9 DEF UpdateDies, Idle
<1>10. CASE write_active
  <2>1. PICK groups \in Seq(Entries) :
            update' = [update EXCEPT !.at = "write", !.groups = groups]
    BY <1>10, WriteStarts
  <2>2. update'.at # "list"
    BY <1>2, <2>1
  <2> QED BY <1>3, <2>2
<1>11. CASE WriteLine
  BY <1>2, <1>3, <1>11 DEF WriteLine
<1>12. CASE CloseActive
  BY <1>3, <1>12 DEF CloseActive, Idle
<1>13. CASE Loop
  BY <1>5, <1>13 DEF Loop, TestReload, reload_servers, reloadactive, loadactive,
                     StatActive, ReloadRest, ReloadDone, daemon_terminate
<1>14. CASE hup_handler \/ term_handler \/ Tick
  BY <1>5, <1>14 DEF hup_handler, term_handler, Tick
<1>15. ASSUME NEW s \in Sessions, daemon_accept(s) \/ chld_handler(s)
       PROVE  Asked'
  BY <1>5, <1>15 DEF daemon_accept, chld_handler
<1>16. ASSUME NEW levels \in SUBSET Levels, EditServers(levels)
       PROVE  Asked'
  BY <1>5, <1>16 DEF EditServers
<1>17. CASE UNCHANGED vars
  BY <1>5, <1>17 DEF vars
<1>18. ASSUME NEW list, NextPattern(list)
       PROVE  Asked'
  <2> DEFINE l == update.level - 1
             groups == update.groups
             lists == update.lists
             longer == [lists EXCEPT ![l] = @ \o list]
  <2>1. /\ update.at = "list" /\ l \in Levels /\ list \in Seq(Groups)
        /\ update.level \in Nat
    BY <1>1, <1>18, PatternAnswers DEF Shapes
  <2>2. PICK new \in Seq(Entries) :
            /\ \A e : (\E i \in DOMAIN new : new[i] = e) <=>
                   \/ \E i \in DOMAIN groups : groups[i] = e
                   \/ \E m \in DOMAIN list : /\ Unknown(groups, list[m])
                                             /\ e = Entry(list[m], l)
            /\ update' = [at |-> "list", level |-> update.level,
                          left |-> update.left - 1, groups |-> new,
                          lists |-> longer]
    BY <1>18, PatternAnswers
  <2>3. /\ update'.level = l + 1 /\ update'.groups = new
        /\ update'.lists = longer
    BY <2>1, <2>2
  <2>4. /\ l \in Nat \ {0} /\ Len(lists) = l /\ Collected(groups, lists)
        /\ groups \in Seq(Entries) /\ lists \in Seq(Seq(Groups))
    BY <1>2, <1>4, <2>1 DEF Levels
  <2> HIDE DEF l, groups, lists
  <2>5. Collected(new, longer)
    BY <2>1, <2>2, <2>4, OneMorePattern
  <2>6. Len(longer) = l
    BY <2>1, <2>4, LongerLists
  <2> QED BY <1>3, <2>1, <2>3, <2>4, <2>5, <2>6
<1> QED BY <1>6, <1>7, <1>8, <1>9, <1>10, <1>11, <1>12, <1>13, <1>14, <1>15,
           <1>16, <1>17, <1>18
        DEF Next, updategroups
LEMMA NextTable ==
    ASSUME TableInv, [Next]_vars
    PROVE  TableInv'
BY NextShapes, NextInOrder, NextInTime, NextAsked DEF TableInv

LEMMA TableAlways == Spec => []TableInv
<1>1. TableInv /\ [Next]_vars => TableInv'
  BY NextTable
<1> QED BY <1>1, InitTable, PTL DEF Spec

\* The variables keep their types: numgroups never exceeds the table the
\* listener has mapped, although clearactive and loadactive (active.c) set the
\* two apart from each other, and no time kept is one to come.
THEOREM TypeCorrect == Spec => []TypeOK
<1>1. TableInv => TypeOK
  <2> SUFFICES ASSUME TableInv PROVE TypeOK
    OBVIOUS
  <2>1. /\ NumLevels \in Nat /\ MaxClock \in Nat
    BY ListAssumption
  <2>2. Shapes /\ InOrder /\ InTime
    BY DEF TableInv
  <2>3. /\ Range(active.groups) \subseteq Entries
        /\ Range(update.groups) \subseteq Entries
        /\ Range(listener.newsgroups) \subseteq Entries
    BY <2>2 DEF Shapes, Range
  <2>4. /\ clock \in 0 .. MaxClock /\ conf.mtime \in 0 .. clock
        /\ active.mtime \in 0 .. clock
        /\ update.level \in 0 .. NumLevels + 1
        /\ listener.asked \in 0 .. active.mtime
        /\ laststatserver \in 0 .. conf.mtime /\ laststatactive \in 0 .. clock
    BY <2>1, <2>2 DEF Shapes, InTime
  <2>5. numgroups \in 0 .. Len(listener.newsgroups)
    BY <2>2 DEF Shapes, InOrder
  <2>6. /\ conf.levels \subseteq Levels /\ servers \subseteq Levels
        /\ update.at \in {"idle", "list", "write"}
        /\ listener.at \in Points \cup {"exit", "dead"}
        /\ listener.reload \in BOOLEAN /\ listener.terminate \in BOOLEAN
    BY <2>2 DEF Shapes, ListenerPoints
  <2> QED BY <2>3, <2>4, <2>5, <2>6 DEF TypeOK
<1> QED BY <1>1, TableAlways, PTL

\* updategroups collects the groups of all levels, each for the first level
\* that lists it, although getlist_active (updategroups.c) searches only the
\* groups that were there before a list and sorts what it gets in between.
THEOREM FirstLevelKept == Spec => []FirstLevelWins
<1>1. TableInv => FirstLevelWins
  BY DEF TableInv, Asked, FirstLevelWins
<1> QED BY <1>1, TableAlways, PTL

\* A session finds each group of the table it was forked with while that is the
\* one loaded, also when the listener has read a file that updategroups was
\* about to write: each part of it is in order (getgroup, active.c).
THEOREM LookupKept == Spec => []LookupComplete
<1>1. TableInv => LookupComplete
  <2> SUFFICES ASSUME TableInv, NEW s \in Sessions,
                      newsgroups[s] = listener.newsgroups,
                      NEW e \in Range(newsgroups[s])
               PROVE  LET i == getgroup(newsgroups[s], e.newsgroup)
                      IN  /\ i # NULL
                          /\ newsgroups[s][i].newsgroup = e.newsgroup
    BY DEF LookupComplete
  <2> DEFINE t == newsgroups[s]
             n == numgroups
             g == e.newsgroup
  <2>1. t \in Seq(Entries) /\ Sorted(t) /\ n = Len(t)
    BY DEF TableInv, Shapes, InOrder
  <2>2. PICK j \in DOMAIN t : t[j] = e
    BY DEF Range
  <2>3. /\ n \in Nat /\ DOMAIN t = 1 .. n /\ Len(t) \in Nat
        /\ t[j] \in Entries
    BY <2>1, <2>2
  <2>4. g \in Int
    BY <2>2, <2>3, GroupNumbers DEF Entries
  <2>5. getgroup(t, g) = bsearch(t, n, g)
    BY DEF getgroup
  <2>6. t[j].newsgroup = g /\ j \in 1 .. n
    BY <2>2, <2>3
  <2> HIDE DEF t, n, g
  <2>7. Ascending(t, n)
    BY <2>1, SortedAscending
  <2> DEFINE i == bsearch(t, n, g)
  <2>8. /\ i # NULL => i \in 1 .. n /\ t[i].newsgroup = g
        /\ (\E k \in 1 .. n : t[k].newsgroup = g) => i # NULL
    <3> HIDE DEF i
    <3> QED BY <2>3, <2>4, <2>7, BsearchFinds DEF i
  <2>9. i # NULL /\ t[i].newsgroup = g
    <3> HIDE DEF i
    <3> QED BY <2>6, <2>8
  <2> QED BY <2>5, <2>9 DEF t, g
<1> QED BY <1>1, TableAlways, PTL

-----------------------------------------------------------------------------
(* The listener and the writer of the active file.                         *)

\* The times of the active file: it is never older than the one loaded, and a
\* run of updategroups gives it a new one.
Times ==
    /\ laststatactive <= active.mtime
    /\ update.at = "list" => active.mtime < clock
    /\ update.at = "write" => laststatactive < active.mtime

\* The file stays as it is while the listener reloads, and the table loaded is
\* the file's until the next run writes it.
Loaded ==
    /\ update.at = "write" =>
          ~ listener.reload /\ listener.at \in Quiet \cup {"exit", "dead"}
    /\ listener.at \in Points \ Quiet => listener.reload
    /\ listener.at = "load" => laststatactive < active.mtime
    /\ listener.at = "stat" => listener.newsgroups = active.groups
    /\ laststatactive = active.mtime => listener.newsgroups = active.groups

FileInv == Times /\ Loaded

LEMMA InitFile == Init => FileInv
<1> SUFFICES ASSUME Init PROVE FileInv
  OBVIOUS
<1>1. /\ update.at = "idle" /\ active.mtime = 0 /\ laststatactive = 0
      /\ listener.at = "top" /\ listener.newsgroups = active.groups
  BY DEF Init, Idle
<1> QED BY <1>1 DEF FileInv, Times, Loaded, Quiet, Points

LEMMA NextFile ==
    ASSUME ~ Overlap, TableInv, FileInv, [Next]_vars
    PROVE  FileInv'
<1> USE DEF FileInv, Times, Loaded, Points, Quiet, files, master
<1>1. /\ clock \in Nat /\ active.mtime \in Nat /\ laststatactive \in Nat
      /\ active.mtime <= clock
      /\ update = [at |-> update.at, level |-> update.level,
                   left |-> update.left, groups |-> update.groups,
                   lists |-> update.lists]
      /\ listener = [at |-> listener.at, reload |-> listener.reload,
                     terminate |-> listener.terminate, asked |-> listener.asked,
                     newsgroups |-> listener.newsgroups]
      /\ listener.at \in Points \cup {"exit", "dead"}
      /\ update.at \in {"idle", "list", "write"}
  BY DEF TableInv, Shapes, InTime, ListenerPoints
<1>2. CASE StartUpdate
  BY <1>1, <1>2 DEF StartUpdate, Idle
<1>3. ASSUME NEW list, UpdateServer(list)
      PROVE  FileInv'
  <2>1. PICK groups \in Seq(Entries) :
            update' = [at |-> "list", level |-> update.level + 1,
                       left |-> Patterns[update.level] - 1, groups |-> groups,
                       lists |-> Append(update.lists, list)]
    BY <1>3, ServerAnswers
  <2>2. /\ update'.at = "list" /\ update.at = "list"
        /\ UNCHANGED <<clock, active, listener, laststatactive>>
    BY <1>1, <1>3, <2>1, ServerAnswers
  <2> QED BY <1>1, <2>2
<1>4. CASE SkipLevel
  BY <1>1, <1>4 DEF SkipLevel
<1>5. CASE UpdateDies
  BY <1>1, <1>5 DEF UpdateDies, Idle
<1>6. CASE write_active
  <2>1. PICK groups \in Seq(Entries) :
            update' = [update EXCEPT !.at = "write", !.groups = groups]
    BY <1>6, WriteStarts
  <2>2. /\ update.at = "list" /\ active' = [groups |-> <<>>, mtime |-> clock]
        /\ UNCHANGED <<clock, listener, laststatactive>>
    BY <1>6, WriteStarts
  <2>3. ~ listener.reload /\ listener.at \in Quiet \cup {"exit", "dead"}
    BY <1>6 DEF write_active
  <2> QED BY <1>1, <2>1, <2>2, <2>3
<1>7. CASE WriteLine
  BY <1>1, <1>7 DEF WriteLine
<1>8. CASE CloseActive
  BY <1>1, <1>8 DEF CloseActive, Idle
<1>9. CASE TestReload
  BY <1>1, <1>9 DEF TestReload, Goto
<1>10. CASE reload_servers
  BY <1>1, <1>10 DEF reload_servers, Goto
<1>11. CASE reloadactive
  <2>1. /\ listener.at = "active" /\ listener.reload /\ update.at # "write"
        /\ UNCHANGED <<clock, active, update, laststatactive>>
    BY <1>1, <1>11 DEF reloadactive
  <2>2. CASE laststatactive < active.mtime
    <3>1. listener' = [listener EXCEPT !.at = "load", !.newsgroups = <<>>]
      BY <1>11, <2>2 DEF reloadactive
    <3>2. listener'.at = "load" /\ listener'.reload = listener.reload
      BY <1>1, <3>1
    <3> QED BY <1>1, <2>1, <2>2, <3>2
  <2>3. CASE ~ laststatactive < active.mtime
    <3>1. listener' = [listener EXCEPT !.at = "rest"]
      BY <1>11, <2>3 DEF reloadactive, Goto
    <3>2. /\ listener'.at = "rest" /\ listener'.reload = listener.reload
          /\ listener'.newsgroups = listener.newsgroups
      BY <1>1, <3>1
    <3> QED BY <1>1, <2>1, <3>2
  <2> QED BY <2>2, <2>3
<1>12. CASE loadactive
  BY <1>1, <1>12 DEF loadactive, Goto
<1>13. CASE StatActive
  BY <1>1, <1>13 DEF StatActive, Goto
<1>14. CASE ReloadRest
  BY <1>1, <1>14 DEF ReloadRest, Goto
<1>15. CASE ReloadDone
  BY <1>1, <1>15 DEF ReloadDone
<1>16. CASE daemon_terminate
  BY <1>1, <1>16 DEF daemon_terminate, Goto
<1>17. CASE hup_handler
  BY <1>1, <1>17 DEF hup_handler, Awoken
<1>18. CASE term_handler
  BY <1>1, <1>18 DEF term_handler, Awoken
<1>19. CASE Tick
  BY <1>1, <1>19 DEF Tick
<1>20. ASSUME NEW s \in Sessions, daemon_accept(s)
       PROVE  FileInv'
  BY <1>1, <1>20 DEF daemon_accept, Goto
<1>21. ASSUME NEW s \in Sessions, chld_handler(s)
       PROVE  FileInv'
  BY <1>1, <1>21 DEF chld_handler, Goto, Awoken
<1>22. ASSUME NEW levels \in SUBSET Levels, EditServers(levels)
       PROVE  FileInv'
  BY <1>1, <1>22 DEF EditServers
<1>23. CASE UNCHANGED vars
  BY <1>1, <1>23 DEF vars
<1>24. ASSUME NEW list, NextPattern(list)
       PROVE  FileInv'
  <2>1. PICK groups \in Seq(Entries) :
            /\ Sorted(groups)
            /\ update' = [at |-> "list", level |-> update.level,
                          left |-> update.left - 1, groups |-> groups,
                          lists |-> [update.lists EXCEPT
                                         ![update.level - 1] = @ \o list]]
    BY <1>24, PatternAnswers
  <2>2. /\ update'.at = "list" /\ update.at = "list"
        /\ UNCHANGED <<clock, active, listener, laststatactive>>
    BY <1>24, <2>1, PatternAnswers
  <2> QED BY <1>1, <2>2
<1> QED BY <1>2, <1>3, <1>4, <1>5, <1>6, <1>7, <1>8, <1>9, <1>10, <1>11,
           <1>12, <1>13, <1>14, <1>15, <1>16, <1>17, <1>18, <1>19, <1>20,
           <1>21, <1>22, <1>23, <1>24
        DEF Next, Loop, updategroups

\* A table that counts as recent as the file is the file, wherever the listener
\* is when a SIGHUP arrives, if updategroups does not write while the listener
\* loads: loadactive (active.c) asks for the time of the file only after it has
\* read it.
THEOREM TableUpToDate ==
    ASSUME ~ Overlap
    PROVE  Spec => []UpToDate
<1>1. FileInv => UpToDate
  BY DEF FileInv, Loaded, UpToDate
<1>2. TableInv /\ FileInv /\ [Next]_vars => FileInv'
  BY NextFile
<1> QED BY <1>1, <1>2, InitFile, TableAlways, PTL DEF Spec
=============================================================================
