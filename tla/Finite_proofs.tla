---------------------------- MODULE Finite_proofs ----------------------------
(***************************************************************************)
(* Least numbers, and sums over finite sets.  Induction is the existence   *)
(* of a least counterexample; over finite sets, of one with the fewest     *)
(* members.                                                                *)
(***************************************************************************)
EXTENDS Integers, FiniteSets, Functions, FiniteSetTheorems,
        WellFoundedInduction, TLAPS

\* A set of numbers has a least element.
LEMMA LeastNumber ==
    ASSUME NEW T \in SUBSET Nat, T # {}
    PROVE  \E x \in T : \A y \in T : x <= y
<1> DEFINE R == {ss \in Nat \X Nat : ss[1] < ss[2]}
<1>1. IsWellFoundedOn(R, Nat)
  BY NatLessThanWellFounded DEF OpToRel
<1>2. \E x \in T : \A y \in T : ~ (<<y, x>> \in R)
  <2> HIDE DEF R
  <2> QED BY <1>1, WFMin
<1>3. \A x, y \in Nat : <<y, x>> \notin R => x <= y
  OBVIOUS
<1> HIDE DEF R
<1> QED BY <1>2, <1>3

\* A set of finite sets has one with the fewest members.
LEMMA FewestMembers ==
    ASSUME NEW C, C # {}, \A T \in C : IsFiniteSet(T)
    PROVE  \E T \in C : \A U \in C : Cardinality(T) <= Cardinality(U)
<1> DEFINE N == {Cardinality(T) : T \in C}
<1>1. N \in SUBSET Nat /\ N # {}
  BY FS_CardinalityType
<1>2. PICK n \in N : \A m \in N : n <= m
  <2> HIDE DEF N
  <2> QED BY <1>1, LeastNumber
<1>3. PICK T \in C : n = Cardinality(T)
  BY <1>2
<1> QED BY <1>2, <1>3

LEMMA OneFewer ==
    ASSUME NEW T, IsFiniteSet(T), NEW x \in T
    PROVE  /\ IsFiniteSet(T \ {x})
           /\ Cardinality(T) \in Nat /\ Cardinality(T \ {x}) \in Nat
           /\ Cardinality(T \ {x}) = Cardinality(T) - 1
           /\ ~ (Cardinality(T) <= Cardinality(T \ {x}))
<1>1. /\ IsFiniteSet(T \ {x})
      /\ Cardinality(T \ {x}) = Cardinality(T) - 1
  BY FS_RemoveElement
<1>2. Cardinality(T) \in Nat /\ Cardinality(T \ {x}) \in Nat
  BY <1>1, FS_CardinalityType
<1> QED BY <1>1, <1>2

\* A finite set of numbers has a greatest one.
LEMMA GreatestNumber ==
    ASSUME NEW T \in SUBSET Int, IsFiniteSet(T), T # {}
    PROVE  \E x \in T : \A y \in T : x >= y
<1> DEFINE Bad == {U \in SUBSET T : U # {} /\ ~ \E x \in U :
                                       \A y \in U : x >= y}
<1>1. \A U \in Bad : IsFiniteSet(U)
  BY FS_Subset
<1>2. ASSUME Bad # {} PROVE FALSE
  <2>1. PICK U \in Bad : \A V \in Bad : Cardinality(U) <= Cardinality(V)
    <3> HIDE DEF Bad
    <3> QED
      BY <1>1, <1>2, FewestMembers
  <2>2. PICK z \in U : z \in Int
    BY <2>1
  <2>3. /\ IsFiniteSet(U \ {z})
        /\ ~ (Cardinality(U) <= Cardinality(U \ {z}))
    BY <1>1, <2>1, <2>2, OneFewer
  <2>4. U \ {z} \notin Bad
    BY <2>1, <2>3
  <2>5. CASE U \ {z} = {}
    BY <2>1, <2>2, <2>5
  <2>6. CASE U \ {z} # {}
    <3>1. PICK m \in U \ {z} : \A y \in U \ {z} : m >= y
      BY <2>1, <2>4, <2>6
    <3>2. m \in Int /\ \A y \in U : y \in Int
      BY <2>1
    <3>3. CASE m >= z
      BY <2>1, <2>2, <3>1, <3>2, <3>3
    <3>4. CASE ~ (m >= z)
      <4>1. \A y \in U : z >= y
        BY <2>2, <3>1, <3>2, <3>4
      <4> QED
        BY <2>1, <2>2, <4>1
    <3> QED
      BY <3>3, <3>4
  <2> QED
    BY <2>5, <2>6
<1> QED
  BY <1>2

-----------------------------------------------------------------------------
(* The sum over a set is a function of its subsets.                        *)

OneOf(T) == CHOOSE x \in T : TRUE

IsSum(g, f, S) ==
    g = [T \in S |-> IF T = {} THEN 0 ELSE f[OneOf(T)] + g[T \ {OneOf(T)}]]

Few(S, n) == {T \in SUBSET S : Cardinality(T) <= n}

LEMMA AnyMember == ASSUME NEW T, T # {} PROVE OneOf(T) \in T
  BY DEF OneOf

LEMMA SumUpTo ==
    ASSUME NEW f, NEW S, IsFiniteSet(S), NEW n \in Nat,
           NEW g, IsSum(g, f, Few(S, n))
    PROVE  \E h : IsSum(h, f, Few(S, n + 1))
<1> DEFINE K(m) == Few(S, m)
           h == [T \in K(n + 1) |->
                   IF T = {} THEN 0 ELSE f[OneOf(T)] + g[T \ {OneOf(T)}]]
<1>1. ASSUME NEW T \in K(n + 1), T # {}
      PROVE  h[T \ {OneOf(T)}] = g[T \ {OneOf(T)}]
  <2> DEFINE U == T \ {OneOf(T)}
  <2>1. IsFiniteSet(T) /\ OneOf(T) \in T
    BY <1>1, FS_Subset, AnyMember DEF Few
  <2>2. Cardinality(T) <= n + 1 /\ Cardinality(T) \in Nat
    BY <1>1, <2>1, FS_CardinalityType DEF Few
  <2>3. U \in SUBSET S /\ Cardinality(U) <= n /\ Cardinality(U) <= n + 1
    BY <2>1, <2>2, OneFewer DEF Few
  <2>4. U \in K(n) /\ U \in K(n + 1)
    BY <2>3 DEF Few
  <2>5. g[U] = IF U = {} THEN 0 ELSE f[OneOf(U)] + g[U \ {OneOf(U)}]
    <3>1. g = [V \in K(n) |->
                 IF V = {} THEN 0 ELSE f[OneOf(V)] + g[V \ {OneOf(V)}]]
      BY DEF IsSum
    <3> HIDE DEF K, U
    <3> QED BY <2>4, <3>1
  <2>6. h[U] = IF U = {} THEN 0 ELSE f[OneOf(U)] + g[U \ {OneOf(U)}]
    <3> HIDE DEF K, U
    <3> QED BY <2>4
  <2> QED BY <2>5, <2>6
<1>2. h = [T \in K(n + 1) |->
             IF T = {} THEN 0 ELSE f[OneOf(T)] + h[T \ {OneOf(T)}]]
  <2> HIDE DEF K
  <2> QED BY <1>1
<1>3. IsSum(h, f, K(n + 1))
  <2> HIDE DEF h, K
  <2> QED BY <1>2 DEF IsSum
<1> HIDE DEF h
<1> QED BY <1>3

LEMMA SumExists ==
    ASSUME NEW f, NEW S, IsFiniteSet(S)
    PROVE  \E g : IsSum(g, f, SUBSET S)
<1> DEFINE K(m) == Few(S, m)
           P(m) == \E g : IsSum(g, f, K(m))
           Bad == {m \in Nat : ~ P(m)}
<1>1. P(0)
  <2> DEFINE g == [T \in K(0) |-> 0]
  <2>1. ASSUME NEW T \in K(0) PROVE T = {}
    <3>1. IsFiniteSet(T) /\ Cardinality(T) <= 0
      BY FS_Subset DEF Few
    <3>2. Cardinality(T) = 0
      BY <3>1, FS_CardinalityType
    <3> QED BY <3>1, <3>2, FS_EmptySet
  <2>2. g = [T \in K(0) |-> IF T = {} THEN 0
                            ELSE f[OneOf(T)] + g[T \ {OneOf(T)}]]
    <3> HIDE DEF K
    <3> QED BY <2>1
  <2> HIDE DEF g
  <2>3. IsSum(g, f, K(0))
    <3> HIDE DEF K
    <3> QED BY <2>2 DEF IsSum
  <2> QED BY <2>3
<1>2. ASSUME NEW m \in Nat, P(m) PROVE P(m + 1)
  BY <1>2, SumUpTo
<1>3. Bad = {}
  <2> HIDE DEF P
  <2>1. ASSUME Bad # {} PROVE FALSE
    <3>1. PICK m \in Bad : \A k \in Bad : m <= k
      BY <2>1, LeastNumber
    <3>2. m # 0 /\ m - 1 \in Nat /\ m - 1 \notin Bad /\ (m - 1) + 1 = m
      BY <1>1, <3>1
    <3> QED BY <1>2, <3>1, <3>2
  <2> QED BY <2>1
<1>4. Cardinality(S) \in Nat /\ K(Cardinality(S)) = SUBSET S
  BY FS_CardinalityType, FS_Subset DEF Few
<1>5. P(Cardinality(S))
  <2> HIDE DEF P, K
  <2> QED BY <1>3, <1>4
<1> QED BY <1>4, <1>5

SumOf(g, f, S) == IsSum(g, f, SUBSET S)

\* What SumFunctionOnSet is, once unfolded.
LEMMA SumIs ==
    ASSUME NEW f, NEW S, IsFiniteSet(S)
    PROVE  \E g : SumOf(g, f, S) /\ SumFunctionOnSet(f, S) = g[S]
<1> DEFINE g == CHOOSE it : it = [T \in SUBSET S |->
                   IF T = {} THEN 0
                   ELSE f[CHOOSE x \in T : TRUE]
                          + it[T \ {CHOOSE x \in T : TRUE}]]
<1>1. SumFunctionOnSet(f, S) = g[S]
  BY DEF SumFunctionOnSet, FoldFunctionOnSet, MapThenFoldSet
<1>2. \E it : it = [T \in SUBSET S |->
                   IF T = {} THEN 0
                   ELSE f[CHOOSE x \in T : TRUE]
                          + it[T \ {CHOOSE x \in T : TRUE}]]
  <2>1. PICK it : IsSum(it, f, SUBSET S)
    BY SumExists
  <2>2. it = [T \in SUBSET S |->
                IF T = {} THEN 0
                ELSE f[CHOOSE x \in T : TRUE]
                       + it[T \ {CHOOSE x \in T : TRUE}]]
    BY <2>1, Zenon DEF IsSum, OneOf
  <2> QED BY <2>2, Zenon
<1>3. g = [T \in SUBSET S |->
             IF T = {} THEN 0
             ELSE f[CHOOSE x \in T : TRUE] + g[T \ {CHOOSE x \in T : TRUE}]]
  BY <1>2, Zenon
<1> HIDE DEF g
<1>4. SumOf(g, f, S)
  BY <1>3 DEF SumOf, IsSum, OneOf
<1> QED BY <1>1, <1>4
-----------------------------------------------------------------------------
(* What it does not depend on: the set it is a function of, the other      *)
(* values of f, the order of the summands.                                 *)

LEMMA SumStep ==
    ASSUME NEW g, NEW f, NEW S, SumOf(g, f, S),
           NEW T \in SUBSET S
    PROVE  /\ T = {} => g[T] = 0
           /\ T # {} => /\ OneOf(T) \in T /\ T \ {OneOf(T)} \in SUBSET S
                        /\ g[T] = f[OneOf(T)] + g[T \ {OneOf(T)}]
<1>1. g[T] = IF T = {} THEN 0 ELSE f[OneOf(T)] + g[T \ {OneOf(T)}]
  <2> DEFINE K == SUBSET S
  <2>1. g = [V \in K |-> IF V = {} THEN 0 ELSE f[OneOf(V)] + g[V \ {OneOf(V)}]]
    BY DEF SumOf, IsSum
  <2> T \in K
    OBVIOUS
  <2> HIDE DEF K
  <2> QED BY <2>1
<1> QED BY <1>1, AnyMember

LEMMA SumAgrees ==
    ASSUME NEW f, NEW g, NEW S, SumOf(g, f, S),
           NEW h, NEW k, NEW R, SumOf(k, h, R),
           NEW T, T \in SUBSET S, T \in SUBSET R, IsFiniteSet(T),
           \A x \in T : f[x] = h[x]
    PROVE  g[T] = k[T]
<1> DEFINE Bad == {U \in SUBSET T : g[U] # k[U]}
<1>1. ASSUME Bad # {} PROVE FALSE
  <2>1. \A U \in Bad : IsFiniteSet(U)
    BY FS_Subset
  <2>2. PICK U \in Bad : \A V \in Bad : Cardinality(U) <= Cardinality(V)
    <3> HIDE DEF Bad
    <3> QED BY <1>1, <2>1, FewestMembers
  <2>3. U \in SUBSET S /\ U \in SUBSET R /\ g[U] # k[U] /\ U \in SUBSET T
    BY <2>2
  <2>4. U # {}
    BY <2>3, SumStep
  <2> DEFINE y == OneOf(U)
             V == U \ {y}
  <2>5. y \in U /\ g[U] = f[y] + g[V] /\ k[U] = h[y] + k[V]
    <3>1. y \in U /\ g[U] = f[y] + g[V]
      BY <2>3, <2>4, SumStep
    <3>2. k[U] = h[y] + k[V]
      BY <2>3, <2>4, SumStep
    <3> QED BY <3>1, <3>2
  <2>6. ~ (Cardinality(U) <= Cardinality(V))
    <3>1. y \in U /\ IsFiniteSet(U)
      BY <2>1, <2>2, <2>5
    <3> HIDE DEF y
    <3> QED BY <3>1, OneFewer
  <2>7. V \notin Bad /\ V \in SUBSET T
    BY <2>2, <2>3, <2>6
  <2>8. g[V] = k[V] /\ f[y] = h[y]
    BY <2>3, <2>5, <2>7
  <2> QED BY <2>3, <2>5, <2>8
<1> QED BY <1>1

LEMMA SumInt ==
    ASSUME NEW f, NEW g, NEW S, IsFiniteSet(S), SumOf(g, f, S),
           \A x \in S : f[x] \in Int
    PROVE  \A T \in SUBSET S : g[T] \in Int
<1> DEFINE Bad == {U \in SUBSET S : g[U] \notin Int}
<1>1. ASSUME Bad # {} PROVE FALSE
  <2>1. \A U \in Bad : IsFiniteSet(U)
    BY FS_Subset
  <2>2. PICK U \in Bad : \A V \in Bad : Cardinality(U) <= Cardinality(V)
    <3> HIDE DEF Bad
    <3> QED BY <1>1, <2>1, FewestMembers
  <2>3. U \in SUBSET S /\ g[U] \notin Int
    BY <2>2
  <2>4. U # {}
    BY <2>3, SumStep
  <2> DEFINE y == OneOf(U)
             V == U \ {y}
  <2>5. y \in U /\ g[U] = f[y] + g[V]
    BY <2>3, <2>4, SumStep
  <2>6. ~ (Cardinality(U) <= Cardinality(V))
    <3>1. y \in U /\ IsFiniteSet(U)
      BY <2>1, <2>2, <2>5
    <3> HIDE DEF y
    <3> QED BY <3>1, OneFewer
  <2>7. V \notin Bad /\ V \in SUBSET S
    BY <2>2, <2>3, <2>6
  <2>8. g[V] \in Int /\ f[y] \in Int
    BY <2>3, <2>5, <2>7
  <2> QED BY <2>3, <2>5, <2>8
<1> QED BY <1>1

LEMMA SumTakesAny ==
    ASSUME NEW f, NEW g, NEW S, IsFiniteSet(S), SumOf(g, f, S),
           \A x \in S : f[x] \in Int
    PROVE  \A T \in SUBSET S : \A x \in T : g[T] = f[x] + g[T \ {x}]
<1> DEFINE Bad == {U \in SUBSET S : \E x \in U : g[U] # f[x] + g[U \ {x}]}
<1>1. ASSUME Bad # {} PROVE FALSE
  <2>1. \A U \in Bad : IsFiniteSet(U)
    BY FS_Subset
  <2>2. PICK U \in Bad : \A V \in Bad : Cardinality(U) <= Cardinality(V)
    <3> HIDE DEF Bad
    <3> QED BY <1>1, <2>1, FewestMembers
  <2>3. PICK x \in U : g[U] # f[x] + g[U \ {x}]
    BY <2>2
  <2>4. U \in SUBSET S /\ U # {} /\ IsFiniteSet(U)
    BY <2>1, <2>2, <2>3
  <2> DEFINE y == OneOf(U)
             V == U \ {x}
             W == U \ {y}
  <2>5. y \in U /\ g[U] = f[y] + g[W]
    BY <2>4, SumStep
  <2>6. x # y
    BY <2>3, <2>5
  <2>7. /\ ~ (Cardinality(U) <= Cardinality(V))
        /\ ~ (Cardinality(U) <= Cardinality(W))
    <3> HIDE DEF y
    <3> QED BY <2>3, <2>4, <2>5, OneFewer
  <2>8. V \notin Bad /\ V \in SUBSET S /\ W \notin Bad /\ W \in SUBSET S
    BY <2>2, <2>4, <2>7
  <2>9. y \in V /\ x \in W
    BY <2>3, <2>5, <2>6
  <2>10. g[V] = f[y] + g[V \ {y}] /\ g[W] = f[x] + g[W \ {x}]
    BY <2>8, <2>9
  <2>11. V \ {y} = W \ {x} /\ V \ {y} \in SUBSET S
    BY <2>8
  <2>12. f[x] \in Int /\ f[y] \in Int /\ g[V \ {y}] \in Int
    BY <2>3, <2>4, <2>5, <2>11, SumInt
  <2> HIDE DEF V, W, y
  <2>13. g[U] = f[x] + g[V]
    <3>1. g[V \ {y}] = g[W \ {x}]
      BY <2>11
    <3> QED BY <2>5, <2>10, <2>12, <3>1
  <2> QED BY <2>3, <2>13 DEF V
<1> QED BY <1>1

-----------------------------------------------------------------------------
(* What the proofs use.                                                    *)

LEMMA SumEmpty == \A f : SumFunctionOnSet(f, {}) = 0
<1> SUFFICES ASSUME NEW f PROVE SumFunctionOnSet(f, {}) = 0
  OBVIOUS
<1>1. IsFiniteSet({})
  BY FS_EmptySet
<1>2. PICK g : SumOf(g, f, {}) /\ SumFunctionOnSet(f, {}) = g[{}]
  BY <1>1, SumIs
<1> QED BY <1>2, SumStep

LEMMA SumType ==
    ASSUME NEW f, NEW S, IsFiniteSet(S), \A x \in S : f[x] \in Int
    PROVE  SumFunctionOnSet(f, S) \in Int
<1>1. PICK g : SumOf(g, f, S) /\ SumFunctionOnSet(f, S) = g[S]
  BY SumIs
<1> QED BY <1>1, SumInt

LEMMA SumRemove ==
    ASSUME NEW f, NEW S, IsFiniteSet(S), \A y \in S : f[y] \in Int,
           NEW x \in S
    PROVE  SumFunctionOnSet(f, S) = f[x] + SumFunctionOnSet(f, S \ {x})
<1>1. PICK g : SumOf(g, f, S) /\ SumFunctionOnSet(f, S) = g[S]
  BY SumIs
<1> DEFINE R == S \ {x}
<1>2. IsFiniteSet(R) /\ R \in SUBSET S
  BY FS_RemoveElement
<1>3. PICK k : SumOf(k, f, R) /\ SumFunctionOnSet(f, R) = k[R]
  BY <1>2, SumIs
<1>4. g[S] = f[x] + g[R]
  BY <1>1, SumTakesAny
<1>5. g[R] = k[R]
  <2> HIDE DEF R
  <2>1. R \in SUBSET R /\ \A y \in R : f[y] = f[y]
    OBVIOUS
  <2> QED BY <1>1, <1>2, <1>3, <2>1, SumAgrees
<1> QED BY <1>1, <1>3, <1>4, <1>5

LEMMA SumSame ==
    ASSUME NEW f, NEW h, NEW S, IsFiniteSet(S), \A x \in S : f[x] = h[x]
    PROVE  SumFunctionOnSet(f, S) = SumFunctionOnSet(h, S)
<1>1. PICK g : SumOf(g, f, S) /\ SumFunctionOnSet(f, S) = g[S]
  BY SumIs
<1>2. PICK k : SumOf(k, h, S) /\ SumFunctionOnSet(h, S) = k[S]
  BY SumIs
<1>3. S \in SUBSET S
  OBVIOUS
<1>4. g[S] = k[S]
  BY <1>1, <1>2, <1>3, SumAgrees
<1> QED BY <1>1, <1>2, <1>4

LEMMA SumAdd ==
    ASSUME NEW f, NEW S, IsFiniteSet(S), NEW x, x \notin S,
           \A y \in S \cup {x} : f[y] \in Int
    PROVE  SumFunctionOnSet(f, S \cup {x}) = f[x] + SumFunctionOnSet(f, S)
<1>1. IsFiniteSet(S \cup {x}) /\ (S \cup {x}) \ {x} = S
  BY FS_AddElement
<1> DEFINE R == S \cup {x}
<1>2. SumFunctionOnSet(f, R) = f[x] + SumFunctionOnSet(f, R \ {x})
  <2> x \in R
    OBVIOUS
  <2> HIDE DEF R
  <2> QED BY <1>1, SumRemove DEF R
<1> QED BY <1>1, <1>2

\* A change of one summand.
LEMMA SumChange ==
    ASSUME NEW f, NEW h, NEW S, IsFiniteSet(S), NEW x \in S,
           \A y \in S : f[y] \in Int /\ h[y] \in Int,
           \A y \in S : y # x => h[y] = f[y]
    PROVE  SumFunctionOnSet(h, S) = SumFunctionOnSet(f, S) + h[x] - f[x]
<1> DEFINE R == S \ {x}
           s == SumFunctionOnSet(f, R)
<1>1. IsFiniteSet(R)
  BY FS_RemoveElement
<1>2. SumFunctionOnSet(f, S) = f[x] + s
  BY SumRemove
<1>3. SumFunctionOnSet(h, S) = h[x] + SumFunctionOnSet(h, R)
  BY SumRemove
<1>4. SumFunctionOnSet(h, R) = s
  <2>1. \A y \in R : h[y] = f[y]
    OBVIOUS
  <2> HIDE DEF R
  <2> QED BY <1>1, <2>1, SumSame
<1>5. s \in Int
  <2>1. \A y \in R : f[y] \in Int
    OBVIOUS
  <2> HIDE DEF R
  <2> QED BY <1>1, <2>1, SumType
<1> HIDE DEF s
<1> QED BY <1>2, <1>3, <1>4, <1>5

LEMMA SumMonotone ==
    ASSUME NEW f, NEW h, NEW S, IsFiniteSet(S),
           \A x \in S : f[x] \in Int /\ h[x] \in Int /\ f[x] <= h[x]
    PROVE  SumFunctionOnSet(f, S) <= SumFunctionOnSet(h, S)
<1>1. PICK g : SumOf(g, f, S) /\ SumFunctionOnSet(f, S) = g[S]
  BY SumIs
<1>2. PICK k : SumOf(k, h, S) /\ SumFunctionOnSet(h, S) = k[S]
  BY SumIs
<1> DEFINE Bad == {U \in SUBSET S : ~ (g[U] <= k[U])}
<1>3. ASSUME Bad # {} PROVE FALSE
  <2>1. \A U \in Bad : IsFiniteSet(U)
    BY FS_Subset
  <2>2. PICK U \in Bad : \A V \in Bad : Cardinality(U) <= Cardinality(V)
    <3> HIDE DEF Bad
    <3> QED BY <1>3, <2>1, FewestMembers
  <2>3. U \in SUBSET S /\ ~ (g[U] <= k[U])
    BY <2>2
  <2>4. U # {}
    <3>1. U = {} => g[U] = 0
      BY <1>1, <2>3, SumStep
    <3>2. U = {} => k[U] = 0
      BY <1>2, <2>3, SumStep
    <3> QED BY <2>3, <3>1, <3>2
  <2> DEFINE y == OneOf(U)
             V == U \ {y}
  <2>5. y \in U /\ g[U] = f[y] + g[V] /\ k[U] = h[y] + k[V]
    <3>1. y \in U /\ g[U] = f[y] + g[V]
      BY <1>1, <2>3, <2>4, SumStep
    <3>2. k[U] = h[y] + k[V]
      BY <1>2, <2>3, <2>4, SumStep
    <3> QED BY <3>1, <3>2
  <2>6. ~ (Cardinality(U) <= Cardinality(V))
    <3>1. y \in U /\ IsFiniteSet(U)
      BY <2>1, <2>2, <2>5
    <3> HIDE DEF y
    <3> QED BY <3>1, OneFewer
  <2>7. V \notin Bad /\ V \in SUBSET S
    BY <2>2, <2>3, <2>6
  <2>8. /\ g[V] <= k[V] /\ g[V] \in Int /\ k[V] \in Int
        /\ f[y] <= h[y] /\ f[y] \in Int /\ h[y] \in Int
    BY <1>1, <1>2, <2>3, <2>5, <2>7, SumInt
  <2> HIDE DEF y, V
  <2> QED BY <2>3, <2>5, <2>8
<1> QED BY <1>1, <1>2, <1>3

\* A sum of numbers that are none of them negative is no less than any of them.
LEMMA SumNotNegative ==
    ASSUME NEW f, NEW S, IsFiniteSet(S), \A x \in S : f[x] \in Nat
    PROVE  0 <= SumFunctionOnSet(f, S)
<1> DEFINE Sum(T) == SumFunctionOnSet(f, T)
           Bad == {T \in SUBSET S : ~ (0 <= Sum(T))}
<1>1. \A T \in SUBSET S : IsFiniteSet(T) /\ Sum(T) \in Int
  <2> TAKE T \in SUBSET S
  <2>1. IsFiniteSet(T) /\ \A x \in T : f[x] \in Int
    BY FS_Subset
  <2> QED BY <2>1, SumType
<1>2. ASSUME Bad # {} PROVE FALSE
  <2>1. PICK T \in Bad : \A U \in Bad : Cardinality(T) <= Cardinality(U)
    <3>1. \A T \in Bad : IsFiniteSet(T)
      BY <1>1
    <3> HIDE DEF Bad
    <3> QED BY <1>2, <3>1, FewestMembers
  <2>2. T # {}
    <3>1. Sum({}) = 0
      BY SumEmpty
    <3> QED BY <2>1, <3>1
  <2>3. PICK x \in T : x \in S
    BY <2>1, <2>2
  <2>4. Sum(T) = f[x] + Sum(T \ {x})
    <3>1. IsFiniteSet(T) /\ \A y \in T : f[y] \in Int
      BY <1>1, <2>1
    <3> QED BY <2>3, <3>1, SumRemove
  <2>5. ~ (Cardinality(T) <= Cardinality(T \ {x}))
    <3>1. IsFiniteSet(T)
      BY <1>1, <2>1
    <3> QED BY <2>3, <3>1, OneFewer
  <2>6. T \ {x} \in SUBSET S /\ T \ {x} \notin Bad
    BY <2>1, <2>5
  <2>7. 0 <= Sum(T \ {x}) /\ Sum(T \ {x}) \in Int /\ f[x] \in Nat
    BY <1>1, <2>3, <2>6
  <2> HIDE DEF Sum
  <2>8. 0 <= Sum(T)
    BY <2>4, <2>7
  <2> QED BY <2>1, <2>8
<1> QED BY <1>2

LEMMA SumAtLeast ==
    ASSUME NEW f, NEW S, IsFiniteSet(S), \A y \in S : f[y] \in Nat, NEW x \in S
    PROVE  f[x] <= SumFunctionOnSet(f, S)
<1> DEFINE R == S \ {x}
<1>1. IsFiniteSet(R) /\ (\A y \in R : f[y] \in Nat) /\ f[x] \in Nat
  BY FS_RemoveElement
<1>2. SumFunctionOnSet(f, S) = f[x] + SumFunctionOnSet(f, R)
  BY SumRemove
<1> HIDE DEF R
<1>3. 0 <= SumFunctionOnSet(f, R)
  BY <1>1, SumNotNegative
<1>4. SumFunctionOnSet(f, R) \in Int
  BY <1>1, SumType
<1> QED BY <1>1, <1>2, <1>3, <1>4
=============================================================================
