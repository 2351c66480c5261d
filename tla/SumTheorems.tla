---------------------------- MODULE SumTheorems ----------------------------
(***************************************************************************)
(* Facts about the sums of the community modules, SumFunctionOnSet and     *)
(* SumFunction, for every finite set.  The library's induction theorems    *)
(* take a predicate as a parameter; here each fact is proved by its        *)
(* smallest counterexample among the subsets of the set (MinimalSubset).   *)
(***************************************************************************)
EXTENDS Integers, FiniteSetsExt, Functions, FiniteSetTheorems, TLAPS

(* g adds f up over the subsets of S. *)
IsSum(g, f, S) ==
  g = [s \in SUBSET S |-> IF s = {} THEN 0
                          ELSE LET x == CHOOSE x \in s : TRUE
                               IN  f[x] + g[s \ {x}]]

(* Among some subsets of a finite set there is a smallest: induction over finite
   sets, as a smallest counterexample. *)
LEMMA MinimalSubset ==
  ASSUME NEW S, IsFiniteSet(S), NEW T, T \subseteq SUBSET S, T # {}
  PROVE  \E s \in T : \A u \in SUBSET s : u # s => u \notin T
<1>1. T \subseteq FiniteSubsetsOf(S)
  BY FS_FiniteSubsetsOfFinite
<1>2. \E s \in T : \A u \in T : ~(<<u, s>> \in StrictSubsetOrdering(S))
  BY <1>1, FS_StrictSubsetOrderingWellFounded, WFMin
<1> QED
  BY <1>2 DEF StrictSubsetOrdering

(* Among some natural numbers there is a least one. *)
LEMMA LeastNumber ==
  ASSUME NEW T \in SUBSET Nat, T # {}
  PROVE  \E n \in T : \A m \in T : n <= m
<1>1. PICK k \in T : TRUE
  OBVIOUS
<1> DEFINE S == 0..k
           U == {s \in SUBSET S : \E m \in T : m <= k /\ s = 0..m}
<1>2. IsFiniteSet(S)
  BY FS_Interval
<1>3. S \in U /\ U \subseteq SUBSET S
  OBVIOUS
<1> HIDE DEF U, S
<1>4. PICK s \in U : \A u \in SUBSET s : u # s => u \notin U
  BY <1>2, <1>3, MinimalSubset
<1>5. PICK n \in T : n <= k /\ s = 0..n
  BY DEF U
<1>6. ASSUME NEW m \in T, m < n PROVE FALSE
  <2>1. 0..m \in SUBSET s /\ 0..m # s
    BY <1>5, <1>6
  <2>2. 0..m \in U
    BY <1>5, <1>6, <1>1 DEF U, S
  <2> QED BY <1>4, <2>1, <2>2
<1> QED BY <1>6

(* The community modules' sum is the value at S of a function that adds up all
   subsets of S, picking one element at a time. *)
LEMMA SumDef ==
  ASSUME NEW f, NEW S
  PROVE  SumFunctionOnSet(f, S) = (CHOOSE g : IsSum(g, f, S))[S]
BY DEF SumFunctionOnSet, FoldFunctionOnSet, MapThenFoldSet, IsSum

(* What such a function returns. *)
LEMMA SumAt ==
  ASSUME NEW f, NEW S, NEW g, IsSum(g, f, S), NEW s \in SUBSET S
  PROVE  /\ s = {} => g[s] = 0
         /\ s # {} => \E x \in s : x = (CHOOSE y \in s : TRUE) /\ g[s] = f[x] + g[s \ {x}]
<1> DEFINE h == [u \in SUBSET S |-> IF u = {} THEN 0
                          ELSE LET x == CHOOSE x \in u : TRUE
                               IN  f[x] + g[u \ {x}]]
           c == CHOOSE y \in s : TRUE
<1>1. g = h
  BY DEF IsSum
<1>2. g[s] = IF s = {} THEN 0 ELSE f[c] + g[s \ {c}]
  <2>1. h[s] = IF s = {} THEN 0 ELSE f[c] + g[s \ {c}]
    OBVIOUS
  <2> QED BY <1>1, <2>1
<1>3. s # {} => c \in s
  OBVIOUS
<1> QED
  BY <1>2, <1>3

(* Two of them agree on the sets both add up. *)
LEMMA SumUnique ==
  ASSUME NEW f, NEW S, IsFiniteSet(S), NEW T \in SUBSET S,
         NEW g, IsSum(g, f, S), NEW h, IsSum(h, f, T)
  PROVE  \A s \in SUBSET T : g[s] = h[s]
<1> DEFINE Bad == {s \in SUBSET T : g[s] # h[s]}
<1> SUFFICES ASSUME Bad # {} PROVE FALSE
  OBVIOUS
<1>1. IsFiniteSet(T)
  BY FS_Subset
<1>2. PICK s \in Bad : \A u \in SUBSET s : u # s => u \notin Bad
  <2>1. Bad \subseteq SUBSET T
    OBVIOUS
  <2> HIDE DEF Bad
  <2> QED BY <1>1, <2>1, MinimalSubset
<1>3. CASE s = {}
  BY <1>3, <1>2, SumAt
<1>4. CASE s # {}
  <2>1. PICK x \in s : x = (CHOOSE y \in s : TRUE) /\ g[s] = f[x] + g[s \ {x}]
    BY <1>4, SumAt
  <2>2. s \in SUBSET T
    BY <1>2
  <2>3. h[s] = f[x] + h[s \ {x}]
    <3>1. PICK z \in s : z = (CHOOSE y \in s : TRUE) /\ h[s] = f[z] + h[s \ {z}]
      BY <1>4, <2>2, SumAt
    <3> QED BY <2>1, <3>1
  <2>4. g[s \ {x}] = h[s \ {x}]
    BY <1>2, <2>1, <2>2
  <2> QED BY <1>2, <2>1, <2>3, <2>4
<1> QED
  BY <1>3, <1>4

(* There is one: the smallest set without one would get it from its subsets. *)
LEMMA SumExists ==
  ASSUME NEW f, NEW S, IsFiniteSet(S)
  PROVE  IsSum(CHOOSE g : IsSum(g, f, S), f, S)
<1> DEFINE Bad == {s \in SUBSET S : ~ \E g : IsSum(g, f, s)}
           The(s) == CHOOSE g : IsSum(g, f, s)
<1>1. SUFFICES ASSUME Bad # {} PROVE FALSE
  <2>1. S \notin Bad BY <1>1
  <2> QED BY <2>1
<1>2. PICK s \in Bad : \A u \in SUBSET s : u # s => u \notin Bad
  <2>1. Bad \subseteq SUBSET S
    OBVIOUS
  <2> HIDE DEF Bad
  <2> QED BY <1>1, <2>1, MinimalSubset
<1>3. \A u \in SUBSET s : u # s => IsSum(The(u), f, u)
  <2> TAKE u \in SUBSET s
  <2> HAVE u # s
  <2>1. u \in SUBSET S OBVIOUS
  <2>2. \E g : IsSum(g, f, u) BY <2>1, <1>2
  <2> QED BY <2>2
<1> DEFINE Sum(u) == IF u = {} THEN 0
                     ELSE LET x == CHOOSE x \in u : TRUE
                          IN  f[x] + The(u \ {x})[u \ {x}]
           h == [u \in SUBSET s |-> Sum(u)]
<1>4. ASSUME NEW u \in SUBSET s, u # {}
      PROVE  LET x == CHOOSE x \in u : TRUE
             IN  h[u] = f[x] + h[u \ {x}]
  <2> DEFINE x == CHOOSE x \in u : TRUE
             v == u \ {x}
  <2>1. x \in u BY <1>4
  <2>2. h[u] = f[x] + The(v)[v]
    BY <1>4
  <2>3. v \in SUBSET s /\ v # s
    BY <2>1
  <2>4. IsSum(The(v), f, v)
    BY <2>3, <1>3
  <2>5. h[v] = Sum(v)
    BY <2>3
  <2>6. Sum(v) = The(v)[v]
    <3>1. CASE v = {}
      BY <3>1, <2>4, SumAt
    <3>2. CASE v # {}
      <4>1. PICK y \in v : y = (CHOOSE z \in v : TRUE) /\ The(v)[v] = f[y] + The(v)[v \ {y}]
        BY <3>2, <2>4, SumAt
      <4>2. v \ {y} \in SUBSET s /\ v \ {y} # s
        BY <2>3
      <4>3. IsSum(The(v \ {y}), f, v \ {y})
        BY <4>2, <1>3
      <4>4. IsFiniteSet(v)
        BY <2>3, FS_Subset
      <4>5. The(v)[v \ {y}] = The(v \ {y})[v \ {y}]
        BY <2>4, <4>3, <4>4, SumUnique
      <4>6. Sum(v) = f[y] + The(v \ {y})[v \ {y}]
        BY <3>2, <4>1
      <4> QED BY <4>1, <4>5, <4>6
    <3> QED BY <3>1, <3>2
  <2> QED BY <2>2, <2>5, <2>6
<1>5. IsSum(h, f, s)
  <2> DEFINE Next(u) == LET x == CHOOSE x \in u : TRUE IN f[x] + h[u \ {x}]
  <2>0. \A u \in SUBSET s : u # {} => h[u] = Next(u)
    BY <1>4
  <2>3. \A u \in SUBSET s : u = {} => h[u] = 0
    OBVIOUS
  <2> HIDE DEF h
  <2>1. \A u \in SUBSET s : h[u] = IF u = {} THEN 0 ELSE Next(u)
    BY <2>0, <2>3
  <2> DEFINE k ==
               [u \in SUBSET s |-> IF u = {} THEN 0
                                   ELSE LET x == CHOOSE x \in u : TRUE
                                        IN  f[x] + h[u \ {x}]]
  <2>2. h = k
    <3>1. h = [u \in SUBSET s |-> h[u]]
      BY DEF h
    <3> QED BY <2>1, <3>1
  <2> QED BY <2>2 DEF IsSum
<1> QED
  BY <1>2, <1>5

(* Nothing adds up to zero. *)
LEMMA SumEmpty ==
  ASSUME NEW f
  PROVE  SumFunctionOnSet(f, {}) = 0
<1> DEFINE g == CHOOSE g : IsSum(g, f, {})
<1>1. IsSum(g, f, {})
  BY SumExists, FS_EmptySet
<1>2. {} \in SUBSET {}
  OBVIOUS
<1> HIDE DEF g
<1>3. g[{}] = 0
  BY <1>1, <1>2, SumAt
<1> QED
  BY <1>3, SumDef DEF g

(* A sum is one of its terms and the sum of the others. *)
LEMMA SumStep ==
  ASSUME NEW f, NEW S, IsFiniteSet(S), S # {}
  PROVE  \E x \in S : SumFunctionOnSet(f, S) = f[x] + SumFunctionOnSet(f, S \ {x})
<1> DEFINE The(s) == CHOOSE g : IsSum(g, f, s)
<1>1. IsSum(The(S), f, S)
  BY SumExists
<1>2. PICK x \in S : The(S)[S] = f[x] + The(S)[S \ {x}]
  <2> DEFINE g == The(S)
  <2>1. IsSum(g, f, S) /\ S \in SUBSET S
    BY <1>1
  <2> HIDE DEF g
  <2>2. PICK x \in S : x = (CHOOSE y \in S : TRUE) /\ g[S] = f[x] + g[S \ {x}]
    BY <2>1, SumAt
  <2> QED BY <2>2 DEF g
<1>3. IsSum(The(S \ {x}), f, S \ {x})
  BY SumExists, FS_RemoveElement
<1>4. The(S)[S \ {x}] = The(S \ {x})[S \ {x}]
  BY <1>1, <1>3, SumUnique
<1> QED
  BY <1>2, <1>4, SumDef

(* Integers add up to an integer. *)
LEMMA SumInt ==
  ASSUME NEW S, IsFiniteSet(S), NEW f, \A x \in S : f[x] \in Int
  PROVE  SumFunctionOnSet(f, S) \in Int
<1> DEFINE Bad == {s \in SUBSET S : SumFunctionOnSet(f, s) \notin Int}
<1> SUFFICES ASSUME Bad # {} PROVE FALSE
  OBVIOUS
<1>1. PICK s \in Bad : \A u \in SUBSET s : u # s => u \notin Bad
  <2>1. Bad \subseteq SUBSET S
    OBVIOUS
  <2> HIDE DEF Bad
  <2> QED BY <2>1, MinimalSubset
<1>2. CASE s = {}
  BY <1>1, <1>2, SumEmpty
<1>3. CASE s # {}
  <2>1. IsFiniteSet(s)
    BY FS_Subset
  <2>2. PICK x \in s : SumFunctionOnSet(f, s) = f[x] + SumFunctionOnSet(f, s \ {x})
    BY <1>3, <2>1, SumStep
  <2>3. SumFunctionOnSet(f, s \ {x}) \in Int
    BY <1>1
  <2>4. f[x] \in Int
    BY <1>1
  <2> QED BY <1>1, <2>2, <2>3, <2>4
<1> QED
  BY <1>2, <1>3

(* Any of its terms, in fact: the order of the terms does not matter. *)
LEMMA SumRemove ==
  ASSUME NEW S, IsFiniteSet(S), NEW f, \A x \in S : f[x] \in Int, NEW a \in S
  PROVE  SumFunctionOnSet(f, S) = f[a] + SumFunctionOnSet(f, S \ {a})
<1> DEFINE Sum(s) == SumFunctionOnSet(f, s)
           Good(s) == \A x \in s : Sum(s) = f[x] + Sum(s \ {x})
           Bad == {s \in SUBSET S : ~Good(s)}
<1>1. SUFFICES ASSUME Bad # {} PROVE FALSE
  <2>1. S \notin Bad BY <1>1
  <2> QED BY <2>1
<1>2. PICK s \in Bad : \A u \in SUBSET s : u # s => u \notin Bad
  <2>1. Bad \subseteq SUBSET S
    OBVIOUS
  <2> HIDE DEF Bad
  <2> QED BY <1>1, <2>1, MinimalSubset
<1>3. \A u \in SUBSET s : Sum(u) \in Int /\ IsFiniteSet(u)
  BY SumInt, FS_Subset
<1>4. \A u \in SUBSET s : u # s => Good(u)
  BY <1>2
<1>5. PICK x \in s : ~(Sum(s) = f[x] + Sum(s \ {x}))
  BY <1>2
<1>6. PICK y \in s : Sum(s) = f[y] + Sum(s \ {y})
  BY <1>3, <1>5, SumStep
<1>7. x # y
  BY <1>5, <1>6
<1>8. Sum(s \ {y}) = f[x] + Sum((s \ {y}) \ {x})
  <2>1. s \ {y} \in SUBSET s /\ s \ {y} # s /\ x \in s \ {y}
    BY <1>7
  <2> HIDE DEF Sum
  <2> QED BY <2>1, <1>4
<1>9. Sum(s \ {x}) = f[y] + Sum((s \ {x}) \ {y})
  <2>1. s \ {x} \in SUBSET s /\ s \ {x} # s /\ y \in s \ {x}
    BY <1>7
  <2> HIDE DEF Sum
  <2> QED BY <2>1, <1>4
<1>10. (s \ {y}) \ {x} = (s \ {x}) \ {y} /\ (s \ {x}) \ {y} \in SUBSET s
  OBVIOUS
<1>11. f[x] \in Int /\ f[y] \in Int /\ Sum((s \ {x}) \ {y}) \in Int
  BY <1>3, <1>10
<1> DEFINE rest == Sum((s \ {x}) \ {y})
<1>12. Sum(s) = f[y] + (f[x] + rest)
  BY <1>6, <1>8, <1>10
<1>13. f[x] + Sum(s \ {x}) = f[x] + (f[y] + rest)
  BY <1>9
<1>14. rest \in Int
  BY <1>11
<1> HIDE DEF Sum, rest
<1>15. Sum(s) = f[x] + Sum(s \ {x})
  BY <1>11, <1>12, <1>13, <1>14
<1> QED
  BY <1>5, <1>15 DEF Sum

(* A term more. *)
LEMMA SumAdd ==
  ASSUME NEW S, IsFiniteSet(S), NEW f, NEW a, a \notin S, \A x \in S \cup {a} : f[x] \in Int
  PROVE  SumFunctionOnSet(f, S \cup {a}) = f[a] + SumFunctionOnSet(f, S)
<1>1. IsFiniteSet(S \cup {a}) /\ (S \cup {a}) \ {a} = S
  BY FS_AddElement
<1> QED
  BY <1>1, SumRemove

(* Equal terms have equal sums. *)
LEMMA SumAgree ==
  ASSUME NEW S, IsFiniteSet(S), NEW f, NEW g, \A x \in S : f[x] \in Int /\ f[x] = g[x]
  PROVE  SumFunctionOnSet(f, S) = SumFunctionOnSet(g, S)
<1> DEFINE Bad == {s \in SUBSET S : SumFunctionOnSet(f, s) # SumFunctionOnSet(g, s)}
<1> SUFFICES ASSUME Bad # {} PROVE FALSE
  OBVIOUS
<1>1. PICK s \in Bad : \A u \in SUBSET s : u # s => u \notin Bad
  <2>1. Bad \subseteq SUBSET S
    OBVIOUS
  <2> HIDE DEF Bad
  <2> QED BY <2>1, MinimalSubset
<1>2. CASE s = {}
  BY <1>1, <1>2, SumEmpty
<1>3. CASE s # {}
  <2>1. PICK x \in s : TRUE
    BY <1>3
  <2>2. IsFiniteSet(s) /\ \A y \in s : f[y] \in Int /\ g[y] \in Int
    BY <1>1, FS_Subset
  <2>3. /\ SumFunctionOnSet(f, s) = f[x] + SumFunctionOnSet(f, s \ {x})
        /\ SumFunctionOnSet(g, s) = g[x] + SumFunctionOnSet(g, s \ {x})
    BY <2>2, SumRemove
  <2>4. SumFunctionOnSet(f, s \ {x}) = SumFunctionOnSet(g, s \ {x})
    BY <1>1
  <2> QED BY <1>1, <2>3, <2>4
<1> QED
  BY <1>2, <1>3

(* The sum of sums. *)
LEMMA SumPlus ==
  ASSUME NEW S, IsFiniteSet(S), NEW f, NEW g, NEW h,
         \A x \in S : f[x] \in Int /\ g[x] \in Int /\ h[x] = f[x] + g[x]
  PROVE  SumFunctionOnSet(h, S) = SumFunctionOnSet(f, S) + SumFunctionOnSet(g, S)
<1> DEFINE Bad == {s \in SUBSET S : SumFunctionOnSet(h, s)
                                     # SumFunctionOnSet(f, s) + SumFunctionOnSet(g, s)}
<1> SUFFICES ASSUME Bad # {} PROVE FALSE
  OBVIOUS
<1>1. PICK s \in Bad : \A u \in SUBSET s : u # s => u \notin Bad
  <2>1. Bad \subseteq SUBSET S
    OBVIOUS
  <2> HIDE DEF Bad
  <2> QED BY <2>1, MinimalSubset
<1>2. CASE s = {}
  BY <1>1, <1>2, SumEmpty
<1>3. CASE s # {}
  <2>1. PICK x \in s : TRUE
    BY <1>3
  <2>2. IsFiniteSet(s) /\ \A y \in s : f[y] \in Int /\ g[y] \in Int /\ h[y] \in Int
    BY <1>1, FS_Subset
  <2>3. /\ SumFunctionOnSet(f, s) = f[x] + SumFunctionOnSet(f, s \ {x})
        /\ SumFunctionOnSet(g, s) = g[x] + SumFunctionOnSet(g, s \ {x})
        /\ SumFunctionOnSet(h, s) = h[x] + SumFunctionOnSet(h, s \ {x})
    BY <2>2, SumRemove
  <2>4. SumFunctionOnSet(h, s \ {x}) = SumFunctionOnSet(f, s \ {x}) + SumFunctionOnSet(g, s \ {x})
    BY <1>1
  <2>5. IsFiniteSet(s \ {x}) /\ \A y \in s \ {x} : f[y] \in Int /\ g[y] \in Int
    BY <2>2, FS_RemoveElement
  <2>6. SumFunctionOnSet(f, s \ {x}) \in Int /\ SumFunctionOnSet(g, s \ {x}) \in Int
    BY <2>5, SumInt
  <2>7. h[x] = f[x] + g[x] /\ f[x] \in Int /\ g[x] \in Int
    BY <1>1
  <2> QED BY <1>1, <2>3, <2>4, <2>6, <2>7
<1> QED
  BY <1>2, <1>3

(* Zeros add up to zero. *)
LEMMA SumZero ==
  ASSUME NEW S, IsFiniteSet(S), NEW f, \A x \in S : f[x] = 0
  PROVE  SumFunctionOnSet(f, S) = 0
<1>1. SumFunctionOnSet(f, S) = SumFunctionOnSet(f, S) + SumFunctionOnSet(f, S)
  BY SumPlus
<1> QED
  BY <1>1, SumInt

(* Natural numbers add up to one. *)
LEMMA SumNat ==
  ASSUME NEW S, IsFiniteSet(S), NEW f, \A x \in S : f[x] \in Nat
  PROVE  SumFunctionOnSet(f, S) \in Nat
<1> DEFINE Bad == {s \in SUBSET S : SumFunctionOnSet(f, s) \notin Nat}
<1> SUFFICES ASSUME Bad # {} PROVE FALSE
  OBVIOUS
<1>1. PICK s \in Bad : \A u \in SUBSET s : u # s => u \notin Bad
  <2>1. Bad \subseteq SUBSET S
    OBVIOUS
  <2> HIDE DEF Bad
  <2> QED BY <2>1, MinimalSubset
<1>2. CASE s = {}
  BY <1>1, <1>2, SumEmpty
<1>3. CASE s # {}
  <2>1. IsFiniteSet(s)
    BY FS_Subset
  <2>2. PICK x \in s : SumFunctionOnSet(f, s) = f[x] + SumFunctionOnSet(f, s \ {x})
    BY <1>3, <2>1, SumStep
  <2>3. SumFunctionOnSet(f, s \ {x}) \in Nat
    BY <1>1
  <2>4. f[x] \in Nat
    BY <1>1
  <2> QED BY <1>1, <2>2, <2>3, <2>4
<1> QED
  BY <1>2, <1>3

(* The sum over two sets that share nothing. *)
LEMMA SumUnion ==
  ASSUME NEW S, IsFiniteSet(S), NEW T, IsFiniteSet(T), S \cap T = {},
         NEW f, \A x \in S \cup T : f[x] \in Int
  PROVE  SumFunctionOnSet(f, S \cup T) = SumFunctionOnSet(f, S) + SumFunctionOnSet(f, T)
<1> DEFINE Bad == {s \in SUBSET S : SumFunctionOnSet(f, s \cup T)
                                     # SumFunctionOnSet(f, s) + SumFunctionOnSet(f, T)}
<1> SUFFICES ASSUME Bad # {} PROVE FALSE
  OBVIOUS
<1>0. SumFunctionOnSet(f, T) \in Int
  BY SumInt
<1>1. PICK s \in Bad : \A u \in SUBSET s : u # s => u \notin Bad
  <2>1. Bad \subseteq SUBSET S
    OBVIOUS
  <2> HIDE DEF Bad
  <2> QED BY <2>1, MinimalSubset
<1>2. CASE s = {}
  <2>1. s \cup T = T
    BY <1>2
  <2> QED BY <1>0, <1>1, <1>2, <2>1, SumEmpty
<1>3. CASE s # {}
  <2>1. PICK x \in s : TRUE
    BY <1>3
  <2>2. /\ IsFiniteSet(s) /\ IsFiniteSet(s \cup T)
        /\ \A y \in s : f[y] \in Int
        /\ \A y \in s \cup T : f[y] \in Int
    BY <1>1, FS_Subset, FS_Union
  <2>3. /\ SumFunctionOnSet(f, s) = f[x] + SumFunctionOnSet(f, s \ {x})
        /\ SumFunctionOnSet(f, s \cup T) = f[x] + SumFunctionOnSet(f, (s \cup T) \ {x})
    BY <2>2, SumRemove
  <2>4. (s \cup T) \ {x} = (s \ {x}) \cup T
    BY <1>1
  <2>5. SumFunctionOnSet(f, (s \ {x}) \cup T)
          = SumFunctionOnSet(f, s \ {x}) + SumFunctionOnSet(f, T)
    BY <1>1
  <2>6. IsFiniteSet(s \ {x}) /\ \A y \in s \ {x} : f[y] \in Int
    BY <2>2, FS_RemoveElement
  <2>7. SumFunctionOnSet(f, s \ {x}) \in Int /\ f[x] \in Int
    BY <2>2, <2>6, SumInt
  <2> QED BY <1>0, <1>1, <2>3, <2>4, <2>5, <2>7
<1> QED
  BY <1>2, <1>3

(* Every element of D is in exactly one of the parts P names. *)
Parts(D, P, part) ==
  /\ IsFiniteSet(D) /\ IsFiniteSet(P)
  /\ \A x \in D : \E p \in P : x \in part[p]
  /\ \A p \in P : part[p] \subseteq D
  /\ \A p, q \in P : p # q => part[p] \cap part[q] = {}

(* A sum is the sum of the sums of its parts. *)
LEMMA SumByPart ==
  ASSUME NEW D, NEW P, NEW part, Parts(D, P, part),
         NEW f, \A x \in D : f[x] \in Int,
         NEW F, \A p \in P : F[p] = SumFunctionOnSet(f, part[p])
  PROVE  SumFunctionOnSet(f, D) = SumFunctionOnSet(F, P)
<1> USE DEF Parts
<1> DEFINE All(Q) == UNION {part[p] : p \in Q}
           Bad == {Q \in SUBSET P : SumFunctionOnSet(f, All(Q)) # SumFunctionOnSet(F, Q)}
<1>0. SUFFICES ASSUME Bad # {} PROVE FALSE
  <2>1. P \notin Bad
    BY <1>0
  <2>2. All(P) = D
    OBVIOUS
  <2> QED BY <2>1, <2>2
<1>1. PICK Q \in Bad : \A u \in SUBSET Q : u # Q => u \notin Bad
  <2>1. Bad \subseteq SUBSET P /\ IsFiniteSet(P)
    OBVIOUS
  <2> HIDE DEF Bad, Parts
  <2> QED BY <1>0, <2>1, MinimalSubset
<1>2. CASE Q = {}
  <2>1. All(Q) = {}
    BY <1>2
  <2> QED BY <1>1, <1>2, <2>1, SumEmpty
<1>3. CASE Q # {}
  <2>1. PICK p \in Q : TRUE
    BY <1>3
  <2> DEFINE R == Q \ {p}
  <2>2. All(Q) = part[p] \cup All(R) /\ part[p] \cap All(R) = {}
    BY <1>1
  <2>3. part[p] \subseteq D /\ All(R) \subseteq D
    BY <1>1
  <2>4. IsFiniteSet(part[p]) /\ IsFiniteSet(All(R))
    BY <2>3, FS_Subset
  <2>5. SumFunctionOnSet(f, All(Q)) = SumFunctionOnSet(f, part[p]) + SumFunctionOnSet(f, All(R))
    <3>1. \A x \in part[p] \cup All(R) : f[x] \in Int
      BY <2>3
    <3> DEFINE U == All(R)
               V == part[p]
    <3>2. /\ IsFiniteSet(V) /\ IsFiniteSet(U) /\ V \cap U = {}
          /\ \A x \in V \cup U : f[x] \in Int
      BY <2>2, <2>4, <3>1
    <3> HIDE DEF U, V
    <3>3. SumFunctionOnSet(f, V \cup U) = SumFunctionOnSet(f, V) + SumFunctionOnSet(f, U)
      BY <3>2, SumUnion
    <3> QED BY <2>2, <3>3 DEF U, V
  <2>6. SumFunctionOnSet(f, All(R)) = SumFunctionOnSet(F, R)
    <3>1. R \in SUBSET Q /\ R # Q /\ R \in SUBSET P
      BY <1>1, <2>1
    <3> QED BY <1>1, <3>1
  <2>7. \A q \in Q : F[q] = SumFunctionOnSet(f, part[q]) /\ F[q] \in Int
    <3> TAKE q \in Q
    <3>1. q \in P
      BY <1>1
    <3>2. part[q] \subseteq D /\ IsFiniteSet(part[q])
      BY <3>1, FS_Subset
    <3>3. \A x \in part[q] : f[x] \in Int
      BY <3>2
    <3> QED BY <3>1, <3>2, <3>3, SumInt
  <2>8. IsFiniteSet(Q)
    BY FS_Subset
  <2>9. SumFunctionOnSet(F, Q) = F[p] + SumFunctionOnSet(F, R)
    <3> QED BY <2>7, <2>8, SumRemove
  <2> HIDE DEF All
  <2>10. SumFunctionOnSet(f, All(Q)) # SumFunctionOnSet(F, Q)
    BY <1>1
  <2> QED BY <2>5, <2>6, <2>7, <2>9, <2>10
<1> QED
  BY <1>2, <1>3

(* No term of natural numbers exceeds their sum. *)
LEMMA SumTerm ==
  ASSUME NEW S, IsFiniteSet(S), NEW f, \A x \in S : f[x] \in Nat, NEW a \in S
  PROVE  f[a] <= SumFunctionOnSet(f, S)
<1>1. SumFunctionOnSet(f, S) = f[a] + SumFunctionOnSet(f, S \ {a})
  BY SumRemove
<1>2. SumFunctionOnSet(f, S \ {a}) \in Nat
  BY SumNat, FS_RemoveElement
<1> QED
  BY <1>1, <1>2

(* A common factor. *)
LEMMA SumScale ==
  ASSUME NEW S, IsFiniteSet(S), NEW f, NEW p \in Int, NEW g,
         \A x \in S : f[x] \in Int /\ g[x] = f[x] * p
  PROVE  SumFunctionOnSet(g, S) = SumFunctionOnSet(f, S) * p
<1> DEFINE Bad == {s \in SUBSET S :
                     SumFunctionOnSet(g, s) # SumFunctionOnSet(f, s) * p}
<1> SUFFICES ASSUME Bad # {} PROVE FALSE
  OBVIOUS
<1>1. PICK s \in Bad : \A u \in SUBSET s : u # s => u \notin Bad
  <2>1. Bad \subseteq SUBSET S
    OBVIOUS
  <2> HIDE DEF Bad
  <2> QED BY <2>1, MinimalSubset
<1>2. CASE s = {}
  BY <1>1, <1>2, SumEmpty
<1>3. CASE s # {}
  <2>1. PICK x \in s : TRUE
    BY <1>3
  <2>2. IsFiniteSet(s) /\ \A y \in s : f[y] \in Int /\ g[y] \in Int
    BY <1>1, FS_Subset
  <2>3. /\ SumFunctionOnSet(f, s) = f[x] + SumFunctionOnSet(f, s \ {x})
        /\ SumFunctionOnSet(g, s) = g[x] + SumFunctionOnSet(g, s \ {x})
    BY <2>2, SumRemove
  <2>4. SumFunctionOnSet(g, s \ {x}) = SumFunctionOnSet(f, s \ {x}) * p
    BY <1>1
  <2>5. SumFunctionOnSet(f, s \ {x}) \in Int
    BY <2>2, FS_RemoveElement, SumInt
  <2>6. g[x] = f[x] * p /\ f[x] \in Int
    BY <1>1
  <2> DEFINE rest == SumFunctionOnSet(f, s \ {x})
  <2>7. (f[x] + rest) * p = f[x] * p + rest * p
    <3>1. rest \in Int BY <2>5
    <3> HIDE DEF rest
    <3> DEFINE y == f[x]
    <3>2. y \in Int BY <2>6
    <3> HIDE DEF y
    <3>3. (y + rest) * p = y * p + rest * p
      BY <3>1, <3>2
    <3> QED BY <3>3 DEF y
  <2> QED BY <1>1, <2>3, <2>4, <2>6, <2>7
<1> QED
  BY <1>2, <1>3

(* A function whose value changes at one point. *)
LEMMA SumChange ==
  ASSUME NEW S, IsFiniteSet(S), NEW f \in [S -> Int], NEW a \in S, NEW v \in Int
  PROVE  SumFunction([f EXCEPT ![a] = v]) = SumFunction(f) - f[a] + v
<1> DEFINE g == [f EXCEPT ![a] = v]
<1>1. g \in [S -> Int] /\ DOMAIN f = S /\ DOMAIN g = S /\ g[a] = v
      /\ \A x \in S \ {a} : f[x] \in Int /\ f[x] = g[x]
  OBVIOUS
<1>2. SumFunctionOnSet(f, S) = f[a] + SumFunctionOnSet(f, S \ {a})
  BY <1>1, SumRemove
<1> HIDE DEF g
<1>3. SumFunctionOnSet(g, S) = g[a] + SumFunctionOnSet(g, S \ {a})
  BY <1>1, SumRemove
<1>4. SumFunctionOnSet(f, S \ {a}) = SumFunctionOnSet(g, S \ {a})
  BY <1>1, FS_RemoveElement, SumAgree
<1>5. SumFunctionOnSet(f, S \ {a}) \in Int
  BY <1>1, FS_RemoveElement, SumInt
<1>6. SumFunction(f) = SumFunctionOnSet(f, S) /\ SumFunction(g) = SumFunctionOnSet(g, S)
  BY <1>1 DEF SumFunction, SumFunctionOnSet, FoldFunction
<1> QED
  BY <1>1, <1>2, <1>3, <1>4, <1>5, <1>6 DEF g

(* A sum whose terms change at two points. *)
LEMMA SumTwo ==
  ASSUME NEW S, IsFiniteSet(S), NEW f \in [S -> Int], NEW g \in [S -> Int],
         NEW a \in S, NEW b \in S, a # b, \A x \in S \ {a, b} : g[x] = f[x]
  PROVE  SumFunction(g) = SumFunction(f) - f[a] - f[b] + g[a] + g[b]
<1> DEFINE T == S \ {a}
           U == T \ {b}
<1>1. IsFiniteSet(T) /\ b \in T /\ IsFiniteSet(U)
  BY FS_RemoveElement
<1>2. /\ SumFunctionOnSet(f, S) = f[a] + SumFunctionOnSet(f, T)
      /\ SumFunctionOnSet(g, S) = g[a] + SumFunctionOnSet(g, T)
  BY SumRemove
<1>3. /\ \A x \in T : f[x] \in Int /\ g[x] \in Int
      /\ \A x \in U : f[x] \in Int /\ f[x] = g[x]
      /\ f[a] \in Int /\ f[b] \in Int /\ g[a] \in Int /\ g[b] \in Int
  OBVIOUS
<1> HIDE DEF T
<1>4. /\ SumFunctionOnSet(f, T) = f[b] + SumFunctionOnSet(f, U)
      /\ SumFunctionOnSet(g, T) = g[b] + SumFunctionOnSet(g, U)
  BY <1>1, <1>3, SumRemove
<1> HIDE DEF U
<1>5. SumFunctionOnSet(f, U) = SumFunctionOnSet(g, U) /\ SumFunctionOnSet(f, U) \in Int
  BY <1>1, <1>3, SumAgree, SumInt
<1>6. SumFunction(f) = SumFunctionOnSet(f, S) /\ SumFunction(g) = SumFunctionOnSet(g, S)
  BY DEF SumFunction, SumFunctionOnSet, FoldFunction
<1> QED BY <1>2, <1>3, <1>4, <1>5, <1>6

(* A finite set has a finite image. *)
LEMMA ImageFinite ==
  ASSUME NEW S, IsFiniteSet(S), NEW f, DOMAIN f = S
  PROVE  IsFiniteSet({f[x] : x \in S})
<1> DEFINE T == {f[x] : x \in S}
           g == [x \in S |-> f[x]]
<1>1. g \in [S -> T] /\ \A t \in T : \E x \in S : g[x] = t
  OBVIOUS
<1>2. g \in Surjection(S, T)
  BY <1>1 DEF Surjection
<1> QED
  BY <1>2, FS_Surjection

(* The sum over one element. *)
LEMMA SumOne ==
  ASSUME NEW f, NEW x, f[x] \in Int
  PROVE  SumFunctionOnSet(f, {x}) = f[x]
<1>1. IsFiniteSet({}) /\ {} \cup {x} = {x}
  BY FS_EmptySet
<1>2. SumFunctionOnSet(f, {} \cup {x}) = f[x] + SumFunctionOnSet(f, {})
  BY <1>1, SumAdd
<1> QED BY <1>1, <1>2, SumEmpty

(* The sum over a set of which one part is replaced by another. *)
LEMMA SumReplace ==
  ASSUME NEW S, IsFiniteSet(S), NEW old \in SUBSET S, NEW new, IsFiniteSet(new),
         new \cap (S \ old) = {},
         NEW f, \A x \in S : f[x] \in Int,
         NEW g, \A x \in S \ old : g[x] = f[x], \A x \in new : g[x] \in Int
  PROVE  SumFunctionOnSet(g, (S \ old) \cup new)
           = SumFunctionOnSet(f, S) - SumFunctionOnSet(f, old) + SumFunctionOnSet(g, new)
<1> DEFINE rest == S \ old
<1>1. IsFiniteSet(old) /\ IsFiniteSet(rest)
  BY FS_Subset
<1>2. S = rest \cup old /\ rest \cap old = {} /\ \A x \in rest \cup old : f[x] \in Int
  OBVIOUS
<1>3. \A x \in rest : f[x] \in Int /\ f[x] = g[x]
  OBVIOUS
<1>4. \A x \in rest \cup new : g[x] \in Int
  OBVIOUS
<1>5. rest \cap new = {}
  OBVIOUS
<1> HIDE DEF rest
<1>6. SumFunctionOnSet(f, S) = SumFunctionOnSet(f, rest) + SumFunctionOnSet(f, old)
  BY <1>1, <1>2, SumUnion
<1>7. SumFunctionOnSet(g, rest \cup new) = SumFunctionOnSet(g, rest) + SumFunctionOnSet(g, new)
  BY <1>1, <1>4, <1>5, SumUnion
<1>8. SumFunctionOnSet(f, rest) = SumFunctionOnSet(g, rest)
  BY <1>1, <1>3, SumAgree
<1>9. SumFunctionOnSet(f, rest) \in Int /\ SumFunctionOnSet(f, old) \in Int
      /\ SumFunctionOnSet(g, new) \in Int
  BY <1>1, <1>2, <1>3, <1>4, SumInt
<1> QED BY <1>6, <1>7, <1>8, <1>9 DEF rest
=============================================================================
