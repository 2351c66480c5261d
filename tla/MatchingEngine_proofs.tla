------------------------ MODULE MatchingEngine_proofs ------------------------
(***************************************************************************)
(* Proofs about MatchingEngine and the planner it asks, FinitePlan, for    *)
(* any orders, takers, quotes and bounds.                                  *)
(*                                                                         *)
(* The planner: the account of a walk (Ledger) says that what a row had is *)
(* what was taken of it and what is left, Queued that the queue stays in   *)
(* order, NobodyPassed that no row trades before one that was ahead of it. *)
(* Together they give the contract of a plan, Kept the state in which it   *)
(* is asked for one.                                                       *)
(*                                                                         *)
(* The engine: MatchingInv says that both books a reservation may end with *)
(* are in order and that the changes that wait can be made in either.      *)
(*                                                                         *)
(* The refinement: releasing the changes is a run, so each one asked for   *)
(* lengthens it by a step (ReleasedOneMore), whenever it happens           *)
(* (ReleasedAnyTime): that is why AtomicBook may do it at once.            *)
(***************************************************************************)
EXTENDS MatchingInvariants, SumTheorems

-----------------------------------------------------------------------------
(* Numbers and steps. *)

(* The smaller of two numbers. *)
LEMMA MinOfTwo ==
  ASSUME NEW a, NEW b, a \in Int, b \in Int
  PROVE  /\ Min({a, b}) \in {a, b}
         /\ Min({a, b}) <= a /\ Min({a, b}) <= b
<1> DEFINE P(x) == x \in {a, b} /\ \A y \in {a, b} : x <= y
<1>1. \E x : P(x)
  <2>1. CASE a <= b
    BY <2>1
  <2>2. CASE b <= a
    BY <2>2
  <2> QED BY <2>1, <2>2
<1>2. Min({a, b}) = CHOOSE x : P(x)
  BY DEF Min
<1>3. P(CHOOSE x : P(x))
  BY <1>1
<1> QED BY <1>2, <1>3

(* A finite set of numbers that is not empty has a largest. *)
LEMMA MaxOfSet ==
  ASSUME NEW S \in SUBSET Nat, IsFiniteSet(S), S # {}
  PROVE  Max(S) \in S /\ \A x \in S : x <= Max(S)
<1> DEFINE HasMax(s) == \E x \in s : \A y \in s : x >= y
           Bad == {s \in SUBSET S : s # {} /\ ~HasMax(s)}
<1>1. HasMax(S)
  <2> SUFFICES ASSUME Bad # {} PROVE FALSE
    OBVIOUS
  <2>1. PICK s \in Bad : \A u \in SUBSET s : u # s => u \notin Bad
    <3>1. Bad \subseteq SUBSET S
      OBVIOUS
    <3> HIDE DEF Bad
    <3> QED BY <3>1, MinimalSubset
  <2>2. PICK x \in s : TRUE
    BY <2>1
  <2> DEFINE u == s \ {x}
  <2>3. u \in SUBSET s /\ u # s /\ u \subseteq S
    BY <2>1, <2>2
  <2>4. CASE u = {}
    <3>1. s = {x} /\ x \in Nat
      BY <2>4, <2>1
    <3> QED BY <2>1, <3>1
  <2>5. CASE u # {}
    <3>1. PICK m \in u : \A y \in u : m >= y
      BY <2>5, <2>3, <2>1
    <3>2. m \in Nat /\ x \in Nat /\ \A y \in s : y \in Nat
      BY <3>1, <2>1
    <3>3. \A y \in s : (IF x >= m THEN x ELSE m) >= y
      BY <3>1, <3>2
    <3> QED BY <2>1, <3>1, <3>3
  <2> QED BY <2>4, <2>5
<1> DEFINE P(x) == x \in S /\ \A y \in S : x >= y
<1>2. \E x : P(x)
  BY <1>1
<1>3. Max(S) = CHOOSE x : P(x)
  BY DEF Max
<1>4. P(CHOOSE x : P(x))
  BY <1>2
<1> QED BY <1>3, <1>4

(* A function that a recursion along the numbers defines: it exists, and it stays in
   whatever sets each step leads from one into the next. *)
IsRun(g, N, a, F) ==
  g = [n \in 0..N |-> IF n = 0 THEN a ELSE F[n][g[n - 1]]]

(* A run makes its steps one after the other. *)
LEMMA RunSteps ==
  ASSUME NEW N \in Nat, NEW a, NEW F, NEW g, IsRun(g, N, a, F)
  PROVE  g[0] = a /\ \A n \in 1..N : g[n] = F[n][g[n - 1]]
<1>1. \A n \in 0..N : g[n] = IF n = 0 THEN a ELSE F[n][g[n - 1]]
  BY DEF IsRun
<1> QED BY <1>1

(* A run whose steps lead from each set into the next ends in the last. *)
LEMMA RunStays ==
  ASSUME NEW N \in Nat, NEW S, NEW a \in S[0], NEW F,
         \A n \in 1..N : \A x \in S[n - 1] : F[n][x] \in S[n],
         NEW g, IsRun(g, N, a, F)
  PROVE  \A n \in 0..N : g[n] \in S[n]
<1> DEFINE Bad == {n \in 0..N : g[n] \notin S[n]}
<1>0. /\ g[0] = a
      /\ \A n \in 1..N : g[n] = F[n][g[n - 1]]
  BY DEF IsRun
<1>1. SUFFICES ASSUME Bad # {} PROVE FALSE
  OBVIOUS
<1>2. PICK n \in Bad : \A m \in Bad : n <= m
  <2>1. Bad \in SUBSET Nat
    OBVIOUS
  <2> HIDE DEF Bad
  <2> QED BY <1>1, <2>1, LeastNumber
<1>3. n # 0
  BY <1>0
<1>4. n - 1 \in 0..N /\ n \in 1..N /\ n - 1 \notin Bad
  BY <1>2, <1>3
<1>5. g[n - 1] \in S[n - 1]
  BY <1>4
<1> QED BY <1>0, <1>4, <1>5

(* Two runs of the same first steps agree up to there. *)
LEMMA RunsAgree ==
  ASSUME NEW N \in Nat, NEW M \in 0..N, NEW a, NEW F, NEW G,
         \A n \in 1..M : F[n] = G[n],
         NEW g, IsRun(g, M, a, F), NEW h, IsRun(h, N, a, G)
  PROVE  \A n \in 0..M : g[n] = h[n]
<1> DEFINE S == [n \in 0..M |-> {h[n]}]
<1>1. \A n \in 1..M : h[n] = G[n][h[n - 1]]
  BY DEF IsRun
<1>2. h[0] = a
  BY DEF IsRun
<1>3. \A n \in 1..M : \A x \in S[n - 1] : F[n][x] \in S[n]
  BY <1>1
<1>4. M \in Nat /\ a \in S[0]
  BY <1>2
<1> HIDE DEF S
<1>5. \A n \in 0..M : g[n] \in S[n]
  BY <1>3, <1>4, RunStays
<1> QED BY <1>5 DEF S

(* Every sequence of steps has its run. *)
LEMMA RunExists ==
  ASSUME NEW N \in Nat, NEW a, NEW F
  PROVE  \E g : IsRun(g, N, a, F)
<1> DEFINE Bad == {n \in Nat : ~ \E g : IsRun(g, n, a, F)}
<1>1. SUFFICES ASSUME Bad # {} PROVE FALSE
  OBVIOUS
<1>2. PICK n \in Bad : \A m \in Bad : n <= m
  <2>1. Bad \in SUBSET Nat
    OBVIOUS
  <2> HIDE DEF Bad
  <2> QED BY <1>1, <2>1, LeastNumber
<1>3. n # 0
  <2> SUFFICES ASSUME n = 0 PROVE FALSE
    OBVIOUS
  <2> DEFINE g == [k \in 0..0 |-> a]
  <2>1. IsRun(g, 0, a, F)
    BY DEF IsRun
  <2> HIDE DEF g
  <2> QED BY <2>1
<1>4. n - 1 \in Nat /\ n - 1 \notin Bad
  BY <1>2, <1>3
<1>5. PICK g : IsRun(g, n - 1, a, F)
  BY <1>4
<1> DEFINE h == [k \in 0..n |-> IF k = n THEN F[n][g[n - 1]] ELSE g[k]]
<1>6. \A k \in 0..n : h[k] = IF k = 0 THEN a ELSE F[k][h[k - 1]]
  <2> TAKE k \in 0..n
  <2>1. CASE k = n
    <3>1. h[n] = F[n][g[n - 1]] /\ h[n - 1] = g[n - 1]
      BY <1>3
    <3> QED BY <2>1, <3>1, <1>3
  <2>2. CASE k # n
    <3>1. k \in 0..(n - 1) /\ h[k] = g[k]
      BY <2>2
    <3>2. g[k] = IF k = 0 THEN a ELSE F[k][g[k - 1]]
      BY <1>5, <3>1 DEF IsRun
    <3>3. k # 0 => h[k - 1] = g[k - 1]
      BY <3>1
    <3> QED BY <3>1, <3>2, <3>3
  <2> QED BY <2>1, <2>2
<1>7. IsRun(h, n, a, F)
  BY <1>6 DEF IsRun
<1> QED BY <1>2, <1>7

(* The value that TLA+ gives to a recursive definition is therefore the run's. *)
LEMMA RunChosen ==
  ASSUME NEW N \in Nat, NEW a, NEW F
  PROVE  IsRun(CHOOSE g : IsRun(g, N, a, F), N, a, F)
BY RunExists

-----------------------------------------------------------------------------
(* Rows of a book and their order. *)

OneSided(rows) == \A r, s \in rows : r.side = s.side

(* The order of the queue (compareItems) is total on the rows of one side. *)
LEMMA BeforeOrders ==
  ASSUME NEW rows, Sound(rows), OneSided(rows), NEW r \in rows, NEW s \in rows, NEW u \in rows
  PROVE  /\ ~Before(r, r)
         /\ r # s => Before(r, s) \/ Before(s, r)
         /\ Before(r, s) /\ Before(s, u) => Before(r, u)
<1>1. \A x \in rows : /\ x.price \in Nat /\ x.time \in Nat /\ x.seq \in Nat
                      /\ x.side = r.side
  BY DEF Sound, Row, OneSided
<1>2. \A x, y \in rows : x.seq = y.seq /\ (IsQuote(x) <=> IsQuote(y)) => x = y
  BY <1>1 DEF Sound
<1>3. ~Before(r, r)
  BY <1>1 DEF Before
<1>4. r # s => Before(r, s) \/ Before(s, r)
  BY <1>1, <1>2 DEF Before, IsQuote
<1>5. Before(r, s) /\ Before(s, u) => Before(r, u)
  BY <1>1 DEF Before
<1> QED BY <1>3, <1>4, <1>5

(* The rows in their order: every row once, each before the next ones. *)
LEMMA SortedOrders ==
  ASSUME NEW rows, Sound(rows), OneSided(rows)
  PROVE  /\ Sorted(rows) \in Seq(rows)
         /\ \A r \in rows : \E i \in DOMAIN Sorted(rows) : Sorted(rows)[i] = r
         /\ \A i, j \in DOMAIN Sorted(rows) :
              i < j => Before(Sorted(rows)[i], Sorted(rows)[j])
<1> DEFINE N == Cardinality(rows)
           Ahead(r) == {s \in rows : Before(s, r)}
           Rank(r) == Cardinality(Ahead(r))
           q == Sorted(rows)
<1>0. q = [k \in 1..N |-> CHOOSE r \in rows : Rank(r) = k - 1]
  BY Zenon DEF Sorted
<1>1. IsFiniteSet(rows) /\ N \in Nat
  BY FS_CardinalityType DEF Sound
<1>2. ASSUME NEW r \in rows
      PROVE  IsFiniteSet(Ahead(r)) /\ Rank(r) \in 0..(N - 1)
  <2>1. Ahead(r) \subseteq rows \ {r}
    BY BeforeOrders
  <2>2. IsFiniteSet(rows \ {r}) /\ Cardinality(rows \ {r}) = N - 1
    BY <1>1, FS_RemoveElement
  <2>3. IsFiniteSet(Ahead(r)) /\ Rank(r) \in Nat /\ Rank(r) <= N - 1
    BY <2>1, <2>2, FS_Subset, FS_CardinalityType
  <2> QED BY <2>3, <1>1
<1>3. ASSUME NEW r \in rows, NEW s \in rows, Before(r, s)
      PROVE  Rank(r) < Rank(s)
  <2>1. Ahead(r) \subseteq Ahead(s) /\ r \in Ahead(s) /\ r \notin Ahead(r)
    BY <1>3, BeforeOrders
  <2>2. IsFiniteSet(Ahead(r)) /\ IsFiniteSet(Ahead(s))
    BY <1>2
  <2>3. Rank(r) <= Rank(s) /\ (Rank(r) = Rank(s) => Ahead(r) = Ahead(s))
    BY <2>1, <2>2, FS_Subset
  <2> QED BY <2>1, <2>3, <1>2
<1>4. \A r, s \in rows : Rank(r) = Rank(s) => r = s
  <2> SUFFICES ASSUME NEW r \in rows, NEW s \in rows, r # s PROVE Rank(r) # Rank(s)
    OBVIOUS
  <2>1. Before(r, s) \/ Before(s, r)
    BY BeforeOrders
  <2> QED BY <2>1, <1>2, <1>3
<1>5. \A k \in 0..(N - 1) : \E r \in rows : Rank(r) = k
  <2> DEFINE D == 0..(N - 1)
             f == [r \in rows |-> Rank(r)]
  <2>1. f \in Injection(rows, D)
    BY <1>2, <1>4 DEF Injection, IsInjective
  <2>2. IsFiniteSet(D) /\ Cardinality(D) = N
    BY SMTT(30), <1>1, FS_Interval
  <2>3. f \in Surjection(rows, D)
    BY <2>1, <2>2, <1>1, FS_Injection
  <2> QED BY <2>3 DEF Surjection
<1>6. \A i \in 1..N : /\ q[i] \in rows /\ Rank(q[i]) = i - 1
  <2> TAKE i \in 1..N
  <2>1. i - 1 \in 0..(N - 1)
    BY <1>1
  <2>2. \E r \in rows : Rank(r) = i - 1
    BY <2>1, <1>5
  <2> DEFINE x == CHOOSE r \in rows : Rank(r) = i - 1
  <2>3. q[i] = x
    <3> HIDE DEF q, N, Rank
    <3> QED BY <1>0
  <2> HIDE DEF q, N, Rank
  <2>4. x \in rows /\ Rank(x) = i - 1
    BY <2>2
  <2> HIDE DEF x
  <2> QED BY <2>3, <2>4
<1>7. DOMAIN q = 1..N /\ Len(q) = N /\ q \in Seq(rows)
  <2> HIDE DEF q, N, Rank
  <2>1. q = [i \in 1..N |-> q[i]]
    BY <1>0
  <2>2. q \in [1..N -> rows]
    BY <2>1, <1>6
  <2> QED BY <2>2, <1>1
<1> HIDE DEF q, N, Rank
<1>8. \A r \in rows : \E i \in DOMAIN q : q[i] = r
  <2> TAKE r \in rows
  <2> DEFINE i == Rank(r) + 1
  <2>1. i \in 1..N /\ Rank(r) = i - 1
    <3>1. Rank(r) \in 0..(N - 1)
      BY <1>2
    <3> QED BY <3>1, <1>1
  <2> HIDE DEF i
  <2>2. q[i] = r
    BY <2>1, <1>6, <1>4
  <2> QED BY <2>1, <2>2, <1>7
<1>9. ASSUME NEW i \in DOMAIN q, NEW j \in DOMAIN q, i < j
      PROVE  Before(q[i], q[j])
  <2>1. q[i] \in rows /\ q[j] \in rows /\ Rank(q[i]) < Rank(q[j]) /\ q[i] # q[j]
    BY <1>6, <1>7, <1>9, <1>1
  <2>2. ~Before(q[j], q[i])
    <3>1. Rank(q[i]) \in Int /\ Rank(q[j]) \in Int
      BY <1>1, <1>6, <1>7
    <3> QED BY <2>1, <3>1, <1>3
  <2> QED BY <2>1, <2>2, BeforeOrders
<1> QED BY <1>7, <1>8, <1>9 DEF q

-----------------------------------------------------------------------------
(* What slices take from an order, and what rows have of it. *)

Slice == [oid: Orders \cup External, price: Nat, qty: Nat \ {0}]

(* What slices take of an order is a number. *)
LEMMA TakenNat ==
  ASSUME NEW slices \in Seq(Slice), NEW o
  PROVE  Taken(slices, o) \in Nat
<1> DEFINE D == {j \in DOMAIN slices : slices[j].oid = o}
           f == [i \in D |-> slices[i].qty]
<1>1. IsFiniteSet(D)
  BY FS_Interval, FS_Subset
<1>2. \A i \in D : f[i] \in Nat
  <2>1. \A i \in DOMAIN slices : slices[i] \in Slice
    OBVIOUS
  <2> QED BY <2>1 DEF Slice
<1>3. DOMAIN f = D
  OBVIOUS
<1> HIDE DEF f, D
<1>4. SumFunction(f) \in Nat
  BY <1>1, <1>2, <1>3, SumNat DEF SumFunction
<1> QED BY <1>4 DEF Taken, f, D

(* Slices of others take nothing of an order. *)
LEMMA TakenNone ==
  ASSUME NEW slices, NEW o, \A i \in DOMAIN slices : slices[i].oid # o
  PROVE  Taken(slices, o) = 0
<1> DEFINE f == [i \in {} |-> slices[i].qty]
<1>1. SumFunction(f) = 0
  BY SumEmpty DEF SumFunction
<1>2. {j \in DOMAIN slices : slices[j].oid = o} = {}
  OBVIOUS
<1> QED BY <1>1, <1>2 DEF Taken

(* One slice more takes its quantity more of its own order, of others nothing. *)
LEMMA TakenAppend ==
  ASSUME NEW slices \in Seq(Slice), NEW x \in Slice, NEW o
  PROVE  Taken(Append(slices, x), o)
           = IF x.oid = o THEN Taken(slices, o) + x.qty ELSE Taken(slices, o)
<1> DEFINE n == Len(slices) + 1
           more == Append(slices, x)
           D == {j \in DOMAIN slices : slices[j].oid = o}
           E == {j \in DOMAIN more : more[j].oid = o}
           f == [i \in D |-> slices[i].qty]
           g == [i \in E |-> more[i].qty]
<1>1. /\ DOMAIN more = DOMAIN slices \cup {n} /\ n \notin DOMAIN slices
      /\ more[n] = x
      /\ \A i \in DOMAIN slices : more[i] = slices[i]
  OBVIOUS
<1>2. IsFiniteSet(D) /\ n \notin D
  BY FS_Interval, FS_Subset
<1> HIDE DEF n, more
<1>3. E = IF x.oid = o THEN D \cup {n} ELSE D
  BY <1>1
<1>4. \A i \in D : f[i] \in Int /\ f[i] = g[i]
  <2>1. \A i \in DOMAIN slices : slices[i] \in Slice
    OBVIOUS
  <2>2. \A i \in D : i \in E /\ i \in DOMAIN slices
    BY <1>3
  <2> QED BY <1>1, <2>1, <2>2 DEF Slice
<1>5. x.oid = o => g[n] = x.qty /\ x.qty \in Int
  <2>1. x.oid = o => n \in E
    BY <1>3
  <2> QED BY <1>1, <2>1 DEF Slice
<1>6. DOMAIN f = D /\ DOMAIN g = E
  OBVIOUS
<1>7. Taken(slices, o) = SumFunctionOnSet(f, D)
  BY <1>6 DEF Taken, SumFunction
<1>8. Taken(more, o) = SumFunctionOnSet(g, E)
  BY <1>6 DEF Taken, SumFunction
<1> HIDE DEF f, g, D, E
<1>9. SumFunctionOnSet(g, D) = SumFunctionOnSet(f, D) /\ SumFunctionOnSet(f, D) \in Int
  BY <1>2, <1>4, SumAgree, SumInt
<1>10. CASE x.oid = o
  <2>1. SumFunctionOnSet(g, D \cup {n}) = g[n] + SumFunctionOnSet(g, D)
    BY <1>2, <1>4, <1>5, <1>10, SumAdd
  <2> QED BY <2>1, <1>3, <1>5, <1>7, <1>8, <1>9, <1>10 DEF more
<1>11. CASE x.oid # o
  BY <1>3, <1>7, <1>8, <1>9, <1>11 DEF more
<1> QED BY <1>10, <1>11

Amount(r) == r.qty + r.hidden

(* What rows hold of an order is the sum of what its rows show and hide. *)
LEMMA LeftSum ==
  ASSUME NEW rows \in SUBSET Row, IsFiniteSet(rows), NEW o
  PROVE  /\ Left(rows, o) \in Nat
         /\ \A f : (\A r \in rows : r.oid = o => f[r] = Amount(r)) =>
              Left(rows, o) = SumFunctionOnSet(f, {s \in rows : s.oid = o})
<1> DEFINE D == {s \in rows : s.oid = o}
           g == [r \in D |-> r.qty + r.hidden]
<1>1. IsFiniteSet(D)
  BY FS_Subset
<1>2. \A r \in D : g[r] \in Nat /\ g[r] = Amount(r) /\ r \in rows /\ r.oid = o
  BY DEF Amount, Row
<1>3. DOMAIN g = D
  OBVIOUS
<1>4. Left(rows, o) = SumFunctionOnSet(g, D)
  BY <1>3 DEF Left, SumFunction
<1> HIDE DEF D, g
<1>5. SumFunctionOnSet(g, D) \in Nat
  BY <1>1, <1>2, SumNat
<1>6. ASSUME NEW f, \A r \in rows : r.oid = o => f[r] = Amount(r)
      PROVE  SumFunctionOnSet(g, D) = SumFunctionOnSet(f, D)
  <2>1. \A r \in D : g[r] \in Int /\ g[r] = f[r]
    BY <1>2, <1>6
  <2> QED BY <2>1, <1>1, SumAgree
<1> QED BY <1>4, <1>5, <1>6 DEF D

(* Rows of others hold nothing of an order. *)
LEMMA LeftNone ==
  ASSUME NEW rows, NEW o, \A r \in rows : r.oid # o
  PROVE  Left(rows, o) = 0
<1> DEFINE f == [r \in {} |-> r.qty + r.hidden]
<1>1. SumFunction(f) = 0
  BY SumEmpty DEF SumFunction
<1>2. {s \in rows : s.oid = o} = {}
  OBVIOUS
<1> QED BY <1>1, <1>2 DEF Left

(* An order with one row has there what it has. *)
LEMMA LeftOne ==
  ASSUME NEW rows \in SUBSET Row, IsFiniteSet(rows), NEW r \in rows,
         \A s \in rows : s.oid = r.oid => s = r
  PROVE  Left(rows, r.oid) = Amount(r)
<1> DEFINE f == [s \in {r} |-> Amount(s)]
<1>1. {s \in rows : s.oid = r.oid} = {r}
  OBVIOUS
<1>2. \A s \in rows : s.oid = r.oid => f[s] = Amount(s)
  OBVIOUS
<1>3. f[r] = Amount(r) /\ f[r] \in Int
  BY DEF Amount, Row
<1> HIDE DEF f
<1>4. Left(rows, r.oid) = SumFunctionOnSet(f, {r})
  BY <1>1, <1>2, LeftSum
<1> QED BY <1>3, <1>4, SumOne

(* What two sets of rows hold together. *)
LEMMA LeftUnion ==
  ASSUME NEW A \in SUBSET Row, IsFiniteSet(A), NEW B \in SUBSET Row, IsFiniteSet(B),
         A \cap B = {}, NEW o
  PROVE  Left(A \cup B, o) = Left(A, o) + Left(B, o)
<1> DEFINE f == [s \in A \cup B |-> Amount(s)]
           D(rows) == {s \in rows : s.oid = o}
<1>1. IsFiniteSet(A \cup B)
  BY FS_Union
<1>2. \A s \in A \cup B : f[s] = Amount(s) /\ f[s] \in Int
  BY DEF Amount, Row
<1>3. D(A \cup B) = D(A) \cup D(B) /\ D(A) \cap D(B) = {}
  OBVIOUS
<1>4. IsFiniteSet(D(A)) /\ IsFiniteSet(D(B))
  BY FS_Subset
<1> HIDE DEF f
<1>5. /\ Left(A \cup B, o) = SumFunctionOnSet(f, D(A \cup B))
      /\ Left(A, o) = SumFunctionOnSet(f, D(A))
      /\ Left(B, o) = SumFunctionOnSet(f, D(B))
  BY <1>1, <1>2, LeftSum
<1>6. \A s \in D(A) \cup D(B) : f[s] \in Int
  BY <1>2
<1> HIDE DEF D
<1>7. SumFunctionOnSet(f, D(A) \cup D(B)) = SumFunctionOnSet(f, D(A)) + SumFunctionOnSet(f, D(B))
  BY <1>3, <1>4, <1>6, SumUnion
<1> QED BY <1>3, <1>5, <1>7

-----------------------------------------------------------------------------
(* One step of the walk. *)

WalkState == [queue: Seq(Row), left: Nat, slices: Seq(Slice), seq: Nat]

(* The rows behind the first move up, to position k; those after k keep theirs. *)
MovesUp(new, old, k) ==
  \A i \in DOMAIN new : i # k => new[i] = old[IF i < k THEN i + 1 ELSE i]

(* A lot rejoins the queue behind the last row of its price; rows keep their
   order. *)
LEMMA RequeuePlaces ==
  ASSUME NEW queue \in Seq(Row), NEW lot \in Row
  PROVE  \E k \in 1..(Len(queue) + 1) :
           /\ Requeue(queue, lot) \in Seq(Row)
           /\ Len(Requeue(queue, lot)) = Len(queue) + 1
           /\ \A i \in 1..(Len(queue) + 1) :
                Requeue(queue, lot)[i] = IF i < k THEN queue[i]
                                         ELSE IF i = k THEN lot ELSE queue[i - 1]
           /\ \A i \in DOMAIN queue : queue[i].price = lot.price => i < k
           /\ k > 1 => queue[k - 1].price = lot.price
<1> DEFINE level == {i \in DOMAIN queue : queue[i].price = lot.price}
           m == Max(level \cup {0})
           k == m + 1
<1>1. /\ level \cup {0} \in SUBSET Nat /\ IsFiniteSet(level \cup {0})
      /\ level \cup {0} # {} /\ level \subseteq 1..Len(queue)
  <2>1. IsFiniteSet(level)
    BY FS_Interval, FS_Subset
  <2>2. level \subseteq 1..Len(queue) /\ level \cup {0} \in SUBSET Nat
    OBVIOUS
  <2> HIDE DEF level
  <2> QED BY <2>1, <2>2, FS_AddElement
<1>2. m \in level \cup {0} /\ \A i \in level \cup {0} : i <= m
  <2> HIDE DEF level
  <2> QED BY <1>1, MaxOfSet
<1>3. Requeue(queue, lot) = SubSeq(queue, 1, m) \o <<lot>> \o SubSeq(queue, m + 1, Len(queue))
  <2>1. Requeue(queue, lot)
          = SubSeq(queue, 1, k - 1) \o <<lot>> \o SubSeq(queue, k, Len(queue))
    BY DEF Requeue, InsertAt
  <2>2. k - 1 = m
    BY <1>1, <1>2
  <2> QED BY <2>1, <2>2
<1>4. m \in 0..Len(queue)
  BY <1>1, <1>2
<1> HIDE DEF m
<1> DEFINE new == SubSeq(queue, 1, m) \o <<lot>> \o SubSeq(queue, m + 1, Len(queue))
<1>5. /\ new \in Seq(Row) /\ Len(new) = Len(queue) + 1
      /\ \A i \in 1..(Len(queue) + 1) :
           new[i] = IF i < m + 1 THEN queue[i] ELSE IF i = m + 1 THEN lot ELSE queue[i - 1]
  <2> DEFINE A == SubSeq(queue, 1, m)
             B == SubSeq(queue, m + 1, Len(queue))
             C == A \o <<lot>>
  <2>1. A \in Seq(Row) /\ Len(A) = m /\ \A i \in 1..m : A[i] = queue[i]
    BY <1>4
  <2>2. /\ B \in Seq(Row) /\ Len(B) = Len(queue) - m
        /\ \A i \in 1..(Len(queue) - m) : B[i] = queue[m + i]
    BY <1>4
  <2> HIDE DEF A, B
  <2>3. /\ C \in Seq(Row) /\ Len(C) = m + 1 /\ C[m + 1] = lot
        /\ \A i \in 1..m : C[i] = queue[i]
    BY <2>1, <1>4
  <2> HIDE DEF C
  <2>4. new = C \o B
    BY DEF A, B, C
  <2> HIDE DEF new
  <2>5. new \in Seq(Row) /\ Len(new) = Len(queue) + 1
    BY <2>2, <2>3, <2>4, <1>4
  <2>6. ASSUME NEW i \in 1..(Len(queue) + 1)
        PROVE  new[i] = IF i < m + 1 THEN queue[i] ELSE IF i = m + 1 THEN lot ELSE queue[i - 1]
    <3>1. CASE i <= m + 1
      BY <2>2, <2>3, <2>4, <1>4, <3>1
    <3>2. CASE i > m + 1
      <4>1. new[i] = B[i - (m + 1)] /\ i - (m + 1) \in 1..(Len(queue) - m)
        BY <2>2, <2>3, <2>4, <1>4, <3>2
      <4>2. m + (i - (m + 1)) = i - 1
        BY <1>4
      <4>3. B[i - (m + 1)] = queue[m + (i - (m + 1))]
        BY <2>2, <4>1
      <4> QED BY <4>1, <4>2, <4>3, <3>2, <1>4
    <3> QED BY <3>1, <3>2, <1>4
  <2> QED BY <2>5, <2>6
<1>6. \A i \in level : i < k
  BY <1>1, <1>2, <1>4
<1>7. k > 1 => k - 1 \in level
  BY <1>2, <1>4
<1>8. Requeue(queue, lot) = new
  BY <1>3
<1>9. k \in 1..(Len(queue) + 1)
  BY <1>4
<1>10. \A i \in DOMAIN queue : queue[i].price = lot.price => i < k
  BY <1>6
<1>11. k > 1 => queue[k - 1].price = lot.price
  BY <1>7
<1> HIDE DEF new, level
<1> QED BY <1>5, <1>8, <1>9, <1>10, <1>11

(* The next lot of an iceberg has what was hidden, and the time of the last of its
   level. *)
LEMMA RevealShows ==
  ASSUME NEW e \in Row, e.hidden > 0, NEW level \in SUBSET Row, IsFiniteSet(level), level # {},
         NEW n \in Nat
  PROVE  LET lot == Reveal(e, level, n)
         IN  /\ lot \in Row /\ lot.oid = e.oid /\ lot.side = e.side /\ lot.price = e.price
             /\ lot.display = e.display /\ lot.seq = n /\ Amount(lot) = e.hidden
             /\ \E s \in level : lot.time = s.time
<1> DEFINE times == {s.time : s \in level}
           show == Min({e.display, e.hidden})
           lot == Reveal(e, level, n)
<1>1. Max(times) \in times
  <2>1. IsFiniteSet(times)
    <3> DEFINE f == [s \in level |-> s.time]
    <3>1. IsFiniteSet({f[s] : s \in level})
      BY ImageFinite
    <3>2. {f[s] : s \in level} = times
      OBVIOUS
    <3> QED BY <3>1, <3>2
  <2>2. times \in SUBSET Nat /\ times # {}
    BY DEF Row
  <2> HIDE DEF times
  <2> QED BY <2>1, <2>2, MaxOfSet
<1>2. PICK s \in level : Max(times) = s.time
  BY <1>1
<1>3. show \in Nat /\ show > 0 /\ show <= e.hidden
  <2>1. e.display \in Nat \ {0} /\ e.hidden \in Nat
    BY DEF Row
  <2>2. show \in {e.display, e.hidden} /\ show <= e.display /\ show <= e.hidden
    <3>1. e.display \in Int /\ e.hidden \in Int
      BY <2>1
    <3> QED BY ONLY <3>1, MinOfTwo
  <2> HIDE DEF show
  <2> QED BY <2>1, <2>2
<1>4. lot = [e EXCEPT !.qty = show, !.hidden = @ - show, !.seq = n, !.time = s.time]
  BY <1>2 DEF Reveal
<1>5. s.time \in Nat
  BY DEF Row
<1> HIDE DEF show, lot
<1>6. /\ lot.oid = e.oid /\ lot.side = e.side /\ lot.price = e.price /\ lot.time = s.time
      /\ lot.display = e.display /\ lot.seq = n /\ lot.qty = show /\ lot.hidden = e.hidden - show
  BY <1>4 DEF Row
<1>7. lot \in Row
  <2>1. lot = [oid |-> e.oid, side |-> e.side, price |-> e.price, qty |-> show,
               hidden |-> e.hidden - show, display |-> e.display, time |-> s.time, seq |-> n]
    BY <1>4 DEF Row
  <2>2. e.hidden - show \in Nat
    BY <1>3 DEF Row
  <2> QED BY <1>3, <1>5, <2>1, <2>2 DEF Row
<1>8. Amount(lot) = e.hidden
  BY <1>3, <1>6 DEF Amount, Row
<1> QED BY <1>6, <1>7, <1>8 DEF lot

(* What Match does: it takes from the first row, which stays first, leaves the queue,
   or shows its next lot behind the last row of its price. *)
LEMMA MatchSteps ==
  ASSUME NEW start \in SUBSET Row, IsFiniteSet(start), NEW w \in WalkState, ~Done(w),
         \E s \in start : s.price = w.queue[1].price
  PROVE  LET e == w.queue[1]
             v == Match(w, start)
         IN  \E take \in Nat \ {0} :
               /\ e \in Row /\ take <= e.qty /\ take <= w.left
               /\ v \in WalkState /\ v.left = w.left - take
               /\ v.slices = Append(w.slices, [oid |-> e.oid, price |-> e.price, qty |-> take])
               /\ [oid |-> e.oid, price |-> e.price, qty |-> take] \in Slice
               /\ \/ /\ take < e.qty /\ v.seq = w.seq /\ Len(v.queue) = Len(w.queue)
                     /\ v.queue[1] = [e EXCEPT !.qty = @ - take]
                     /\ \A i \in 2..Len(w.queue) : v.queue[i] = w.queue[i]
                  \/ /\ take = e.qty /\ e.hidden = 0 /\ v.seq = w.seq
                     /\ Len(v.queue) = Len(w.queue) - 1
                     /\ MovesUp(v.queue, w.queue, Len(w.queue))
                  \/ /\ take = e.qty /\ e.hidden > 0 /\ v.seq = w.seq + 1
                     /\ Len(v.queue) = Len(w.queue)
                     /\ \E k \in DOMAIN w.queue :
                          /\ MovesUp(v.queue, w.queue, k)
                          /\ v.queue[k]
                               = Reveal(e, {s \in start : s.price = e.price}, w.seq + 1)
                          /\ \A i \in DOMAIN w.queue : w.queue[i].price = e.price => i <= k
                          /\ k > 1 => w.queue[k].price = e.price
<1> DEFINE e == w.queue[1]
           rest == Tail(w.queue)
           take == Min({w.left, e.qty})
           level == {s \in start : s.price = e.price}
           lot == Reveal(e, level, w.seq + 1)
           slice == [oid |-> e.oid, price |-> e.price, qty |-> take]
           v == Match(w, start)
<1>1. /\ w.queue \in Seq(Row) /\ w.queue # <<>> /\ w.left \in Nat /\ w.left # 0
      /\ w.slices \in Seq(Slice) /\ w.seq \in Nat
  BY DEF WalkState, Done
<1>2. e \in Row /\ rest \in Seq(Row) /\ Len(rest) = Len(w.queue) - 1 /\ Len(w.queue) \in Nat \ {0}
      /\ Head(w.queue) = e /\ \A i \in 1..Len(rest) : rest[i] = w.queue[i + 1]
  BY <1>1
<1>3. take \in Nat \ {0} /\ take <= e.qty /\ take <= w.left
  <2>1. e.qty \in Nat \ {0}
    BY <1>2 DEF Row
  <2>2. take \in {w.left, e.qty} /\ take <= w.left /\ take <= e.qty
    <3>1. w.left \in Int /\ e.qty \in Int
      BY <1>1, <2>1
    <3> HIDE DEF e
    <3> QED BY ONLY <3>1, MinOfTwo
  <2> HIDE DEF take, e
  <2> QED BY <1>1, <2>1, <2>2
<1>4. slice \in Slice
  BY <1>2, <1>3 DEF Slice, Row
<1>5. /\ v.queue = IF take < e.qty THEN <<[e EXCEPT !.qty = @ - take]>> \o rest
                   ELSE IF e.hidden = 0 THEN rest ELSE Requeue(rest, lot)
      /\ v.left = w.left - take
      /\ v.slices = Append(w.slices, slice)
      /\ v.seq = IF take < e.qty \/ e.hidden = 0 THEN w.seq ELSE w.seq + 1
      /\ v = [queue |-> v.queue, left |-> v.left, slices |-> v.slices, seq |-> v.seq]
  BY <1>2 DEF Match
<1>6. v.left \in Nat /\ v.seq \in Nat /\ v.slices \in Seq(Slice)
  BY SMTT(30), <1>1, <1>3, <1>4, <1>5
<1> HIDE DEF v, take, slice, lot
<1>7. CASE take < e.qty
  <2> DEFINE f == [e EXCEPT !.qty = @ - take]
  <2>1. f \in Row
    <3>1. e.qty - take \in Nat \ {0}
      <4>1. e.qty \in Nat
        BY <1>2 DEF Row
      <4> HIDE DEF e
      <4> QED BY <4>1, <1>3, <1>7
    <3> QED BY <1>2, <3>1 DEF Row
  <2>2. v.queue = <<f>> \o rest /\ v.seq = w.seq
    BY <1>5, <1>7
  <2> HIDE DEF f
  <2>3. v.queue \in Seq(Row) /\ Len(v.queue) = Len(w.queue) /\ v.queue[1] = f
        /\ \A i \in 2..Len(w.queue) : v.queue[i] = w.queue[i]
    BY SMTT(30), <2>1, <2>2, <1>2
  <2>4. v \in WalkState
    BY <1>5, <1>6, <2>3 DEF WalkState
  <2> QED BY <1>2, <1>3, <1>4, <1>5, <1>7, <2>2, <2>3, <2>4 DEF f, slice, v
<1>8. CASE take = e.qty /\ e.hidden = 0
  <2>1. v.queue = rest /\ v.seq = w.seq
    BY <1>5, <1>8, <1>3
  <2>2. MovesUp(v.queue, w.queue, Len(w.queue))
    BY <2>1, <1>2 DEF MovesUp
  <2>3. v \in WalkState
    BY <1>5, <1>6, <2>1, <1>2 DEF WalkState
  <2> QED BY <1>2, <1>3, <1>4, <1>5, <1>8, <2>1, <2>2, <2>3 DEF slice, v
<1>9. CASE take = e.qty /\ e.hidden # 0
  <2>0. e.hidden > 0
    <3>1. e.hidden \in Nat
      BY <1>2 DEF Row
    <3> QED BY <1>9, <3>1
  <2>1. v.queue = Requeue(rest, lot) /\ v.seq = w.seq + 1
    BY <1>5, <1>9, <1>3
  <2>2. lot \in Row /\ lot.price = e.price
    <3>1. level \in SUBSET Row /\ IsFiniteSet(level) /\ level # {}
      BY FS_Subset
    <3> HIDE DEF level
    <3>2. w.seq + 1 \in Nat
      BY <1>1
    <3> QED BY <3>1, <3>2, <2>0, <1>2, RevealShows DEF lot
  <2>3. PICK k \in 1..(Len(rest) + 1) :
           /\ v.queue \in Seq(Row)
           /\ Len(v.queue) = Len(rest) + 1
           /\ \A i \in 1..(Len(rest) + 1) :
                v.queue[i] = IF i < k THEN rest[i] ELSE IF i = k THEN lot ELSE rest[i - 1]
           /\ \A i \in DOMAIN rest : rest[i].price = lot.price => i < k
           /\ k > 1 => rest[k - 1].price = lot.price
    <3>1. rest \in Seq(Row) /\ lot \in Row
      BY <1>2, <2>2
    <3> HIDE DEF rest
    <3>2. \E k \in 1..(Len(rest) + 1) :
           /\ Requeue(rest, lot) \in Seq(Row)
           /\ Len(Requeue(rest, lot)) = Len(rest) + 1
           /\ \A i \in 1..(Len(rest) + 1) :
                Requeue(rest, lot)[i] = IF i < k THEN rest[i]
                                         ELSE IF i = k THEN lot ELSE rest[i - 1]
           /\ \A i \in DOMAIN rest : rest[i].price = lot.price => i < k
           /\ k > 1 => rest[k - 1].price = lot.price
      BY ONLY <3>1, RequeuePlaces
    <3> QED BY ONLY <2>1, <3>2
  <2>4. k \in DOMAIN w.queue /\ Len(v.queue) = Len(w.queue) /\ v.queue[k] = lot
    BY <2>3, <1>1, <1>2
  <2>5. MovesUp(v.queue, w.queue, k)
    <3> SUFFICES ASSUME NEW i \in DOMAIN v.queue, i # k
                 PROVE  v.queue[i] = w.queue[IF i < k THEN i + 1 ELSE i]
      BY DEF MovesUp
    <3>1. i \in 1..(Len(rest) + 1)
      BY <2>3
    <3>2. CASE i < k
      <4>1. i \in 1..Len(rest) /\ v.queue[i] = rest[i]
        BY <2>3, <3>1, <3>2
      <4> QED BY <4>1, <1>2, <3>2
    <3>3. CASE i > k
      <4>1. i - 1 \in 1..Len(rest) /\ v.queue[i] = rest[i - 1]
        BY <2>3, <3>1, <3>3
      <4>2. rest[i - 1] = w.queue[(i - 1) + 1] /\ (i - 1) + 1 = i
        BY <4>1, <1>2, <3>1
      <4> QED BY <4>1, <4>2, <3>3, <3>1
    <3> QED BY <3>1, <3>2, <3>3
  <2>6. \A i \in DOMAIN w.queue : w.queue[i].price = e.price => i <= k
    <3> TAKE i \in DOMAIN w.queue
    <3>1. CASE i = 1
      BY <3>1
    <3>2. CASE i # 1
      <4>1. i - 1 \in DOMAIN rest /\ rest[i - 1] = w.queue[i]
        BY <3>2, <1>1, <1>2
      <4>2. i - 1 < k \/ w.queue[i].price # e.price
        BY <4>1, <2>2, <2>3
      <4> QED BY <4>2, <2>3
    <3> QED BY <3>1, <3>2
  <2>7. k > 1 => w.queue[k].price = e.price
    <3> HAVE k > 1
    <3>1. k - 1 \in 1..Len(rest)
      BY <2>3
    <3> QED BY <3>1, <1>2, <2>2, <2>3
  <2>8. v \in WalkState
    BY <1>5, <1>6, <2>3 DEF WalkState
  <2> QED BY <1>2, <1>3, <1>4, <1>5, <1>9, <2>0, <2>1, <2>4, <2>5, <2>6, <2>7, <2>8
          DEF slice, lot, v
<1>10. take < e.qty \/ take = e.qty
  <2>1. e.qty \in Nat
    BY <1>2 DEF Row
  <2> HIDE DEF e
  <2> QED BY <1>3, <2>1
<1> QED BY <1>7, <1>8, <1>9, <1>10

(* Which row each place of the next queue holds: J names the place it had.  The first
   row stays first, leaves, or rejoins behind the last row of its price. *)
Places(J, v, w, start, take) ==
  LET e == w.queue[1]
  IN  /\ J \in [DOMAIN v.queue -> DOMAIN w.queue]
      /\ \A i \in DOMAIN J : J[i] # 1 => v.queue[i] = w.queue[J[i]]
      /\ \A j \in DOMAIN w.queue : j # 1 => \E i \in DOMAIN J : J[i] = j
      /\ \A i, j \in DOMAIN J : J[i] = J[j] => i = j
      /\ \A i, j \in DOMAIN J : i < j /\ J[i] # 1 /\ J[j] # 1 => J[i] < J[j]
      /\ \/ /\ take < e.qty /\ v.seq = w.seq
            /\ 1 \in DOMAIN J /\ J[1] = 1 /\ v.queue[1] = [e EXCEPT !.qty = @ - take]
         \/ /\ take = e.qty /\ e.hidden = 0 /\ v.seq = w.seq
            /\ \A i \in DOMAIN J : J[i] # 1
         \/ /\ take = e.qty /\ e.hidden > 0 /\ v.seq = w.seq + 1
            /\ \E k \in DOMAIN J :
                 /\ J[k] = 1 /\ k \in DOMAIN w.queue /\ w.queue[k].price = e.price
                 /\ v.queue[k] = Reveal(e, {s \in start : s.price = e.price}, w.seq + 1)
                 /\ \A i \in DOMAIN J : i < k => J[i] <= k
                 /\ \A i \in DOMAIN J : i > k => w.queue[J[i]].price # e.price

(* One step of the walk takes from the first row of the queue and puts every other
   row where the queue had it. *)
LEMMA MatchPlaces ==
  ASSUME NEW start \in SUBSET Row, IsFiniteSet(start), NEW w \in WalkState, ~Done(w),
         \E s \in start : s.price = w.queue[1].price
  PROVE  LET e == w.queue[1]
             v == Match(w, start)
         IN  \E take \in Nat \ {0} : \E J :
               /\ e \in Row /\ take <= e.qty /\ take <= w.left
               /\ v \in WalkState /\ v.left = w.left - take
               /\ v.slices = Append(w.slices, [oid |-> e.oid, price |-> e.price, qty |-> take])
               /\ [oid |-> e.oid, price |-> e.price, qty |-> take] \in Slice
               /\ Places(J, v, w, start, take)
<1> DEFINE e == w.queue[1]
           v == Match(w, start)
           slice(take) == [oid |-> e.oid, price |-> e.price, qty |-> take]
           lot == Reveal(e, {s \in start : s.price = e.price}, w.seq + 1)
<1>1. PICK take \in Nat \ {0} :
               /\ e \in Row /\ take <= e.qty /\ take <= w.left
               /\ v \in WalkState /\ v.left = w.left - take
               /\ v.slices = Append(w.slices, slice(take)) /\ slice(take) \in Slice
               /\ \/ /\ take < e.qty /\ v.seq = w.seq /\ Len(v.queue) = Len(w.queue)
                     /\ v.queue[1] = [e EXCEPT !.qty = @ - take]
                     /\ \A i \in 2..Len(w.queue) : v.queue[i] = w.queue[i]
                  \/ /\ take = e.qty /\ e.hidden = 0 /\ v.seq = w.seq
                     /\ Len(v.queue) = Len(w.queue) - 1
                     /\ MovesUp(v.queue, w.queue, Len(w.queue))
                  \/ /\ take = e.qty /\ e.hidden > 0 /\ v.seq = w.seq + 1
                     /\ Len(v.queue) = Len(w.queue)
                     /\ \E k \in DOMAIN w.queue :
                          /\ MovesUp(v.queue, w.queue, k)
                          /\ v.queue[k] = lot
                          /\ \A i \in DOMAIN w.queue : w.queue[i].price = e.price => i <= k
                          /\ k > 1 => w.queue[k].price = e.price
  BY ZenonT(30), MatchSteps
<1> DEFINE n == Len(w.queue)
<1>2. /\ w.queue \in Seq(Row) /\ n \in Nat /\ DOMAIN w.queue = 1..n /\ n >= 1
      /\ v.queue \in Seq(Row) /\ DOMAIN v.queue = 1..Len(v.queue)
  BY <1>1 DEF WalkState, Done
<1> HIDE DEF v, n, e, lot
<1>3. ASSUME NEW J, Places(J, v, w, start, take)
      PROVE  \E t \in Nat \ {0} : \E K :
               /\ e \in Row /\ t <= e.qty /\ t <= w.left
               /\ v \in WalkState /\ v.left = w.left - t
               /\ v.slices = Append(w.slices, slice(t)) /\ slice(t) \in Slice
               /\ Places(K, v, w, start, t)
  BY <1>1, <1>3
<1>4. CASE /\ take < e.qty /\ v.seq = w.seq /\ Len(v.queue) = Len(w.queue)
           /\ v.queue[1] = [e EXCEPT !.qty = @ - take]
           /\ \A i \in 2..Len(w.queue) : v.queue[i] = w.queue[i]
  <2> DEFINE J == [i \in 1..n |-> i]
  <2>1. Places(J, v, w, start, take)
    BY <1>2, <1>4 DEF Places, e, n
  <2> HIDE DEF J
  <2> QED BY <1>3, <2>1 DEF v, e
<1>5. CASE /\ take = e.qty /\ e.hidden = 0 /\ v.seq = w.seq
           /\ Len(v.queue) = Len(w.queue) - 1
           /\ MovesUp(v.queue, w.queue, Len(w.queue))
  <2> DEFINE J == [i \in 1..(n - 1) |-> i + 1]
  <2>1. DOMAIN v.queue = 1..(n - 1) /\ J \in [DOMAIN v.queue -> DOMAIN w.queue]
    BY <1>2, <1>5 DEF n
  <2>2. \A i \in DOMAIN J : J[i] # 1 /\ v.queue[i] = w.queue[J[i]]
    <3> TAKE i \in DOMAIN J
    <3>1. i \in 1..(n - 1) /\ i \in DOMAIN v.queue /\ i # n /\ i < n /\ J[i] = i + 1
      BY <2>1, <1>2
    <3>2. v.queue[i] = w.queue[IF i < n THEN i + 1 ELSE i]
      BY <3>1, <1>5 DEF MovesUp, n
    <3> QED BY <3>1, <3>2
  <2>3. \A j \in DOMAIN w.queue : j # 1 => \E i \in DOMAIN J : J[i] = j
    <3> TAKE j \in DOMAIN w.queue
    <3> HAVE j # 1
    <3>1. j - 1 \in DOMAIN J /\ J[j - 1] = j
      BY <1>2
    <3> QED BY <3>1
  <2>4. \A i, j \in DOMAIN J : (J[i] = J[j] => i = j) /\ (i < j => J[i] < J[j])
    OBVIOUS
  <2> HIDE DEF J
  <2>5. Places(J, v, w, start, take)
    BY <2>1, <2>2, <2>3, <2>4, <1>5 DEF Places, e
  <2> QED BY <1>3, <2>5 DEF v, e
<1>6. CASE /\ take = e.qty /\ e.hidden > 0 /\ v.seq = w.seq + 1
           /\ Len(v.queue) = Len(w.queue)
           /\ \E k \in DOMAIN w.queue :
                /\ MovesUp(v.queue, w.queue, k)
                /\ v.queue[k] = lot
                /\ \A i \in DOMAIN w.queue : w.queue[i].price = e.price => i <= k
                /\ k > 1 => w.queue[k].price = e.price
  <2>0. PICK k \in 1..n :
                /\ MovesUp(v.queue, w.queue, k)
                /\ v.queue[k] = lot
                /\ \A i \in DOMAIN w.queue : w.queue[i].price = e.price => i <= k
                /\ k > 1 => w.queue[k].price = e.price
    BY <1>2, <1>6
  <2> DEFINE J == [i \in 1..n |-> IF i < k THEN i + 1 ELSE IF i = k THEN 1 ELSE i]
  <2>1. DOMAIN v.queue = 1..n /\ J \in [DOMAIN v.queue -> DOMAIN w.queue] /\ DOMAIN J = 1..n
    BY <1>2, <1>6 DEF n
  <2>2. \A i \in 1..n : J[i] # 1 => v.queue[i] = w.queue[J[i]]
    BY <2>0, <2>1, <1>2 DEF MovesUp
  <2>3. \A j \in 1..n : j # 1 => \E i \in 1..n : J[i] = j
    <3> TAKE j \in 1..n
    <3> HAVE j # 1
    <3>1. CASE j <= k
      <4>1. j - 1 \in 1..n /\ J[j - 1] = j
        BY <1>2, <3>1
      <4> QED BY <4>1
    <3>2. CASE j > k
      BY <3>2
    <3> QED BY <3>1, <3>2
  <2>4. \A i, j \in 1..n : /\ J[i] = J[j] => i = j
                           /\ i < j /\ J[i] # 1 /\ J[j] # 1 => J[i] < J[j]
    OBVIOUS
  <2>5. /\ J[k] = 1 /\ \A i \in 1..n : i < k => J[i] <= k
        /\ \A i \in 1..n : i > k => J[i] > k
    OBVIOUS
  <2>6. w.queue[k].price = e.price
    BY <2>0 DEF e
  <2>7. \A i \in 1..n : i > k => w.queue[J[i]].price # e.price
    BY <2>0, <2>1, <2>5, <1>2
  <2> HIDE DEF J
  <2>8. Places(J, v, w, start, take)
    BY <2>0, <2>1, <2>2, <2>3, <2>4, <2>5, <2>6, <2>7, <1>2, <1>6 DEF Places, e, lot
  <2> QED BY <1>3, <2>8 DEF v, e
<1> QED BY <1>1, <1>4, <1>5, <1>6

-----------------------------------------------------------------------------
(* The walk keeps its ledger: what a row has lost is what the slices say, and a row
   that is not in the queue any more was taken whole. *)

(* The first lot of row r is not used up. *)
Fresh(r, w) == Taken(w.slices, r.oid) < r.qty

(* e is what the walk has left of row r.  A lot shown later has a number above floor and
   the clock of a row. *)
Remains(e, r, w, start, floor) ==
  /\ e.oid = r.oid /\ e.side = r.side /\ e.price = r.price /\ e.display = r.display
  /\ Taken(w.slices, r.oid) + Amount(e) = Amount(r)
  /\ IF Fresh(r, w)
     THEN e.hidden = r.hidden /\ e.time = r.time /\ e.seq = r.seq
     ELSE r.hidden > 0 /\ e.seq > floor /\ \E s \in start : e.time = s.time

Ledger(w, start, floor) ==
  /\ w \in WalkState /\ floor <= w.seq
  /\ \A i \in DOMAIN w.queue : \E r \in start : Remains(w.queue[i], r, w, start, floor)
  /\ \A i, j \in DOMAIN w.queue : w.queue[i].oid = w.queue[j].oid => i = j
  /\ \A r \in start : \/ \E i \in DOMAIN w.queue : w.queue[i].oid = r.oid
                      \/ Taken(w.slices, r.oid) = Amount(r)
  /\ \A i \in DOMAIN w.slices : \E r \in start : w.slices[i].oid = r.oid

(* Numbers stay apart, and below the counter. *)
Numbered(w) ==
  /\ \A i \in DOMAIN w.queue : w.queue[i].seq <= w.seq
  /\ \A i, j \in DOMAIN w.queue :
       w.queue[i].seq = w.queue[j].seq /\ (IsQuote(w.queue[i]) <=> IsQuote(w.queue[j])) => i = j

Limits(start, floor) == floor \in Nat /\ \A r \in start : r.seq <= floor

(* Step v of walk w takes from row h, the origin of the first of the queue. *)
Moves(take, J, h, v, w, start, floor) ==
  LET e == w.queue[1]
  IN  /\ e \in Row /\ take <= e.qty /\ take <= w.left
      /\ v \in WalkState /\ v.left = w.left - take
      /\ 1 \in DOMAIN w.queue
      /\ Remains(e, h, w, start, floor)
      /\ \A o : Taken(v.slices, o) = IF o = h.oid THEN Taken(w.slices, o) + take
                                     ELSE Taken(w.slices, o)
      /\ \A o : Taken(w.slices, o) \in Nat
      /\ \A i \in DOMAIN v.slices : \E r \in start : v.slices[i].oid = r.oid
      /\ Places(J, v, w, start, take)

(* Every row the walk meets is a row it started with, or a later lot of one. *)
LEMMA MatchOrigin ==
  ASSUME NEW start, Sound(start), OneSided(start), NEW floor, NEW w,
         Ledger(w, start, floor), ~Done(w)
  PROVE  \E take \in Nat \ {0}, h \in start : \E J :
           Moves(take, J, h, Match(w, start), w, start, floor)
<1> DEFINE e == w.queue[1]
           v == Match(w, start)
           slice(take) == [oid |-> e.oid, price |-> e.price, qty |-> take]
<1>1. /\ w \in WalkState /\ w.queue \in Seq(Row) /\ w.slices \in Seq(Slice)
      /\ 1 \in DOMAIN w.queue
  BY DEF Ledger, WalkState, Done
<1>2. PICK h \in start : Remains(e, h, w, start, floor)
  BY <1>1 DEF Ledger
<1>3. start \in SUBSET Row /\ IsFiniteSet(start) /\ \E s \in start : s.price = e.price
  BY <1>2 DEF Sound, Remains
<1>4. PICK take \in Nat \ {0} : \E J :
               /\ e \in Row /\ take <= e.qty /\ take <= w.left
               /\ v \in WalkState /\ v.left = w.left - take
               /\ v.slices = Append(w.slices, slice(take)) /\ slice(take) \in Slice
               /\ Places(J, v, w, start, take)
  BY <1>1, <1>3, MatchPlaces
<1>5. PICK J :
               /\ e \in Row /\ take <= e.qty /\ take <= w.left
               /\ v \in WalkState /\ v.left = w.left - take
               /\ v.slices = Append(w.slices, slice(take)) /\ slice(take) \in Slice
               /\ Places(J, v, w, start, take)
  BY <1>4
<1> HIDE DEF v, e
<1>6. \A o : Taken(v.slices, o) = IF o = h.oid THEN Taken(w.slices, o) + take
                                              ELSE Taken(w.slices, o)
  <2>1. slice(take).oid = h.oid /\ slice(take).qty = take
    BY <1>2 DEF Remains
  <2> HIDE DEF slice
  <2> TAKE o
  <2>2. Taken(Append(w.slices, slice(take)), o)
           = IF slice(take).oid = o THEN Taken(w.slices, o) + slice(take).qty
             ELSE Taken(w.slices, o)
    BY <1>1, <1>5, TakenAppend
  <2> QED BY <2>1, <2>2, <1>5
<1>7. \A o : Taken(w.slices, o) \in Nat
  BY <1>1, TakenNat
<1>8. \A i \in DOMAIN v.slices : \E r \in start : v.slices[i].oid = r.oid
  <2> TAKE i \in DOMAIN v.slices
  <2>1. CASE i \in DOMAIN w.slices
    <3>1. v.slices[i] = w.slices[i]
      BY <1>1, <1>5, <2>1
    <3> QED BY <2>1, <3>1 DEF Ledger
  <2>2. CASE i \notin DOMAIN w.slices
    <3>1. v.slices[i] = slice(take)
      BY <1>1, <1>5, <2>2
    <3> QED BY <3>1, <1>2 DEF Remains
  <2> QED BY <2>1, <2>2
<1> QED BY <1>1, <1>2, <1>5, <1>6, <1>7, <1>8 DEF v, e, Moves

(* The head after a step, if it is still there. *)
LEMMA HeadRemains ==
  ASSUME NEW start, Sound(start), NEW floor, Limits(start, floor), NEW w,
         Ledger(w, start, floor), NEW v, v.seq \in Nat,
         NEW take \in Nat \ {0}, NEW h \in start, NEW J, NEW i \in DOMAIN J, J[i] = 1,
         w.queue[1] \in Row, take <= w.queue[1].qty,
         Remains(w.queue[1], h, w, start, floor),
         Taken(w.slices, h.oid) \in Nat,
         Taken(v.slices, h.oid) = Taken(w.slices, h.oid) + take,
         Places(J, v, w, start, take)
  PROVE  /\ Remains(v.queue[i], h, v, start, floor) /\ floor <= v.seq
         /\ IsQuote(v.queue[i]) <=> IsQuote(h)
         /\ \/ v.queue[i].seq = w.queue[1].seq /\ v.seq = w.seq
            \/ v.queue[i].seq = v.seq /\ v.seq = w.seq + 1
<1> DEFINE e == w.queue[1]
           f == v.queue[i]
           n == Taken(w.slices, h.oid)
           level == {s \in start : s.price = e.price}
<1>1. /\ e.qty \in Nat \ {0} /\ e.hidden \in Nat /\ w.seq \in Nat /\ floor \in Nat /\ floor <= w.seq
      /\ h.qty \in Nat \ {0} /\ h.hidden \in Nat
      /\ e.oid = h.oid /\ e.side = h.side /\ e.price = h.price /\ e.display = h.display
      /\ n + e.qty + e.hidden = h.qty + h.hidden
      /\ IF n < h.qty THEN e.hidden = h.hidden /\ e.time = h.time /\ e.seq = h.seq
         ELSE h.hidden > 0 /\ e.seq > floor /\ \E s \in start : e.time = s.time
  <2>1. h \in Row /\ e \in Row
    BY DEF Sound
  <2>2. w.seq \in Nat /\ floor \in Nat /\ floor <= w.seq
    BY DEF Ledger, WalkState, Limits
  <2>3. /\ e.qty \in Nat \ {0} /\ e.hidden \in Nat
        /\ h.qty \in Nat \ {0} /\ h.hidden \in Nat
    BY <2>1 DEF Row
  <2>4. /\ e.oid = h.oid /\ e.side = h.side /\ e.price = h.price /\ e.display = h.display
        /\ n + (e.qty + e.hidden) = h.qty + h.hidden
        /\ IF n < h.qty THEN e.hidden = h.hidden /\ e.time = h.time /\ e.seq = h.seq
           ELSE h.hidden > 0 /\ e.seq > floor /\ \E s \in start : e.time = s.time
    BY DEF Remains, Fresh, Amount
  <2>5. n + e.qty + e.hidden = h.qty + h.hidden
    <3> HIDE DEF n, e
    <3> QED BY <2>3, <2>4 DEF n
  <2> HIDE DEF n, e
  <2> QED BY <2>2, <2>3, <2>4, <2>5
<1>2. J[i] = 1 => \A k \in DOMAIN J : J[k] = 1 => k = i
  BY DEF Places
<1>3. CASE take < e.qty /\ v.seq = w.seq /\ f = [e EXCEPT !.qty = @ - take]
  <2>1. /\ f.oid = e.oid /\ f.side = e.side /\ f.price = e.price /\ f.display = e.display
        /\ f.time = e.time /\ f.seq = e.seq /\ f.hidden = e.hidden /\ f.qty = e.qty - take
    BY <1>3 DEF Row
  <2>2. n + take + f.qty + f.hidden = h.qty + h.hidden
    BY <2>1, <1>1
  <2>3. n + take < h.qty <=> n < h.qty
    BY <1>1, <1>3
  <2> HIDE DEF e, f, n
  <2>4. Remains(f, h, v, start, floor)
    BY <1>1, <2>1, <2>2, <2>3 DEF Remains, Fresh, Amount, n
  <2> QED BY <1>1, <1>3, <2>1, <2>4 DEF IsQuote, e, f
<1>4. CASE /\ take = e.qty /\ e.hidden > 0 /\ v.seq = w.seq + 1
           /\ f = Reveal(e, level, w.seq + 1)
  <2>1. level \in SUBSET Row /\ IsFiniteSet(level) /\ level # {} /\ h \in level
    <3>1. level \subseteq start /\ h \in level
      BY <1>1
    <3> QED BY <3>1, FS_Subset DEF Sound
  <2>2. w.seq + 1 \in Nat
    BY <1>1
  <2> HIDE DEF level
  <2>3. /\ f.oid = e.oid /\ f.side = e.side /\ f.price = e.price
        /\ f.display = e.display /\ f.seq = w.seq + 1 /\ Amount(f) = e.hidden
        /\ \E s \in level : f.time = s.time
    BY <2>1, <2>2, <1>4, RevealShows
  <2>4. ~(n + take < h.qty) /\ h.hidden > 0
    BY <1>1, <1>4
  <2>5. \E s \in start : f.time = s.time
    BY <2>3 DEF level
  <2>6. n + take + Amount(f) = h.qty + h.hidden
    BY <1>1, <1>4, <2>3
  <2> HIDE DEF e, f, n
  <2>7. Remains(f, h, v, start, floor)
    BY <1>1, <2>3, <2>4, <2>5, <2>6 DEF Remains, Fresh, Amount, n
  <2> QED BY <1>1, <1>4, <2>3, <2>7 DEF IsQuote, e, f
<1> QED BY <1>2, <1>3, <1>4 DEF Places

(* A step keeps the account of the walk: what a row had is what was taken and what
   is left. *)
LEMMA LedgerStep ==
  ASSUME NEW start, Sound(start), OneSided(start), NEW floor, Limits(start, floor), NEW w,
         Ledger(w, start, floor), Numbered(w), ~Done(w)
  PROVE  Ledger(Match(w, start), start, floor) /\ Numbered(Match(w, start))
<1> DEFINE e == w.queue[1]
           v == Match(w, start)
<1>1. PICK take \in Nat \ {0}, h \in start : \E J : Moves(take, J, h, v, w, start, floor)
  BY MatchOrigin
<1>2. PICK J : Moves(take, J, h, v, w, start, floor)
  BY <1>1
<1>3. /\ e \in Row /\ take <= e.qty /\ take <= w.left
      /\ v \in WalkState /\ v.left = w.left - take
      /\ 1 \in DOMAIN w.queue
      /\ Remains(e, h, w, start, floor)
      /\ \A o : Taken(v.slices, o) = IF o = h.oid THEN Taken(w.slices, o) + take
                                     ELSE Taken(w.slices, o)
      /\ \A o : Taken(w.slices, o) \in Nat
      /\ \A i \in DOMAIN v.slices : \E r \in start : v.slices[i].oid = r.oid
      /\ Places(J, v, w, start, take)
  BY <1>2 DEF Moves
<1> HIDE DEF v
<1>4. v.seq \in Nat /\ w.seq \in Nat /\ w.left \in Nat /\ w.seq <= v.seq
  BY <1>3 DEF WalkState, Ledger, Places
<1>5. ASSUME NEW i \in DOMAIN J, J[i] = 1
      PROVE  /\ Remains(v.queue[i], h, v, start, floor)
             /\ IsQuote(v.queue[i]) <=> IsQuote(h)
             /\ \/ v.queue[i].seq = e.seq /\ v.seq = w.seq
                \/ v.queue[i].seq = v.seq /\ v.seq = w.seq + 1
  BY <1>3, <1>4, <1>5, HeadRemains
<1>6. \A i, j \in DOMAIN w.queue : w.queue[i].oid = w.queue[j].oid => i = j
  BY DEF Ledger
<1>7. e.oid = h.oid
  BY <1>3 DEF Remains
<1>8. /\ DOMAIN J = DOMAIN v.queue /\ \A i \in DOMAIN J : J[i] \in DOMAIN w.queue
      /\ \A i \in DOMAIN J : J[i] # 1 => v.queue[i] = w.queue[J[i]]
      /\ \A j \in DOMAIN w.queue : j # 1 => \E i \in DOMAIN J : J[i] = j
      /\ \A i, j \in DOMAIN J : J[i] = J[j] => i = j
  BY <1>3 DEF Places
<1>9. \A i \in DOMAIN J : v.queue[i].oid = w.queue[J[i]].oid
  BY <1>5, <1>7, <1>8 DEF Remains
<1>10. ASSUME NEW i \in DOMAIN v.queue
       PROVE  \E r \in start : Remains(v.queue[i], r, v, start, floor)
  <2>1. CASE J[i] = 1
    BY <2>1, <1>5, <1>8
  <2>2. CASE J[i] # 1
    <3>1. PICK r \in start : Remains(w.queue[J[i]], r, w, start, floor)
      BY <1>8 DEF Ledger
    <3>2. r.oid # h.oid
      BY <3>1, <2>2, <1>3, <1>6, <1>7, <1>8 DEF Remains
    <3>3. Taken(v.slices, r.oid) = Taken(w.slices, r.oid)
      BY <3>2, <1>3
    <3> QED BY <3>1, <3>3, <2>2, <1>8 DEF Remains, Fresh
  <2> QED BY <2>1, <2>2
<1>11. \A i, j \in DOMAIN v.queue : v.queue[i].oid = v.queue[j].oid => i = j
  BY <1>6, <1>8, <1>9
<1>12. ASSUME NEW r \in start, \A i \in DOMAIN v.queue : v.queue[i].oid # r.oid
       PROVE  Taken(v.slices, r.oid) = Amount(r)
  <2>1. CASE r.oid # h.oid
    <3>1. \A j \in DOMAIN w.queue : w.queue[j].oid # r.oid
      <4> TAKE j \in DOMAIN w.queue
      <4>1. CASE j = 1
        BY <4>1, <2>1, <1>7
      <4>2. CASE j # 1
        BY <4>2, <1>8, <1>9, <1>12
      <4> QED BY <4>1, <4>2
    <3> QED BY <3>1, <2>1, <1>3 DEF Ledger
  <2>2. CASE r.oid = h.oid
    <3>1. \A i \in DOMAIN J : J[i] # 1
      BY <2>2, <1>7, <1>8, <1>9, <1>12
    <3>2. take = e.qty /\ e.hidden = 0
      BY <3>1, <1>3 DEF Places
    <3>3. r = h
      BY <2>2 DEF Sound, OneSided
    <3>4. Taken(w.slices, h.oid) + e.qty + e.hidden = Amount(h)
      BY <1>3 DEF Remains, Amount, Row
    <3> QED BY <3>2, <3>3, <3>4, <1>3 DEF Row
  <2> QED BY <2>1, <2>2
<1>13. Ledger(v, start, floor)
  <2>1. floor <= v.seq
    BY <1>4 DEF Ledger, Limits
  <2> QED BY <2>1, <1>3, <1>10, <1>11, <1>12 DEF Ledger
<1>14. \A j \in DOMAIN w.queue : w.queue[j].seq \in Nat /\ w.queue[j].seq <= w.seq
  <2>1. w.queue \in Seq(Row)
    BY DEF Ledger, WalkState
  <2>2. \A j \in DOMAIN w.queue : w.queue[j] \in Row
    BY <2>1
  <2> QED BY <2>2 DEF Numbered, Row
<1>15. ASSUME NEW i \in DOMAIN J
       PROVE  /\ v.queue[i].seq <= v.seq
              /\ IsQuote(v.queue[i]) <=> IsQuote(w.queue[J[i]])
              /\ \/ v.queue[i].seq = w.queue[J[i]].seq
                 \/ J[i] = 1 /\ v.queue[i].seq = v.seq /\ v.seq = w.seq + 1
  <2>1. CASE J[i] = 1
    <3>1. IsQuote(h) <=> IsQuote(e)
      BY <1>7 DEF IsQuote
    <3> QED BY <2>1, <3>1, <1>4, <1>5, <1>14, <1>3
  <2>2. CASE J[i] # 1
    BY <2>2, <1>8, <1>4, <1>14
  <2> QED BY <2>1, <2>2
<1>16. ASSUME NEW i \in DOMAIN J, NEW j \in DOMAIN J, v.queue[i].seq = v.queue[j].seq,
              IsQuote(v.queue[i]) <=> IsQuote(v.queue[j])
       PROVE  i = j
  <2>1. CASE w.queue[J[i]].seq = w.queue[J[j]].seq
    <3>1. J[i] = J[j]
      BY <2>1, <1>8, <1>15, <1>16 DEF Numbered
    <3> QED BY <3>1, <1>8
  <2>2. CASE w.queue[J[i]].seq # w.queue[J[j]].seq
    <3>1. w.queue[J[i]].seq <= w.seq /\ w.queue[J[j]].seq <= w.seq
          /\ w.queue[J[i]].seq \in Nat /\ w.queue[J[j]].seq \in Nat
      BY <1>8, <1>14
    <3>2. J[i] = 1 /\ J[j] = 1
      BY <2>2, <3>1, <1>4, <1>15, <1>16
    <3> QED BY <3>2, <1>8
  <2> QED BY <2>1, <2>2
<1>17. Numbered(v)
  BY <1>8, <1>15, <1>16 DEF Numbered
<1> QED BY <1>13, <1>17 DEF v

-----------------------------------------------------------------------------
(* The walk keeps the order of the queue, and passes nobody over. *)

Better(r, s) == IF r.side = "ask" THEN r.price < s.price ELSE r.price > s.price

(* Better prices first; at one price first lots first, in their order. *)
Queued(w, start) ==
  \A i, j \in DOMAIN w.queue, r, s \in start :
    i < j /\ w.queue[i].oid = r.oid /\ w.queue[j].oid = s.oid =>
      /\ ~Better(s, r)
      /\ s.price = r.price /\ Fresh(s, w) => Fresh(r, w) /\ Before(r, s)

(* Of whoever still waits, none was ahead of a row that has traded. *)
NobodyPassed(w, start) ==
  \A r, s \in start :
    (\E i \in DOMAIN w.queue : w.queue[i].oid = r.oid) /\ Taken(w.slices, s.oid) > 0 =>
      /\ ~Better(r, s)
      /\ r.price = s.price /\ Fresh(r, w) =>
           ~Before(r, s) /\ Taken(w.slices, s.oid) <= s.qty

(* A step keeps the queue in order and passes over nobody who waits. *)
LEMMA OrderStep ==
  ASSUME NEW start, Sound(start), OneSided(start), NEW floor, NEW w,
         Ledger(w, start, floor), Queued(w, start), NobodyPassed(w, start), ~Done(w)
  PROVE  Queued(Match(w, start), start) /\ NobodyPassed(Match(w, start), start)
<1> DEFINE e == w.queue[1]
           v == Match(w, start)
           T(o) == Taken(w.slices, o)
           U(o) == Taken(v.slices, o)
<1>1. PICK take \in Nat \ {0}, h \in start : \E J : Moves(take, J, h, v, w, start, floor)
  BY MatchOrigin
<1>2. PICK J : Moves(take, J, h, v, w, start, floor)
  BY <1>1
<1>3. /\ e \in Row /\ take <= e.qty /\ 1 \in DOMAIN w.queue
      /\ Remains(e, h, w, start, floor)
      /\ \A o : U(o) = IF o = h.oid THEN T(o) + take ELSE T(o)
      /\ \A o : T(o) \in Nat
      /\ Places(J, v, w, start, take)
  BY <1>2 DEF Moves
<1> HIDE DEF v, T, U
<1>4. /\ DOMAIN J = DOMAIN v.queue /\ \A i \in DOMAIN J : J[i] \in DOMAIN w.queue
      /\ DOMAIN v.queue \subseteq Nat /\ DOMAIN w.queue \subseteq Nat \ {0}
      /\ \A i, j \in DOMAIN J : J[i] = J[j] => i = j
      /\ \A i, j \in DOMAIN J : i < j /\ J[i] # 1 /\ J[j] # 1 => J[i] < J[j]
  <2>1. w.queue \in Seq(Row) /\ v.queue \in Seq(Row)
    BY <1>2 DEF Ledger, WalkState, Moves
  <2> QED BY <1>3, <2>1 DEF Places
<1>5. e.oid = h.oid /\ e.price = h.price
  BY <1>3 DEF Remains
<1>6. \A i \in DOMAIN J : v.queue[i].oid = w.queue[J[i]].oid
  <2> TAKE i \in DOMAIN J
  <2>1. CASE J[i] # 1
    BY <2>1, <1>3 DEF Places
  <2>2. CASE J[i] = 1
    <3>1. \/ v.queue[i] = [e EXCEPT !.qty = @ - take]
          \/ v.queue[i] = Reveal(e, {s \in start : s.price = e.price}, w.seq + 1)
      BY <2>2, <1>3 DEF Places
    <3>2. v.queue[i].oid = e.oid
      BY <3>1, <1>3 DEF Reveal, Row
    <3> QED BY <3>2, <2>2
  <2> QED BY <2>1, <2>2
<1>7. \A r, s \in start : (r.oid = s.oid => r = s) /\ r.side = s.side
  BY DEF Sound, OneSided
<1>8. \A r \in start : r.qty \in Nat \ {0} /\ r.hidden \in Nat /\ r.price \in Nat
  BY DEF Sound, Row
<1>9. \A j \in DOMAIN w.queue, r \in start :
        w.queue[j].oid = r.oid => w.queue[j].price = r.price
  BY <1>7 DEF Ledger, Remains
<1>10. \A r \in start : r # h => U(r.oid) = T(r.oid) /\ (Fresh(r, v) <=> Fresh(r, w))
  BY <1>3, <1>7 DEF Fresh, T, U
<1>11. /\ U(h.oid) = T(h.oid) + take /\ T(h.oid) \in Nat
       /\ (Fresh(h, v) <=> U(h.oid) < h.qty) /\ (Fresh(h, w) <=> T(h.oid) < h.qty)
  BY <1>3 DEF Fresh, T, U
<1>12. T(h.oid) + e.qty + e.hidden = h.qty + h.hidden
       /\ (Fresh(h, w) => e.hidden = h.hidden)
       /\ e.qty \in Nat \ {0} /\ e.hidden \in Nat
  <2>1. e.qty \in Nat \ {0} /\ e.hidden \in Nat
    BY <1>3 DEF Row
  <2>2. T(h.oid) + (e.qty + e.hidden) = h.qty + h.hidden /\ (Fresh(h, w) => e.hidden = h.hidden)
    BY <1>3 DEF Remains, Amount, T
  <2> HIDE DEF e
  <2> QED BY <2>1, <2>2, <1>8, <1>11
<1>13. /\ Fresh(h, v) => Fresh(h, w)
       /\ take = e.qty => ~Fresh(h, v)
       /\ Fresh(h, w) => U(h.oid) <= h.qty
       /\ Fresh(h, w) /\ take < e.qty => Fresh(h, v)
  <2> HIDE DEF e
  <2> QED BY <1>8, <1>11, <1>12, <1>3
<1>14. \A i \in DOMAIN J, r \in start : v.queue[i].oid = r.oid => (J[i] = 1 <=> r = h)
  <2>1. \A i, j \in DOMAIN w.queue : w.queue[i].oid = w.queue[j].oid => i = j
    BY DEF Ledger
  <2> QED BY <2>1, <1>3, <1>4, <1>5, <1>6, <1>7
<1>15. ASSUME NEW i \in DOMAIN w.queue, NEW j \in DOMAIN w.queue, NEW r \in start,
              NEW s \in start, i < j, w.queue[i].oid = r.oid, w.queue[j].oid = s.oid
       PROVE  ~Better(s, r) /\ (s.price = r.price /\ Fresh(s, w) => Fresh(r, w) /\ Before(r, s))
  BY <1>15 DEF Queued
<1>16. ASSUME NEW i \in DOMAIN J, NEW j \in DOMAIN J, NEW r \in start, NEW s \in start,
              i < j, v.queue[i].oid = r.oid, v.queue[j].oid = s.oid
       PROVE  ~Better(s, r) /\ (s.price = r.price /\ Fresh(s, v) => Fresh(r, v) /\ Before(r, s))
  <2>0. /\ J[i] \in DOMAIN w.queue /\ J[j] \in DOMAIN w.queue
        /\ w.queue[J[i]].oid = r.oid /\ w.queue[J[j]].oid = s.oid
    BY <1>4, <1>6, <1>16
  <2>1. CASE J[i] # 1 /\ J[j] # 1
    <3>1. J[i] < J[j] /\ r # h /\ s # h
      BY <2>1, <1>4, <1>14, <1>16
    <3> QED BY <3>1, <2>0, <1>15, <1>10
  <2>2. CASE J[i] = 1 /\ J[j] # 1
    <3>1. r = h /\ s # h /\ 1 < J[j]
      BY <2>0, <2>2, <1>4, <1>14, <1>16
    <3>2. ~Better(s, h) /\ (s.price = h.price /\ Fresh(s, w) => Fresh(h, w) /\ Before(h, s))
      BY <3>1, <2>0, <1>3, <1>5, <1>15
    <3>3. take < e.qty \/ s.price # h.price
      <4>1. CASE take < e.qty
        BY <4>1
      <4>2. CASE ~(take < e.qty)
        <5>1. PICK k \in DOMAIN J : J[k] = 1
                /\ \A m \in DOMAIN J : m > k => w.queue[J[m]].price # e.price
          BY <4>2, <2>2, <1>3 DEF Places
        <5>2. k = i
          BY <5>1, <2>2, <1>4
        <5>3. w.queue[J[j]].price # e.price
          BY <5>1, <5>2, <1>4, <1>16
        <5> QED BY <5>3, <2>0, <1>5, <1>9
      <4> QED BY <4>1, <4>2
    <3> QED BY <3>1, <3>2, <3>3, <1>10, <1>13
  <2>3. CASE J[j] = 1
    <3>1. s = h /\ J[i] # 1 /\ r # h
      BY <2>3, <1>4, <1>14, <1>16
    <3>2. take = e.qty /\ \E k \in DOMAIN J :
             /\ J[k] = 1 /\ k \in DOMAIN w.queue /\ w.queue[k].price = e.price
             /\ \A m \in DOMAIN J : m < k => J[m] <= k
      <4>1. ~(1 \in DOMAIN J /\ J[1] = 1)
        <5>1. 1 \in DOMAIN J /\ J[1] = 1 => j = 1
          BY <2>3, <1>4
        <5>2. i \in DOMAIN v.queue /\ v.queue \in Seq(Row)
          BY <1>2, <1>4 DEF Moves, WalkState
        <5>3. i \in Nat /\ i >= 1 /\ j \in Nat
          BY <5>2, <1>4
        <5> QED BY <5>1, <5>3, <1>16
      <4> QED BY <4>1, <2>3, <1>3 DEF Places
    <3>3. J[i] <= j /\ j \in DOMAIN w.queue /\ w.queue[j].price = e.price
      BY <3>2, <2>3, <1>4, <1>16
    <3>4. ~Better(h, r)
      <4>1. CASE J[i] = j
        <5>1. r.price = h.price
          BY <4>1, <3>3, <2>0, <1>5, <1>9
        <5> QED BY <5>1, <1>8 DEF Better
      <4>2. CASE J[i] # j
        <5>1. PICK s1 \in start : w.queue[j].oid = s1.oid /\ s1.price = h.price
          BY <3>3, <1>5 DEF Ledger, Remains
        <5>2. J[i] < j
          BY <4>2, <3>3, <2>0, <1>4
        <5>3. ~Better(s1, r)
          BY <5>1, <5>2, <3>3, <2>0, <1>15
        <5> QED BY <5>1, <5>3, <1>7 DEF Better
      <4> QED BY <4>1, <4>2
    <3> QED BY <3>1, <3>2, <3>4, <1>13
  <2> QED BY <2>1, <2>2, <2>3
<1>17. Queued(v, start)
  BY <1>4, <1>16 DEF Queued
<1>18. ASSUME NEW r \in start, NEW s \in start, NEW i \in DOMAIN v.queue,
              v.queue[i].oid = r.oid, U(s.oid) > 0
       PROVE  /\ ~Better(r, s)
              /\ r.price = s.price /\ Fresh(r, v) => ~Before(r, s) /\ U(s.oid) <= s.qty
  <2>0. J[i] \in DOMAIN w.queue /\ w.queue[J[i]].oid = r.oid
    BY <1>4, <1>6, <1>18
  <2>1. CASE s # h
    <3>1. U(s.oid) = T(s.oid) /\ (Fresh(r, v) => Fresh(r, w))
      BY <2>1, <1>10, <1>13
    <3>2. /\ ~Better(r, s)
          /\ r.price = s.price /\ Fresh(r, w) => ~Before(r, s) /\ T(s.oid) <= s.qty
      BY <3>1, <2>0, <1>18 DEF NobodyPassed, T
    <3> QED BY <3>1, <3>2
  <2>2. CASE s = h /\ r = h
    <3>1. ~Better(h, h) /\ ~Before(h, h)
      BY <1>8, BeforeOrders DEF Better
    <3> QED BY <2>2, <3>1, <1>13
  <2>3. CASE s = h /\ r # h
    <3>1. J[i] # 1 /\ 1 < J[i]
      BY <2>3, <2>0, <1>4, <1>14, <1>18
    <3>2. ~Better(r, h) /\ (r.price = h.price /\ Fresh(r, w) => Fresh(h, w) /\ Before(h, r))
      BY <3>1, <2>0, <1>3, <1>5, <1>15
    <3>3. Before(h, r) => ~Before(r, h)
      BY BeforeOrders
    <3> QED BY <2>3, <3>2, <3>3, <1>10, <1>13
  <2> QED BY <2>1, <2>2, <2>3
<1>19. NobodyPassed(v, start)
  BY <1>18 DEF NobodyPassed, U
<1> QED BY <1>17, <1>19 DEF v

-----------------------------------------------------------------------------
(* The whole walk. *)

Walked(w, start, floor) ==
  /\ Ledger(w, start, floor) /\ Numbered(w)
  /\ Queued(w, start) /\ NobodyPassed(w, start)

(* So does the whole walk, which ends when nothing is left to do or its slices run
   out. *)
LEMMA WalkKeeps ==
  ASSUME NEW start, Sound(start), OneSided(start), NEW floor, Limits(start, floor),
         MaxSlices \in Nat, NEW w, Walked(w, start, floor)
  PROVE  Walked(Walk(w, start), start, floor)
<1> DEFINE S == {x \in WalkState : Walked(x, start, floor)}
           Next1(x) == IF Done(x) THEN x ELSE Match(x, start)
           Body(g) == [n \in 0..MaxSlices |-> IF n = 0 THEN w ELSE Next1(g[n - 1])]
           f == CHOOSE g : g = Body(g)
           In == [n \in 0..MaxSlices |-> S]
<1>1. w \in S
  BY DEF Walked, Ledger
<1>2. \A x \in S : Next1(x) \in S
  <2> TAKE x \in S
  <2>1. CASE Done(x)
    BY <2>1
  <2>2. CASE ~Done(x)
    <3>1. Walked(Match(x, start), start, floor)
      BY <2>2, LedgerStep, OrderStep DEF Walked
    <3>2. Match(x, start) \in WalkState
      BY <3>1 DEF Walked, Ledger
    <3> QED BY <2>2, <3>1, <3>2
  <2> QED BY <2>1, <2>2
<1>3. Walk(w, start) = f[MaxSlices]
  BY DEF Walk
<1> HIDE DEF S, Next1
<1>4. f = Body(f)
  <2> DEFINE F == [n \in 1..MaxSlices |-> [x \in S |-> Next1(x)]]
  <2>1. PICK g : IsRun(g, MaxSlices, w, F)
    BY RunExists
  <2>2. \A n \in 1..MaxSlices : \A x \in In[n - 1] : F[n][x] \in In[n]
    BY <1>2
  <2>3. w \in In[0]
    BY <1>1
  <2>4. \A n \in 0..MaxSlices : g[n] \in In[n]
    <3> HIDE DEF In, F
    <3> QED BY <2>1, <2>2, <2>3, RunStays
  <2>5. \A n \in 1..MaxSlices : F[n][g[n - 1]] = Next1(g[n - 1])
    BY <2>4
  <2>6. g = Body(g)
    <3> HIDE DEF F
    <3> QED BY <2>1, <2>5 DEF IsRun
  <2> HIDE DEF Body
  <2> QED BY <2>6
<1>5. \A n \in 0..MaxSlices : f[n] \in In[n]
  <2> HIDE DEF f
  <2> DEFINE F == [n \in 1..MaxSlices |-> [x \in S \cup {f[n - 1]} |-> Next1(x)]]
  <2>1. IsRun(f, MaxSlices, w, F)
    BY <1>4 DEF IsRun
  <2>2. \A n \in 1..MaxSlices : \A x \in In[n - 1] : F[n][x] \in In[n]
    BY <1>2
  <2>3. w \in In[0]
    BY <1>1
  <2> HIDE DEF In, F
  <2> QED BY <2>1, <2>2, <2>3, RunStays
<1>6. f[MaxSlices] \in S
  BY <1>5
<1> HIDE DEF f
<1> QED BY <1>3, <1>6 DEF S

(* Every book row on one side that t may take, in the order of the book. *)
LEMMA WalkStarts ==
  ASSUME NEW start, Sound(start), OneSided(start), NEW floor, Limits(start, floor), NEW n \in Nat
  PROVE  Walked([queue |-> Sorted(start), left |-> n, slices |-> <<>>, seq |-> floor],
                start, floor)
<1> DEFINE q == Sorted(start)
           w == [queue |-> q, left |-> n, slices |-> <<>>, seq |-> floor]
<1>1. /\ q \in Seq(start) /\ \A r \in start : \E i \in DOMAIN q : q[i] = r
      /\ \A i, j \in DOMAIN q : i < j => Before(q[i], q[j])
  BY SortedOrders
<1> HIDE DEF q
<1>2. /\ w.queue = q /\ w.seq = floor /\ w.slices = <<>> /\ w.left = n
      /\ start \subseteq Row /\ DOMAIN q \subseteq Nat
      /\ \A i \in DOMAIN q : q[i] \in start
  BY <1>1 DEF Sound
<1>3. w \in WalkState
  BY <1>1, <1>2 DEF WalkState, Limits
<1>4. \A o : Taken(w.slices, o) = 0
  <2>1. \A i \in DOMAIN w.slices : FALSE
    BY <1>2
  <2> QED BY <2>1, TakenNone
<1> HIDE DEF w
<1>5. \A r \in start : Fresh(r, w) /\ r.seq <= floor
  BY <1>2, <1>4 DEF Fresh, Row, Limits
<1>6. \A r, s \in start : r.oid = s.oid \/ (r.seq = s.seq /\ (IsQuote(r) <=> IsQuote(s))) => r = s
  BY DEF Sound, OneSided
<1>7. \A i, j \in DOMAIN q : q[i] = q[j] => i = j
  <2> SUFFICES ASSUME NEW i \in DOMAIN q, NEW j \in DOMAIN q, i < j PROVE q[i] # q[j]
    BY <1>2
  <2>1. Before(q[i], q[j])
    BY <1>1
  <2> QED BY <2>1, <1>2, BeforeOrders
<1>8. \A i, j \in DOMAIN q :
        q[i].oid = q[j].oid \/ (q[i].seq = q[j].seq /\ (IsQuote(q[i]) <=> IsQuote(q[j]))) => i = j
  BY <1>2, <1>6, <1>7
<1>9. \A i \in DOMAIN q : Remains(q[i], q[i], w, start, floor)
  <2> TAKE i \in DOMAIN q
  <2>1. Amount(q[i]) \in Nat
    BY <1>2 DEF Amount, Row
  <2> QED BY <2>1, <1>2, <1>4, <1>5 DEF Remains
<1>10. Ledger(w, start, floor)
  <2>1. \A r \in start : \E i \in DOMAIN w.queue : w.queue[i].oid = r.oid
    BY <1>1, <1>2
  <2>2. \A i \in DOMAIN w.slices : \E r \in start : w.slices[i].oid = r.oid
    BY <1>2
  <2>3. floor <= w.seq
    BY <1>2 DEF Limits
  <2> QED BY <2>1, <2>2, <2>3, <1>2, <1>3, <1>8, <1>9 DEF Ledger
<1>11. Numbered(w)
  BY <1>2, <1>5, <1>8 DEF Numbered
<1>12. Queued(w, start)
  <2> SUFFICES ASSUME NEW i \in DOMAIN q, NEW j \in DOMAIN q, NEW r \in start, NEW s \in start,
                      i < j, q[i].oid = r.oid, q[j].oid = s.oid
               PROVE  ~Better(s, r) /\ Before(r, s)
    BY <1>2, <1>5 DEF Queued
  <2>1. q[i] = r /\ q[j] = s
    BY <1>2, <1>6
  <2>2. Before(r, s)
    BY <2>1, <1>1
  <2>3. r.side = s.side /\ r.price \in Nat /\ s.price \in Nat
    BY <1>2 DEF OneSided, Row
  <2> QED BY <2>2, <2>3 DEF Better, Before
<1>13. NobodyPassed(w, start)
  BY <1>4 DEF NobodyPassed
<1>14. Walked(w, start, floor)
  BY <1>10, <1>11, <1>12, <1>13 DEF Walked
<1> QED BY <1>14 DEF w, q

-----------------------------------------------------------------------------
(* The planner keeps its contract. *)

(* The plan of a taker is what such a walk leaves. *)
LEMMA PlanWalks ==
  ASSUME NEW rows, Sound(rows), NEW t \in Taker, MaxSlices \in Nat
  PROVE  LET start == Executable(rows, t)
             plan  == Plan(rows, t)
         IN  /\ Sound(start) /\ OneSided(start) /\ start \subseteq rows
             /\ \E floor, w :
                  /\ Limits(start, floor) /\ Walked(w, start, floor)
                  /\ \A r \in rows : r.side = Makers(t.side) => r.seq <= floor
                  /\ plan = [filled |-> t.qty - w.left, remaining |-> w.left,
                             slices |-> w.slices, truncated |-> ~Done(w),
                             after |-> (rows \ start) \cup ToSet(w.queue)]
<1> DEFINE start == Executable(rows, t)
           side  == {s \in rows : s.side = Makers(t.side)}
           seqs  == {r.seq : r \in side} \cup {0}
           floor == Max(seqs)
           first == [queue |-> Sorted(start), left |-> t.qty, slices |-> <<>>, seq |-> floor]
           w     == Walk(first, start)
<1>1. start \subseteq rows /\ \A r \in start : r.side = Makers(t.side)
  BY DEF Executable
<1>2. Sound(start) /\ OneSided(start)
  <2>1. IsFiniteSet(start)
    BY <1>1, FS_Subset DEF Sound
  <2> HIDE DEF start
  <2> QED BY <1>1, <2>1 DEF Sound, OneSided
<1>3. floor \in Nat /\ \A r \in side : r.seq <= floor
  <2>1. IsFiniteSet(side) /\ side \subseteq Row
    BY FS_Subset DEF Sound
  <2> DEFINE f == [r \in side |-> r.seq]
  <2>2. IsFiniteSet({f[r] : r \in side})
    BY <2>1, ImageFinite
  <2>3. {f[r] : r \in side} \cup {0} = seqs
    OBVIOUS
  <2>4. IsFiniteSet(seqs)
    BY <2>2, <2>3, FS_AddElement
  <2>5. seqs \subseteq Nat /\ seqs # {}
    BY <2>1 DEF Row
  <2> HIDE DEF seqs
  <2>6. floor \in seqs /\ \A n \in seqs : n <= floor
    BY <2>4, <2>5, MaxOfSet
  <2> HIDE DEF floor
  <2> QED BY <2>5, <2>6 DEF seqs
<1>4. Plan(rows, t) = [filled |-> t.qty - w.left, remaining |-> w.left,
                       slices |-> w.slices, truncated |-> ~Done(w),
                       after |-> (rows \ start) \cup ToSet(w.queue)]
  BY DEF Plan
<1>5. t.qty \in Nat
  BY DEF Taker
<1> HIDE DEF floor, start
<1>6. Limits(start, floor)
  BY <1>1, <1>3 DEF Limits
<1>7. Walked(first, start, floor)
  BY <1>2, <1>5, <1>6, WalkStarts
<1> HIDE DEF first
<1>8. Walked(w, start, floor)
  BY <1>2, <1>6, <1>7, WalkKeeps
<1>9. \A r \in rows : r.side = Makers(t.side) => r.seq <= floor
  BY <1>3
<1> HIDE DEF w
<1> QED BY <1>1, <1>2, <1>4, <1>6, <1>8, <1>9 DEF start

(* What is left of the rows that were to be had. *)
LEMMA QueueRows ==
  ASSUME NEW start, Sound(start), OneSided(start), NEW floor, NEW w, Ledger(w, start, floor)
  PROVE  LET Q == ToSet(w.queue)
         IN  /\ Q \in SUBSET Row /\ IsFiniteSet(Q)
             /\ \A e \in Q : \E r \in start : Remains(e, r, w, start, floor)
             /\ \A e, f \in Q : e.oid = f.oid => e = f
             /\ \A o : Left(start, o) = Left(Q, o) + Taken(w.slices, o)
             /\ \A o : Left(start, o) \in Nat /\ Left(Q, o) \in Nat /\ Taken(w.slices, o) \in Nat
<1> DEFINE Q == ToSet(w.queue)
<1>1. w.queue \in Seq(Row) /\ w.slices \in Seq(Slice)
  BY DEF Ledger, WalkState
<1>2. Q = {w.queue[i] : i \in DOMAIN w.queue}
  BY DEF ToSet
<1>3. Q \in SUBSET Row /\ \A e \in Q : \E i \in DOMAIN w.queue : e = w.queue[i]
  BY <1>1, <1>2
<1>4. IsFiniteSet(Q)
  <2>1. IsFiniteSet(DOMAIN w.queue)
    BY <1>1, FS_Interval
  <2> QED BY <2>1, <1>2, ImageFinite
<1> HIDE DEF Q
<1>5. \A e \in Q : \E r \in start : Remains(e, r, w, start, floor)
  BY <1>3 DEF Ledger
<1>6. \A e, f \in Q : e.oid = f.oid => e = f
  BY <1>3 DEF Ledger
<1>7. \A o : Left(start, o) \in Nat /\ Left(Q, o) \in Nat /\ Taken(w.slices, o) \in Nat
  BY <1>1, <1>3, <1>4, LeftSum, TakenNat DEF Sound
<1>8. ASSUME NEW o
      PROVE  Left(start, o) = Left(Q, o) + Taken(w.slices, o)
  <2>1. CASE \A r \in start : r.oid # o
    <3>1. Left(start, o) = 0
      BY <2>1, LeftNone
    <3>2. \A e \in Q : e.oid # o
      BY <2>1, <1>5 DEF Remains
    <3>3. Left(Q, o) = 0
      BY <3>2, LeftNone
    <3>4. \A i \in DOMAIN w.slices : w.slices[i].oid # o
      BY <2>1 DEF Ledger
    <3>5. Taken(w.slices, o) = 0
      BY <3>4, TakenNone
    <3> QED BY <3>1, <3>3, <3>5
  <2>2. CASE \E r \in start : r.oid = o
    <3>1. PICK r \in start : r.oid = o
      BY <2>2
    <3>2. \A s \in start : s.oid = r.oid => s = r
      BY DEF Sound, OneSided
    <3>3. Left(start, r.oid) = Amount(r)
      BY <3>2, LeftOne DEF Sound
    <3>4. CASE \E i \in DOMAIN w.queue : w.queue[i].oid = r.oid
      <4>1. PICK e \in Q : e.oid = r.oid
        BY <3>4, <1>2 DEF Q
      <4>2. Left(Q, e.oid) = Amount(e)
        BY <1>3, <1>4, <1>6, LeftOne
      <4>3. PICK s \in start : Remains(e, s, w, start, floor)
        BY <1>5
      <4>4. s = r
        BY <4>1, <4>3, <3>2 DEF Remains
      <4>5. Taken(w.slices, r.oid) + Amount(e) = Amount(r)
        BY <4>3, <4>4 DEF Remains
      <4>6. Left(Q, o) = Amount(e) /\ Left(start, o) = Amount(r) /\ Taken(w.slices, o) \in Nat
            /\ Amount(e) \in Nat
        BY <4>1, <4>2, <3>1, <3>3, <1>7
      <4> QED BY <4>5, <4>6, <3>1
    <3>5. CASE \A i \in DOMAIN w.queue : w.queue[i].oid # r.oid
      <4>1. Taken(w.slices, r.oid) = Amount(r)
        BY <3>5 DEF Ledger
      <4>2. \A e \in Q : e.oid # r.oid
        BY <3>5, <1>3
      <4>3. Left(Q, r.oid) = 0
        BY <4>2, LeftNone
      <4>4. Taken(w.slices, o) \in Nat
        BY <1>7
      <4> QED BY <4>1, <4>3, <4>4, <3>1, <3>3
    <3> QED BY <3>4, <3>5
  <2> QED BY <2>1, <2>2
<1> QED BY <1>3, <1>4, <1>5, <1>6, <1>7, <1>8 DEF Q

(* The book a plan leaves, and what the slices say of it. *)
LEMMA PlanLeaves ==
  ASSUME NEW rows, Sound(rows), NEW t \in Taker, MaxSlices \in Nat
  PROVE  LET plan == Plan(rows, t)
         IN  /\ Sound(plan.after)
             /\ \A o : /\ Left(rows, o) = Left(plan.after, o) + Taken(plan.slices, o)
                       /\ Left(plan.after, o) \in Nat /\ Taken(plan.slices, o) \in Nat
             /\ \A e \in plan.after : \E r \in rows :
                  /\ e.oid = r.oid /\ e.side = r.side /\ e.price = r.price
                  /\ e.display = r.display /\ Amount(e) <= Amount(r)
             /\ \A e \in plan.after : \E s \in rows : e.time = s.time
             /\ \A e \in plan.after : e.seq \in Nat
<1> DEFINE start == Executable(rows, t)
           plan  == Plan(rows, t)
<1>1. Sound(start) /\ OneSided(start) /\ start \subseteq rows
  BY PlanWalks
<1>2. PICK floor, w :
        /\ Limits(start, floor) /\ Walked(w, start, floor)
        /\ \A r \in rows : r.side = Makers(t.side) => r.seq <= floor
        /\ plan = [filled |-> t.qty - w.left, remaining |-> w.left,
                   slices |-> w.slices, truncated |-> ~Done(w),
                   after |-> (rows \ start) \cup ToSet(w.queue)]
  BY PlanWalks
<1> DEFINE Q == ToSet(w.queue)
           rest == rows \ start
<1>3. \A r \in start : r.side = Makers(t.side)
  BY DEF Executable
<1>4. plan.after = rest \cup Q /\ plan.slices = w.slices
  BY <1>2
<1> HIDE DEF plan, start
<1>5. Ledger(w, start, floor) /\ Numbered(w)
  BY <1>2 DEF Walked
<1>6. /\ Q \in SUBSET Row /\ IsFiniteSet(Q)
      /\ \A e \in Q : \E r \in start : Remains(e, r, w, start, floor)
      /\ \A e, f \in Q : e.oid = f.oid => e = f
      /\ \A o : Left(start, o) = Left(Q, o) + Taken(w.slices, o)
      /\ \A o : Left(start, o) \in Nat /\ Left(Q, o) \in Nat /\ Taken(w.slices, o) \in Nat
  BY <1>1, <1>5, QueueRows
<1>7. /\ rows \in SUBSET Row /\ IsFiniteSet(rows) /\ start \in SUBSET Row /\ IsFiniteSet(start)
      /\ rest \in SUBSET Row /\ IsFiniteSet(rest) /\ rows = rest \cup start /\ rest \cap start = {}
  <2>1. IsFiniteSet(rest)
    BY FS_Subset DEF Sound
  <2> QED BY <1>1, <2>1 DEF Sound
<1>8. \A e \in Q, f \in Q : e.seq = f.seq /\ (IsQuote(e) <=> IsQuote(f)) => e = f
  BY <1>5 DEF Numbered, ToSet
<1> HIDE DEF Q
<1>9. \A r, s \in rows :
         r.side = s.side /\ (r.oid = s.oid \/ (r.seq = s.seq /\ (IsQuote(r) <=> IsQuote(s))))
           => r = s
  BY DEF Sound
<1>10. ASSUME NEW e \in Q, NEW f \in rest, e.side = f.side
       PROVE  e.oid # f.oid /\ ~(e.seq = f.seq /\ (IsQuote(e) <=> IsQuote(f)))
  <2>1. PICK r \in start : Remains(e, r, w, start, floor)
    BY <1>6
  <2>2. r \in rows /\ f \in rows /\ r # f /\ r.side = f.side /\ (IsQuote(r) <=> IsQuote(e))
    BY <2>1, <1>7, <1>10 DEF Remains, IsQuote
  <2>3. f.seq <= floor /\ f.seq \in Nat /\ floor \in Nat /\ e.seq \in Nat
    BY <2>2, <1>2, <1>3, <1>6, <1>7 DEF Limits, Row
  <2>4. e.seq = r.seq \/ e.seq > floor
    BY <2>1 DEF Remains
  <2> QED BY <2>1, <2>2, <2>3, <2>4, <1>9 DEF Remains
<1>11. rest \cap Q = {}
  BY <1>10
<1>12. \A e \in Q : IsQuote(e) => e.hidden = 0
  <2> SUFFICES ASSUME NEW e \in Q, IsQuote(e) PROVE e.hidden = 0
    OBVIOUS
  <2>1. PICK r \in start : Remains(e, r, w, start, floor)
    BY <1>6
  <2>2. r.hidden = 0
    BY <2>1, <1>1 DEF Remains, IsQuote, Sound
  <2> QED BY <2>1, <2>2 DEF Remains
<1>13. Sound(plan.after)
  <2>1. IsFiniteSet(rest \cup Q) /\ rest \cup Q \subseteq Row
    BY <1>6, <1>7, FS_Union
  <2>2. \A e \in rest : e \in rows /\ (IsQuote(e) => e.hidden = 0)
    BY <1>7 DEF Sound
  <2>3. ASSUME NEW e \in rest \cup Q, NEW f \in rest \cup Q, e.side = f.side,
               e.oid = f.oid \/ (e.seq = f.seq /\ (IsQuote(e) <=> IsQuote(f)))
        PROVE  e = f
    BY <2>2, <2>3, <1>6, <1>8, <1>9, <1>10
  <2> QED BY <2>1, <2>2, <2>3, <1>4, <1>12 DEF Sound
<1>14. ASSUME NEW o
       PROVE  /\ Left(rows, o) = Left(plan.after, o) + Taken(plan.slices, o)
              /\ Left(plan.after, o) \in Nat /\ Taken(plan.slices, o) \in Nat
  <2>1. Left(rest \cup start, o) = Left(rest, o) + Left(start, o)
    BY <1>7, LeftUnion
  <2> HIDE DEF rest
  <2>2. Left(rest \cup Q, o) = Left(rest, o) + Left(Q, o)
    BY <1>6, <1>7, <1>11, LeftUnion
  <2>3. Left(rest, o) \in Nat
    BY <1>7, LeftSum
  <2> HIDE DEF rest
  <2> QED BY <2>1, <2>2, <2>3, <1>4, <1>6, <1>7
<1>15. ASSUME NEW e \in plan.after
       PROVE  /\ \E r \in rows : /\ e.oid = r.oid /\ e.side = r.side /\ e.price = r.price
                                 /\ e.display = r.display /\ Amount(e) <= Amount(r)
              /\ \E s \in rows : e.time = s.time
  <2>1. CASE e \in rest
    <3>1. e \in rows /\ Amount(e) <= Amount(e)
      BY <2>1, <1>7 DEF Amount, Row
    <3> QED BY <3>1
  <2>2. CASE e \in Q
    <3>1. PICK r \in start : Remains(e, r, w, start, floor)
      BY <2>2, <1>6
    <3>2. r \in rows /\ Amount(e) \in Nat /\ Amount(r) \in Nat /\ Taken(w.slices, r.oid) \in Nat
      BY <2>2, <1>1, <1>6, <1>7 DEF Amount, Row
    <3>3. Amount(e) <= Amount(r)
      BY <3>1, <3>2 DEF Remains
    <3>4. \E s \in rows : e.time = s.time
      BY <3>1, <1>1 DEF Remains
    <3> QED BY <3>1, <3>2, <3>3, <3>4 DEF Remains
  <2> QED BY <2>1, <2>2, <1>4
<1>16. \A e \in plan.after : e.seq \in Nat
  BY <1>13 DEF Sound, Row
<1> QED BY <1>13, <1>14, <1>15, <1>16 DEF plan

(* The planner's contract, for every sound book and every taker. *)
LEMMA ContractKept ==
  ASSUME NEW rows, Sound(rows), NEW t \in Taker, MaxSlices \in Nat
  PROVE  KeepsContract(rows, t)
<1> DEFINE start == Executable(rows, t)
           plan  == Plan(rows, t)
<1>1. Sound(start) /\ OneSided(start) /\ start \subseteq rows
  BY PlanWalks
<1>2. PICK floor, w :
        /\ Limits(start, floor) /\ Walked(w, start, floor)
        /\ \A r \in rows : r.side = Makers(t.side) => r.seq <= floor
        /\ plan = [filled |-> t.qty - w.left, remaining |-> w.left,
                   slices |-> w.slices, truncated |-> ~Done(w),
                   after |-> (rows \ start) \cup ToSet(w.queue)]
  BY PlanWalks
<1>3. \A o : /\ Left(rows, o) = Left(plan.after, o) + Taken(plan.slices, o)
             /\ Left(plan.after, o) \in Nat /\ Taken(plan.slices, o) \in Nat
  BY PlanLeaves
<1>4. /\ plan.filled = t.qty - w.left /\ plan.remaining = w.left /\ plan.slices = w.slices
      /\ (plan.truncated <=> ~Done(w)) /\ plan.after = (rows \ start) \cup ToSet(w.queue)
  <2> HIDE DEF plan, start
  <2>1. plan.truncated = ~Done(w)
    BY ONLY <1>2
  <2>2. /\ plan.filled = t.qty - w.left /\ plan.remaining = w.left /\ plan.slices = w.slices
        /\ plan.after = (rows \ start) \cup ToSet(w.queue)
    BY ONLY <1>2
  <2> QED BY <2>1, <2>2
<1>5. /\ Ledger(w, start, floor) /\ NobodyPassed(w, start)
      /\ w.left \in Nat /\ w.queue \in Seq(Row) /\ t.qty \in Nat
  BY <1>2 DEF Walked, Ledger, WalkState, Taker
<1>6. \A r \in start : Owner[r.oid] # t.acct
  BY DEF Executable
<1> HIDE DEF plan, start
<1>7. Exact(rows, t, plan)
  <2>1. \A i \in DOMAIN plan.slices : Owner[plan.slices[i].oid] # t.acct
    BY SMTT(30), <1>4, <1>5, <1>6 DEF Ledger
  <2>2. plan.filled + plan.remaining = t.qty /\ plan.remaining >= 0
    BY <1>4, <1>5
  <2> QED BY <2>1, <2>2, <1>3, <1>4 DEF Exact, start
<1>8. Exhausts(rows, t, plan)
  <2> SUFFICES ASSUME plan.remaining > 0, ~plan.truncated
               PROVE  Executable(plan.after, t) = {}
    BY DEF Exhausts
  <2>1. w.queue = <<>>
    BY <1>4, <1>5 DEF Done
  <2>2. ToSet(w.queue) = {}
    BY <2>1 DEF ToSet
  <2>3. plan.after = rows \ start
    BY <2>2, <1>4
  <2> QED BY <2>3 DEF Executable, start
<1>9. Fair(rows, t, plan)
  <2> DEFINE T(o) == Taken(w.slices, o)
  <2> SUFFICES ASSUME NEW r \in start, NEW s \in start, T(s.oid) > 0
               PROVE  /\ r.price # s.price /\ Before(r, s) => T(r.oid) = r.qty + r.hidden
                      /\ r.price = s.price /\ Before(r, s) => T(r.oid) >= r.qty
                      /\ r.price = s.price /\ T(s.oid) > s.qty => T(r.oid) >= r.qty
    BY <1>4 DEF Fair, start
  <2>1. /\ r.side = s.side /\ r.price \in Nat /\ s.price \in Nat
        /\ r.qty \in Nat /\ s.qty \in Nat /\ r.hidden \in Nat
        /\ T(r.oid) \in Nat /\ T(s.oid) \in Nat
    BY <1>1, <1>3, <1>4 DEF Sound, OneSided, Row
  <2>2. CASE \E i \in DOMAIN w.queue : w.queue[i].oid = r.oid
    <3>1. /\ ~Better(r, s)
          /\ r.price = s.price /\ T(r.oid) < r.qty => ~Before(r, s) /\ T(s.oid) <= s.qty
      BY <2>2, <1>5 DEF NobodyPassed, Fresh
    <3>2. r.price # s.price /\ Before(r, s) => Better(r, s)
      BY <2>1 DEF Before, Better
    <3> HIDE DEF T
    <3> QED BY <3>1, <3>2, <2>1
  <2>3. CASE \A i \in DOMAIN w.queue : w.queue[i].oid # r.oid
    <3>1. T(r.oid) = r.qty + r.hidden
      BY <2>3, <1>5 DEF Ledger, Amount
    <3> HIDE DEF T
    <3> QED BY <3>1, <2>1
  <2> QED BY <2>2, <2>3
<1> QED BY <1>7, <1>8, <1>9 DEF KeepsContract, plan

-----------------------------------------------------------------------------
(* The book of the engine, and what each change makes of it. *)

(* What a caller sees of a change. *)
More(v, o)    == [v EXCEPT !.left[o] = @ + Detail[o].qty]
Less(v, o, n) == [v EXCEPT !.left[o] = IF n < @ THEN @ - n ELSE 0]
Viewed(v, c) ==
  CASE c.kind = "place"   -> More(v, c.oid)
    [] c.kind = "remove"  -> [v EXCEPT !.left[c.oid] = 0]
    [] c.kind = "reduce"  -> Less(v, c.oid, c.n)
    [] c.kind = "refresh" -> [v EXCEPT !.quotes = Ladder(c.n)]
    [] c.kind = "prune"   -> [v EXCEPT !.left =
         [o \in Orders |-> IF o \in Virtual /\ Detail[o].expires <= c.n
                           THEN 0 ELSE v.left[o]]]

(* Orders and quotes are different things. *)
LEMMA NoOrderIsQuote ==
  ASSUME NEW r \in Row
  PROVE  IsQuote(r) <=> r.oid \notin Orders
BY MatchingAssumption DEF IsQuote, Row

(* What rows hold of an order depends on its own rows only. *)
LEMMA SameLeft ==
  ASSUME NEW A, NEW B, NEW o, {s \in A : s.oid = o} = {s \in B : s.oid = o}
  PROVE  Left(A, o) = Left(B, o)
BY DEF Left

(* What can be seen of rows, field by field. *)
LEMMA ViewIs ==
  ASSUME NEW rows
  PROVE  /\ View(rows) = [left |-> View(rows).left, quotes |-> View(rows).quotes]
         /\ View(rows).left = [o \in Orders |-> Left(rows, o)]
         /\ View(rows).quotes = {[side |-> r.side, price |-> r.price, size |-> r.qty] :
                                   r \in {s \in rows : s.oid \in External}}
BY DEF View

(* A book with the same quotes looks the same but for what is left of the orders. *)
LEMMA SameQuotes ==
  ASSUME NEW A, NEW B, \A r : r.oid \in External => (r \in A <=> r \in B), NEW f,
         \A o \in Orders : Left(A, o) = f[o], f = [o \in Orders |-> f[o]]
  PROVE  View(A) = [View(B) EXCEPT !.left = f]
<1>1. {s \in A : s.oid \in External} = {s \in B : s.oid \in External}
  OBVIOUS
<1>2. View(A).quotes = View(B).quotes
  BY <1>1, ViewIs
<1>3. View(A).left = f
  <2>1. [o \in Orders |-> Left(A, o)] = [o \in Orders |-> f[o]]
    OBVIOUS
  <2> QED BY <2>1, ViewIs
<1>4. [View(B) EXCEPT !.left = f] = [left |-> f, quotes |-> View(B).quotes]
  <2>1. ASSUME NEW x, NEW y
        PROVE  [[left |-> x, quotes |-> y] EXCEPT !.left = f] = [left |-> f, quotes |-> y]
    OBVIOUS
  <2>2. View(B) = [left |-> View(B).left, quotes |-> View(B).quotes]
    BY ViewIs
  <2> QED BY ONLY <2>1, <2>2
<1> QED BY <1>2, <1>3, <1>4, ViewIs

(* The largest of some numbers and one more. *)
LEMMA MaxWith ==
  ASSUME NEW S \in SUBSET Nat, IsFiniteSet(S), NEW n \in Nat
  PROVE  /\ Max(S \cup {n}) \in S \cup {n} /\ Max(S \cup {n}) \in Nat
         /\ n <= Max(S \cup {n}) /\ \A m \in S : m <= Max(S \cup {n})
<1>1. IsFiniteSet(S \cup {n}) /\ S \cup {n} \in SUBSET Nat /\ S \cup {n} # {}
  BY FS_AddElement
<1> QED BY <1>1, MaxOfSet

(* A new order: the only row of its id, numbered after all others. *)
LEMMA PlacedKeeps ==
  ASSUME NEW t \in Nat, NEW b, Kept(b, t), NEW o \in Orders, ~Has(b.rows, o)
  PROVE  /\ Kept(Placed(o, b, t), t)
         /\ View(Placed(o, b, t).rows) = More(View(b.rows), o)
         /\ \A p \in Orders : Has(Placed(o, b, t).rows, p) => p = o \/ Has(b.rows, p)
<1> DEFINE d == Detail[o]
           show == Min({d.display, d.qty})
           new == [oid |-> o, side |-> d.side, price |-> d.price, qty |-> show,
                   hidden |-> d.qty - show, display |-> d.display, time |-> t,
                   seq |-> b.seq + 1]
           B == b.rows
           C == B \cup {new}
<1>1. d \in OrderData
  BY MatchingAssumption
<1>2. show \in Nat \ {0} /\ d.qty - show \in Nat /\ show + (d.qty - show) = d.qty
  <2>1. d.display \in Nat \ {0} /\ d.qty \in Nat \ {0}
    BY <1>1 DEF OrderData
  <2> HIDE DEF d
  <2>3. d.display \in Int /\ d.qty \in Int
    BY <2>1
  <2>2. show \in {d.display, d.qty} /\ show <= d.qty
    BY ONLY <2>3, MinOfTwo
  <2> HIDE DEF show, d
  <2> QED BY <2>1, <2>2
<1>3. b.seq \in Nat /\ B \in SUBSET Row /\ IsFiniteSet(B)
  BY DEF Kept, Book, Sound
<1>4. new \in Row
  BY <1>1, <1>2, <1>3 DEF Row, OrderData
<1>5. Placed(o, b, t) = [rows |-> C, seq |-> b.seq + 1]
  BY DEF Placed
<1>6. /\ new.oid = o /\ new.side = Detail[o].side /\ new.seq = b.seq + 1 /\ new.time = t
      /\ Amount(new) = Detail[o].qty
  BY <1>2 DEF Amount
<1> HIDE DEF new, show, d
<1>7. \A r \in B : r.oid # o /\ r.seq <= b.seq /\ r.seq \in Nat /\ r # new
  BY <1>3, <1>6 DEF Has, Kept, Row
<1>8. IsFiniteSet(C) /\ C \in SUBSET Row
  BY <1>3, <1>4, FS_AddElement
<1>9. Sound(C)
  <2>1. ~IsQuote(new)
    BY <1>4, <1>6, NoOrderIsQuote
  <2>2. ASSUME NEW r \in B, NEW s \in B, r.side = s.side,
               r.oid = s.oid \/ (r.seq = s.seq /\ (IsQuote(r) <=> IsQuote(s)))
        PROVE  r = s
    BY <2>2 DEF Kept, Sound
  <2>3. ASSUME NEW r \in C, NEW s \in C, r.side = s.side,
               r.oid = s.oid \/ (r.seq = s.seq /\ (IsQuote(r) <=> IsQuote(s)))
        PROVE  r = s
    <3>1. \A x \in B : x.oid # new.oid /\ x.seq # new.seq
      BY <1>3, <1>6, <1>7
    <3> QED BY <3>1, <2>2, <2>3
  <2>4. \A r \in C : IsQuote(r) => r.hidden = 0
    BY <2>1 DEF Kept, Sound
  <2> QED BY <1>8, <2>3, <2>4 DEF Sound
<1>10. Kept(Placed(o, b, t), t)
  <2>1. \A r \in C : r.seq <= b.seq + 1 /\ r.time <= t
    BY <1>3, <1>6, <1>7 DEF Kept
  <2>2. \A r \in C : r.oid \in Orders => r.side = Detail[r.oid].side
    BY <1>6 DEF Kept
  <2> QED BY <1>3, <1>5, <1>8, <1>9, <2>1, <2>2 DEF Kept, Book
<1>11. View(C) = More(View(B), o)
  <2> DEFINE f == [View(B).left EXCEPT ![o] = @ + Detail[o].qty]
  <2>0. f = [p \in Orders |-> IF p = o THEN Left(B, o) + Detail[o].qty ELSE Left(B, p)]
    BY DEF View
  <2> HIDE DEF f
  <2>1. \A p \in Orders : p # o => Left(C, p) = f[p]
    <3> TAKE p \in Orders
    <3> HAVE p # o
    <3>1. {s \in C : s.oid = p} = {s \in B : s.oid = p}
      BY <1>6
    <3>2. Left(C, p) = Left(B, p)
      BY <3>1, SameLeft
    <3> QED BY <2>0, <3>2
  <2>2. Left(C, o) = f[o]
    <3>1. Left(B, o) = 0
      BY <1>7, LeftNone
    <3>2. Left(C, o) = Detail[o].qty
      <4>1. \A s \in C : s.oid = new.oid => s = new
        BY <1>6, <1>7
      <4> QED BY <4>1, <1>6, <1>8, LeftOne
    <3>3. Detail[o].qty \in Nat
      BY MatchingAssumption DEF OrderData
    <3> QED BY <3>1, <3>2, <3>3, <2>0
  <2>3. \A r : r.oid \in External => (r \in C <=> r \in B)
    BY <1>6, MatchingAssumption
  <2>4. f = [p \in Orders |-> f[p]]
    BY <2>0
  <2> HIDE DEF C, B
  <2>6. \A p \in Orders : Left(C, p) = f[p]
    BY <2>1, <2>2
  <2>5. View(C) = [View(B) EXCEPT !.left = f]
    BY <2>3, <2>4, <2>6, SameQuotes
  <2> QED BY <2>5 DEF f, More
<1> QED BY <1>5, <1>6, <1>10, <1>11 DEF Has

(* A book that lost rows is in order. *)
LEMMA FewerKept ==
  ASSUME NEW t, NEW b, Kept(b, t), NEW D \in SUBSET b.rows
  PROVE  /\ Kept([b EXCEPT !.rows = D], t)
         /\ [b EXCEPT !.rows = D].rows = D
         /\ \A p : Has(D, p) => Has(b.rows, p)
<1>1. [b EXCEPT !.rows = D] = [rows |-> D, seq |-> b.seq]
  BY DEF Kept, Book
<1>2. IsFiniteSet(D)
  BY FS_Subset DEF Kept, Sound
<1>3. Sound(D)
  BY <1>2 DEF Kept, Sound
<1>4. [rows |-> D, seq |-> b.seq] \in Book
  BY DEF Kept, Book, Sound
<1> QED BY <1>1, <1>3, <1>4 DEF Kept, Has

(* Rows are taken away: what is left of each order is all or nothing. *)
LEMMA RemovedKeeps ==
  ASSUME NEW t, NEW b, Kept(b, t), NEW o \in Orders
  PROVE  /\ Kept(Removed(o, b), t)
         /\ View(Removed(o, b).rows) = [View(b.rows) EXCEPT !.left[o] = 0]
         /\ \A p \in Orders : Has(Removed(o, b).rows, p) => Has(b.rows, p)
<1> DEFINE D == {r \in b.rows : r.oid # o}
           f == [View(b.rows).left EXCEPT ![o] = 0]
<1>1. Removed(o, b) = [b EXCEPT !.rows = D] /\ D \in SUBSET b.rows
  BY DEF Removed
<1>2. f = [p \in Orders |-> IF p = o THEN 0 ELSE Left(b.rows, p)]
  BY DEF View
<1>3. \A p \in Orders : Left(D, p) = f[p]
  <2> HIDE DEF f
  <2>1. ASSUME NEW p \in Orders, p # o PROVE Left(D, p) = Left(b.rows, p)
    <3>1. {s \in D : s.oid = p} = {s \in b.rows : s.oid = p}
      BY <2>1
    <3> QED BY <3>1, SameLeft
  <2>2. Left(D, o) = 0
    BY LeftNone
  <2> QED BY <2>1, <2>2, <1>2
<1>4. \A r : r.oid \in External => (r \in D <=> r \in b.rows)
  BY MatchingAssumption
<1>5. f = [p \in Orders |-> f[p]]
  BY <1>2
<1>6. View(D) = [View(b.rows) EXCEPT !.left = f]
  <2> HIDE DEF D, f
  <2> QED BY <1>3, <1>4, <1>5, SameQuotes
<1> HIDE DEF D
<1> QED BY <1>1, <1>6, FewerKept

(* Removing expired offers keeps a book in order; exactly those are gone from its
   view. *)
LEMMA PrunedKeeps ==
  ASSUME NEW t, NEW b, Kept(b, t), NEW tick \in Nat
  PROVE  /\ Kept(Pruned(tick, b), t)
         /\ View(Pruned(tick, b).rows) =
              [View(b.rows) EXCEPT !.left =
                 [o \in Orders |-> IF o \in Virtual /\ Detail[o].expires <= tick
                                   THEN 0 ELSE View(b.rows).left[o]]]
         /\ \A p \in Orders : Has(Pruned(tick, b).rows, p) => Has(b.rows, p)
<1> DEFINE Gone(o) == o \in Virtual /\ Detail[o].expires <= tick
           D == {r \in b.rows : ~Gone(r.oid)}
           f == [o \in Orders |-> IF Gone(o) THEN 0 ELSE View(b.rows).left[o]]
<1>1. Pruned(tick, b) = [b EXCEPT !.rows = D] /\ D \in SUBSET b.rows
  BY DEF Pruned
<1>2. f = [o \in Orders |-> IF Gone(o) THEN 0 ELSE Left(b.rows, o)]
  BY DEF View
<1>3. \A p \in Orders : Left(D, p) = f[p]
  <2> HIDE DEF f, Gone
  <2>1. ASSUME NEW p \in Orders, ~Gone(p) PROVE Left(D, p) = Left(b.rows, p)
    <3>1. {s \in D : s.oid = p} = {s \in b.rows : s.oid = p}
      BY <2>1
    <3> QED BY <3>1, SameLeft
  <2>2. ASSUME NEW p \in Orders, Gone(p) PROVE Left(D, p) = 0
    BY <2>2, LeftNone
  <2> QED BY <2>1, <2>2, <1>2
<1>4. \A r : r.oid \in External => (r \in D <=> r \in b.rows)
  BY MatchingAssumption DEF Virtual
<1>5. f = [p \in Orders |-> f[p]]
  OBVIOUS
<1>6. View(D) = [View(b.rows) EXCEPT !.left = f]
  <2> HIDE DEF D, f
  <2> QED BY <1>3, <1>4, <1>5, SameQuotes
<1> HIDE DEF D
<1> QED BY <1>1, <1>6, FewerKept

(* A reduction changes one row, and sends an iceberg whose visible lot it uses up to
   the back. *)
LEMMA CutRow ==
  ASSUME NEW t \in Nat, NEW r \in Row, NEW n \in Nat, NEW seq, seq \in Nat,
         NEW amount, amount = IF n < Amount(r) THEN Amount(r) - n ELSE 0
  PROVE  \/ Cut(r, n, seq, t) = {} /\ amount = 0
         \/ \E k \in Row : /\ Cut(r, n, seq, t) = {k} /\ Amount(k) = amount
                           /\ k.oid = r.oid /\ k.side = r.side
                           /\ \/ k.seq = r.seq /\ k.time = r.time
                              \/ k.seq = seq /\ k.time = t
                           /\ k.hidden <= r.hidden
<1> DEFINE left == r.qty + r.hidden - n
           show == Min({r.display, left})
<1>1. /\ r.qty \in Nat \ {0} /\ r.hidden \in Nat /\ r.display \in Nat \ {0}
      /\ Amount(r) = r.qty + r.hidden
  BY DEF Row, Amount
<1>2. CASE n < r.qty
  <2> DEFINE k == [r EXCEPT !.qty = @ - n]
  <2>1. Cut(r, n, seq, t) = {k}
    BY <1>2 DEF Cut
  <2>2. r.qty - n \in Nat \ {0}
    BY <1>1, <1>2
  <2>3. k \in Row /\ k.qty = r.qty - n /\ k.hidden = r.hidden
    BY <2>2 DEF Row
  <2>4. k.oid = r.oid /\ k.side = r.side /\ k.seq = r.seq /\ k.time = r.time
    BY DEF Row
  <2> HIDE DEF k
  <2>5. Amount(k) = Amount(r) - n /\ n < Amount(r) /\ k.hidden <= r.hidden
    BY <1>1, <1>2, <2>3 DEF Amount
  <2> QED BY <2>1, <2>3, <2>4, <2>5
<1>3. CASE ~(n < r.qty) /\ left <= 0
  <2>1. Cut(r, n, seq, t) = {}
    BY <1>3 DEF Cut
  <2> QED BY <2>1, <1>1, <1>3
<1>4. CASE ~(n < r.qty) /\ ~(left <= 0)
  <2> DEFINE k == [r EXCEPT !.qty = show, !.hidden = left - show, !.time = t, !.seq = seq]
  <2>1. Cut(r, n, seq, t) = {k}
    BY <1>4 DEF Cut
  <2>2. left \in Nat \ {0} /\ r.display \in Int /\ left <= r.hidden /\ left < Amount(r) + 1
    BY <1>1, <1>4
  <2>3. show \in Nat \ {0} /\ left - show \in Nat /\ left - show <= r.hidden
    <3> HIDE DEF left
    <3>1. left \in Int
      BY <2>2
    <3>2. show \in {r.display, left} /\ show <= left
      <4> HIDE DEF show
      <4> QED BY ONLY <3>1, <2>2, MinOfTwo DEF show
    <3> HIDE DEF show
    <3> QED BY <1>1, <2>2, <3>2
  <2>4. k \in Row /\ k.qty = show /\ k.hidden = left - show
    <3> HIDE DEF left, show
    <3> QED BY <2>3 DEF Row
  <2>5. k.oid = r.oid /\ k.side = r.side /\ k.seq = seq /\ k.time = t
    BY DEF Row
  <2> HIDE DEF k, show
  <2>6. Amount(k) = Amount(r) - n /\ n < Amount(r) /\ k.hidden <= r.hidden
    <3>1. Amount(k) = show + (left - show)
      BY <2>4 DEF Amount
    <3>2. Amount(k) = left
      <4> HIDE DEF left
      <4> QED BY <3>1, <2>2, <2>3
    <3> QED BY <3>2, <1>1, <2>2, <2>3, <2>4
  <2> QED BY <2>1, <2>4, <2>5, <2>6
<1> QED BY <1>2, <1>3, <1>4

(* An order has one row. *)
LEMMA OneRow ==
  ASSUME NEW t, NEW b, Kept(b, t), NEW r \in b.rows, r.oid \in Orders
  PROVE  \A s \in b.rows : s.oid = r.oid => s = r
BY DEF Kept, Sound

(* Reducing an order keeps a book in order and takes that much of the order,
   hidden part included. *)
LEMMA ReducedKeeps ==
  ASSUME NEW t \in Nat, NEW b, Kept(b, t), NEW o \in Orders, NEW n \in Nat
  PROVE  /\ Kept(Reduced(o, n, b, t), t)
         /\ View(Reduced(o, n, b, t).rows) = Less(View(b.rows), o, n)
         /\ \A p \in Orders : Has(Reduced(o, n, b, t).rows, p) => Has(b.rows, p)
<1> DEFINE B    == b.rows
           own  == {r \in B : r.oid = o}
           kept == UNION {Cut(r, n, b.seq + 1, t) : r \in own}
           C    == (B \ own) \cup kept
           top  == Max({r.seq : r \in kept} \cup {b.seq})
           left == IF n < Left(B, o) THEN Left(B, o) - n ELSE 0
           f    == [View(B).left EXCEPT ![o] = IF n < @ THEN @ - n ELSE 0]
<1>1. Reduced(o, n, b, t) = [rows |-> C, seq |-> top]
  BY DEF Reduced
<1>2. b.seq \in Nat /\ B \in SUBSET Row /\ IsFiniteSet(B) /\ Left(B, o) \in Nat
  BY LeftSum DEF Kept, Book, Sound
<1>3. f = [p \in Orders |-> IF p = o THEN left ELSE Left(B, p)]
  BY DEF View
<1>4. \A r \in B \ own : r.oid # o
  OBVIOUS
<1>5. \/ kept = {} /\ left = 0
      \/ \E r \in B, k \in Row :
        /\ kept = {k} /\ Amount(k) = left /\ r.oid = o
        /\ k.oid = r.oid /\ k.side = r.side /\ k.hidden <= r.hidden
        /\ \/ k.seq = r.seq /\ k.time = r.time
           \/ k.seq = b.seq + 1 /\ k.time = t
  <2>1. CASE own = {}
    <3>1. kept = {}
      BY <2>1
    <3>2. Left(B, o) = 0
      BY <2>1, LeftNone
    <3> QED BY <3>1, <3>2
  <2>2. CASE own # {}
    <3>1. PICK r \in own : TRUE
      BY <2>2
    <3>2. r \in B /\ r.oid = o /\ r \in Row
      BY <3>1, <1>2
    <3>3. \A s \in B : s.oid = r.oid => s = r
      BY <3>2, OneRow
    <3>4. own = {r}
      BY <3>2, <3>3
    <3>5. kept = Cut(r, n, b.seq + 1, t)
      BY <3>4
    <3>6. Left(B, o) = Amount(r)
      BY <3>2, <3>3, <1>2, LeftOne
    <3>7. b.seq + 1 \in Nat
      BY <1>2
    <3>9. left = IF n < Amount(r) THEN Amount(r) - n ELSE 0
      BY <3>6
    <3> HIDE DEF kept, own, left
    <3>8. \/ kept = {} /\ left = 0
          \/ \E k \in Row : /\ kept = {k} /\ Amount(k) = left
                            /\ k.oid = r.oid /\ k.side = r.side
                            /\ \/ k.seq = r.seq /\ k.time = r.time
                               \/ k.seq = b.seq + 1 /\ k.time = t
                            /\ k.hidden <= r.hidden
      BY <3>2, <3>5, <3>7, <3>9, CutRow
    <3> QED BY <3>2, <3>8
  <2> QED BY <2>1, <2>2
<1>6. /\ IsFiniteSet(kept) /\ kept \in SUBSET Row /\ top \in Nat /\ b.seq <= top
      /\ \A k \in kept : k.oid = o /\ k.seq <= top
  <2>1. IsFiniteSet(kept) /\ kept \in SUBSET Row /\ \A k \in kept : k.oid = o
    <3> HIDE DEF kept
    <3>1. CASE kept = {}
      BY <3>1, FS_EmptySet
    <3>2. CASE kept # {}
      <4>1. PICK k \in Row : kept = {k} /\ k.oid = o
        BY <1>5, <3>2
      <4> QED BY <4>1, FS_Singleton
    <3> QED BY <3>1, <3>2
  <2> HIDE DEF kept
  <2> DEFINE S == {k.seq : k \in kept}
  <2>2. IsFiniteSet(S) /\ S \in SUBSET Nat
    <3> DEFINE g == [k \in kept |-> k.seq]
    <3>1. DOMAIN g = kept /\ \A k \in kept : g[k] = k.seq
      OBVIOUS
    <3>2. IsFiniteSet({g[k] : k \in kept})
      <4> HIDE DEF g
      <4> QED BY <2>1, <3>1, ImageFinite
    <3>3. {g[k] : k \in kept} = S
      OBVIOUS
    <3> QED BY <2>1, <3>2, <3>3 DEF Row
  <2>3. top = Max(S \cup {b.seq})
    OBVIOUS
  <2> HIDE DEF S, top
  <2>4. top \in Nat /\ b.seq <= top /\ \A m \in S : m <= top
    BY <2>2, <2>3, <1>2, MaxWith
  <2> QED BY <2>1, <2>4 DEF S
<1> HIDE DEF left, top
<1>7. IsFiniteSet(C) /\ C \in SUBSET Row
  <2>1. IsFiniteSet(B \ own)
    BY <1>2, FS_Subset
  <2> HIDE DEF kept, own
  <2> QED BY <2>1, <1>2, <1>6, FS_Union
<1>8. \A r \in C : (r \in B /\ r.oid # o) \/ r \in kept
  OBVIOUS
<1>9. \A r \in B : /\ r.seq <= b.seq /\ r.time <= t /\ r.seq \in Nat
                   /\ r.oid \in Orders => r.side = Detail[r.oid].side
  BY <1>2 DEF Kept, Row
<1> HIDE DEF kept, own
<1>10. \A k \in kept : /\ k.oid = o /\ k.side = Detail[o].side /\ k.time <= t /\ ~IsQuote(k)
                       /\ \A s \in B : s.oid # o /\ k.seq = s.seq => s.side # k.side \/ IsQuote(s)
  <2> TAKE k \in kept
  <2>1. PICK r \in B : /\ r.oid = o /\ k.oid = r.oid /\ k.side = r.side
                       /\ \/ k.seq = r.seq /\ k.time = r.time
                          \/ k.seq = b.seq + 1 /\ k.time = t
    BY <1>5
  <2>2. k.side = Detail[o].side /\ k.time <= t
    BY <2>1, <1>9
  <2>3. ~IsQuote(k) /\ ~IsQuote(r)
    BY <2>1, <1>2, <1>6, NoOrderIsQuote
  <2>4. ASSUME NEW s \in B, s.oid # o, k.seq = s.seq, s.side = k.side, ~IsQuote(s)
        PROVE  FALSE
    <3>1. k.seq = r.seq
      BY <2>1, <2>4, <1>2, <1>9
    <3>2. r.seq = s.seq /\ r.side = s.side /\ (IsQuote(r) <=> IsQuote(s))
      BY <3>1, <2>1, <2>3, <2>4
    <3>3. r = s
      BY <3>2 DEF Kept, Sound
    <3> QED BY <3>3, <2>1, <2>4
  <2> QED BY <2>1, <2>2, <2>3, <2>4
<1>11. Sound(C)
  <2>1. ASSUME NEW r \in B, NEW s \in B, r.side = s.side,
               r.oid = s.oid \/ (r.seq = s.seq /\ (IsQuote(r) <=> IsQuote(s)))
        PROVE  r = s
    BY <2>1 DEF Kept, Sound
  <2>2. \A r, s \in kept : r = s
    BY <1>5
  <2>3. ASSUME NEW r \in C, NEW s \in C, r.side = s.side,
               r.oid = s.oid \/ (r.seq = s.seq /\ (IsQuote(r) <=> IsQuote(s)))
        PROVE  r = s
    BY <2>1, <2>2, <2>3, <1>8, <1>10
  <2>4. \A r \in C : IsQuote(r) => r.hidden = 0
    BY <1>8, <1>10 DEF Kept, Sound
  <2> QED BY <1>7, <2>3, <2>4 DEF Sound
<1>12. Kept(Reduced(o, n, b, t), t)
  <2>1. \A r \in C : /\ r.seq <= top /\ r.time <= t
                     /\ r.oid \in Orders => r.side = Detail[r.oid].side
    BY <1>2, <1>6, <1>8, <1>9, <1>10
  <2> QED BY <1>1, <1>6, <1>7, <1>11, <2>1 DEF Kept, Book
<1>13. View(C) = Less(View(B), o, n)
  <2>1. \A p \in Orders : Left(C, p) = f[p]
    <3> HIDE DEF f
    <3>1. ASSUME NEW p \in Orders, p # o PROVE Left(C, p) = Left(B, p)
      <4>1. {s \in C : s.oid = p} = {s \in B : s.oid = p}
        BY <3>1, <1>6 DEF own
      <4> QED BY <4>1, SameLeft
    <3>2. Left(C, o) = left
      <4>1. CASE kept = {}
        <5>1. \A s \in C : s.oid # o
          BY <4>1, <1>8
        <5>2. left = 0
          BY <4>1, <1>5
        <5> QED BY <5>1, <5>2, LeftNone
      <4>2. CASE kept # {}
        <5>1. PICK k \in kept : Amount(k) = left /\ k.oid = o /\ kept = {k}
          BY <4>2, <1>5, <1>10
        <5>2. k \in C /\ \A s \in C : s.oid = k.oid => s = k
          BY <5>1, <1>8
        <5> HIDE DEF C
        <5>3. Left(C, k.oid) = Amount(k)
          BY <5>2, <1>7, LeftOne
        <5> QED BY <5>1, <5>3
      <4> QED BY <4>1, <4>2
    <3> QED BY <3>1, <3>2, <1>3
  <2>2. \A r : r.oid \in External => (r \in C <=> r \in B)
    BY <1>6, MatchingAssumption DEF own
  <2>3. f = [p \in Orders |-> f[p]]
    BY <1>3
  <2> HIDE DEF C, f
  <2>4. View(C) = [View(B) EXCEPT !.left = f]
    BY <2>1, <2>2, <2>3, SameQuotes
  <2> QED BY <2>4 DEF f, Less
<1>14. \A p \in Orders : Has(C, p) => Has(B, p)
  <2> SUFFICES ASSUME NEW p \in Orders, NEW r \in C, r.oid = p PROVE Has(B, p)
    BY DEF Has
  <2>1. CASE r \in kept
    BY <2>1, <1>5 DEF Has
  <2> QED BY <2>1, <1>8 DEF Has
<1> HIDE DEF C
<1> QED BY <1>1, <1>12, <1>13, <1>14

(* A refresh replaces all quotes by its own: one of a level on each side. *)
LEMMA LevelQuote ==
  ASSUME NEW t \in Nat, NEW seq, seq \in Nat, NEW mid \in Mids, NEW i \in DOMAIN Levels,
         NEW side \in {"ask", "bid"}
  PROVE  /\ Quote(side, i, mid, seq, t) \in Row
         /\ Quote(side, i, mid, seq, t).oid = Levels[i] /\ Levels[i] \in External
         /\ Quote(side, i, mid, seq, t).side = side /\ Quote(side, i, mid, seq, t).seq = seq
         /\ Quote(side, i, mid, seq, t).time = t /\ Quote(side, i, mid, seq, t).hidden = 0
         /\ Quote(side, i, mid, seq, t).price = LevelPrice(side, i, mid)
         /\ Quote(side, i, mid, seq, t).qty = Depth
<1>1. /\ Levels \in Seq(External) /\ Spread \in Nat \ {0} /\ Depth \in Nat \ {0}
      /\ mid \in Nat /\ Len(Levels) * Spread <= mid
  BY MatchingAssumption
<1>2. i \in 1..Len(Levels) /\ Len(Levels) \in Nat /\ Levels[i] \in External
  BY <1>1
<1>3. i * Spread \in Nat /\ i * Spread <= Len(Levels) * Spread /\ Len(Levels) * Spread \in Nat
  <2>1. ASSUME NEW n, n \in Nat, NEW k, k \in 1..n, NEW s, s \in Nat
        PROVE  k * s \in Nat /\ k * s <= n * s /\ n * s \in Nat
    BY <2>1
  <2> HIDE DEF External
  <2> QED BY <2>1, <1>1, <1>2
<1>4. LevelPrice(side, i, mid) \in Nat
  BY <1>1, <1>3 DEF LevelPrice
<1> QED BY <1>1, <1>2, <1>4 DEF Quote, Row

(* A refresh keeps a book in order and changes its quotes only. *)
LEMMA RefreshedKeeps ==
  ASSUME NEW t \in Nat, NEW b, Kept(b, t), NEW mid \in Mids
  PROVE  /\ Kept(Refreshed(mid, b, t), t)
         /\ View(Refreshed(mid, b, t).rows) = [View(b.rows) EXCEPT !.quotes = Ladder(mid)]
         /\ \A p \in Orders : Has(Refreshed(mid, b, t).rows, p) => Has(b.rows, p)
<1> DEFINE B == b.rows
           D == {r \in B : r.oid \notin External}
           L == DOMAIN Levels
           A(i) == Quote("ask", i, mid, b.seq + 2 * i - 1, t)
           G(i) == Quote("bid", i, mid, b.seq + 2 * i, t)
           Q == UNION {{A(i), G(i)} : i \in L}
           C == D \cup Q
           top == b.seq + 2 * Len(Levels)
<1>1. Refreshed(mid, b, t) = [rows |-> C, seq |-> top]
  BY DEF Refreshed
<1>2. /\ b.seq \in Nat /\ B \in SUBSET Row /\ IsFiniteSet(B)
      /\ L = 1..Len(Levels) /\ Len(Levels) \in Nat /\ top \in Nat
      /\ \A i \in L, j \in L : Levels[i] = Levels[j] => i = j
  BY MatchingAssumption DEF Kept, Book, Sound, IsInjective
<1>3. \A i \in L : /\ b.seq + 2 * i - 1 \in Nat /\ b.seq + 2 * i \in Nat /\ i \in Nat
                   /\ b.seq + 2 * i - 1 > b.seq /\ b.seq + 2 * i > b.seq
                   /\ b.seq + 2 * i - 1 <= top /\ b.seq + 2 * i <= top
  BY SMTT(30), <1>2
<1>4. \A i \in L : /\ A(i) \in Row /\ A(i).oid = Levels[i] /\ A(i).side = "ask"
                   /\ A(i).seq = b.seq + 2 * i - 1 /\ A(i).time = t /\ A(i).hidden = 0
                   /\ A(i).price = LevelPrice("ask", i, mid) /\ A(i).qty = Depth
                   /\ Levels[i] \in External
  <2> TAKE i \in L
  <2> DEFINE n == b.seq + 2 * i - 1
  <2>1. n \in Nat
    BY <1>3
  <2>2. A(i) = Quote("ask", i, mid, n, t)
    OBVIOUS
  <2> HIDE DEF n, A
  <2>3. /\ A(i) \in Row /\ A(i).oid = Levels[i] /\ A(i).side = "ask"
        /\ A(i).seq = n /\ A(i).time = t /\ A(i).hidden = 0
        /\ A(i).price = LevelPrice("ask", i, mid) /\ A(i).qty = Depth
        /\ Levels[i] \in External
    BY <2>1, <2>2, LevelQuote
  <2> QED BY <2>3 DEF n
<1>5. \A i \in L : /\ G(i) \in Row /\ G(i).oid = Levels[i] /\ G(i).side = "bid"
                   /\ G(i).seq = b.seq + 2 * i /\ G(i).time = t /\ G(i).hidden = 0
                   /\ G(i).price = LevelPrice("bid", i, mid) /\ G(i).qty = Depth
                   /\ Levels[i] \in External
  <2> TAKE i \in L
  <2> DEFINE n == b.seq + 2 * i
  <2>1. n \in Nat
    BY <1>3
  <2>2. G(i) = Quote("bid", i, mid, n, t)
    OBVIOUS
  <2> HIDE DEF n, G
  <2>3. /\ G(i) \in Row /\ G(i).oid = Levels[i] /\ G(i).side = "bid"
        /\ G(i).seq = n /\ G(i).time = t /\ G(i).hidden = 0
        /\ G(i).price = LevelPrice("bid", i, mid) /\ G(i).qty = Depth
        /\ Levels[i] \in External
    BY <2>1, <2>2, LevelQuote
  <2> QED BY <2>3 DEF n
<1>6. Q = {A(i) : i \in L} \cup {G(i) : i \in L}
  OBVIOUS
<1>7. IsFiniteSet(Q)
  <2> DEFINE a == [i \in L |-> A(i)]
             g == [i \in L |-> G(i)]
  <2>1. IsFiniteSet(L)
    BY <1>2, FS_Interval
  <2>2. DOMAIN a = L /\ DOMAIN g = L
    OBVIOUS
  <2>3. {a[i] : i \in L} = {A(i) : i \in L} /\ {g[i] : i \in L} = {G(i) : i \in L}
    OBVIOUS
  <2> HIDE DEF a, g, A, G, L, Q
  <2>4. IsFiniteSet({a[i] : i \in L}) /\ IsFiniteSet({g[i] : i \in L})
    BY <2>1, <2>2, ImageFinite
  <2> QED BY <2>3, <2>4, <1>6, FS_Union
<1> HIDE DEF A, G, top
<1>8. \A r \in Q : \E i \in L : r = A(i) \/ r = G(i)
  OBVIOUS
<1>9. \A r \in Q : /\ r \in Row /\ r.oid \in External /\ r.time = t /\ r.hidden = 0
                   /\ r.seq <= top /\ r.seq > b.seq /\ IsQuote(r)
  <2> TAKE r \in Q
  <2>1. PICK i \in L : r = A(i) \/ r = G(i)
    BY <1>8
  <2> HIDE DEF L
  <2> QED BY <2>1, <1>3, <1>4, <1>5 DEF IsQuote
<1>10. \A r \in Q, s \in Q : r.side = s.side /\ (r.oid = s.oid \/ r.seq = s.seq) => r = s
  <2> TAKE r \in Q, s \in Q
  <2>1. PICK i \in L : r = A(i) \/ r = G(i)
    BY <1>8
  <2>2. PICK j \in L : s = A(j) \/ s = G(j)
    BY <1>8
  <2>3. i \in Nat /\ j \in Nat /\ b.seq \in Nat
    BY <1>2, <1>3
  <2> HIDE DEF L, Q
  <2>4. CASE r = A(i) /\ s = A(j)
    <3>1. CASE i = j
      BY <3>1, <2>4
    <3>2. r.oid = Levels[i] /\ s.oid = Levels[j]
      BY <2>1, <2>2, <2>4, <1>4 DEF L
    <3>3. r.seq = b.seq + 2 * i - 1 /\ s.seq = b.seq + 2 * j - 1
      BY <2>1, <2>2, <2>4, <1>4 DEF L
    <3>4. r.oid = s.oid \/ r.seq = s.seq => i = j
      BY <2>3, <3>2, <3>3, <1>2
    <3> QED BY <3>1, <3>4
  <2>5. CASE r = G(i) /\ s = G(j)
    BY <2>3, <2>5, <1>2, <1>5
  <2>6. CASE r.side # s.side
    BY <2>6
  <2> QED BY <2>1, <2>2, <2>4, <2>5, <2>6, <1>4, <1>5
<1> HIDE DEF Q
<1>11. IsFiniteSet(C) /\ C \in SUBSET Row
  <2>1. IsFiniteSet(D)
    BY <1>2, FS_Subset
  <2> HIDE DEF D
  <2>2. IsFiniteSet(D \cup Q)
    BY <2>1, <1>7, FS_Union
  <2> QED BY <2>2, <1>2, <1>9 DEF D
<1>12. Sound(C)
  <2>1. \A r \in D : ~IsQuote(r)
    BY DEF IsQuote
  <2>2. ASSUME NEW r \in C, NEW s \in C, r.side = s.side,
               r.oid = s.oid \/ (r.seq = s.seq /\ (IsQuote(r) <=> IsQuote(s)))
        PROVE  r = s
    <3>1. CASE r \in D /\ s \in D
      BY <3>1, <2>2 DEF Kept, Sound
    <3>2. CASE r \in Q /\ s \in Q
      BY <3>2, <2>2, <1>10
    <3>3. (IsQuote(r) <=> IsQuote(s)) \/ r.oid # s.oid
      BY DEF IsQuote
    <3> QED BY <3>1, <3>2, <3>3, <2>1, <2>2, <1>9
  <2>3. \A r \in C : IsQuote(r) => r.hidden = 0
    BY <1>9 DEF Kept, Sound
  <2> QED BY <1>11, <2>2, <2>3 DEF Sound
<1>13. Kept(Refreshed(mid, b, t), t)
  <2>1. b.seq <= top
    BY <1>2 DEF top
  <2>2. \A r \in D : r.seq <= b.seq /\ r.time <= t /\ r.seq \in Nat
                     /\ (r.oid \in Orders => r.side = Detail[r.oid].side)
    BY <1>2 DEF Kept, Row
  <2>3. \A r \in D : r.seq <= top
    BY <2>1, <2>2, <1>2
  <2>4. \A r \in Q : r.time <= t /\ r.oid \notin Orders
    BY <1>9, MatchingAssumption
  <2>5. \A r \in C : /\ r.seq <= top /\ r.time <= t
                     /\ r.oid \in Orders => r.side = Detail[r.oid].side
    BY <2>2, <2>3, <2>4, <1>9
  <2> QED BY <1>1, <1>2, <1>11, <1>12, <2>5 DEF Kept, Book
<1>14. View(C) = [View(B) EXCEPT !.quotes = Ladder(mid)]
  <2>1. View(C).left = View(B).left
    <3>1. ASSUME NEW p \in Orders PROVE Left(C, p) = Left(B, p)
      <4>1. {s \in C : s.oid = p} = {s \in B : s.oid = p}
        BY <1>9, MatchingAssumption
      <4> QED BY <4>1, SameLeft
    <3>2. [p \in Orders |-> Left(C, p)] = [p \in Orders |-> Left(B, p)]
      BY <3>1
    <3> QED BY <3>2, ViewIs
  <2>2. View(C).quotes = Ladder(mid)
    <3> DEFINE Shown(r) == [side |-> r.side, price |-> r.price, size |-> r.qty]
    <3>1. {s \in C : s.oid \in External} = Q
      BY <1>9
    <3>2. View(C).quotes = {Shown(r) : r \in Q}
      BY <3>1, ViewIs
    <3>3. \A i \in L :
            /\ Shown(A(i)) = [side |-> "ask", price |-> LevelPrice("ask", i, mid), size |-> Depth]
            /\ Shown(G(i)) = [side |-> "bid", price |-> LevelPrice("bid", i, mid), size |-> Depth]
      BY <1>4, <1>5
    <3>4. Ladder(mid) =
            {[side |-> "ask", price |-> LevelPrice("ask", i, mid), size |-> Depth] : i \in L} \cup
            {[side |-> "bid", price |-> LevelPrice("bid", i, mid), size |-> Depth] : i \in L}
      BY DEF Ladder
    <3> HIDE DEF Shown
    <3>5. {Shown(r) : r \in Q} = {Shown(A(i)) : i \in L} \cup {Shown(G(i)) : i \in L}
      BY <1>6
    <3>6. {Shown(A(i)) : i \in L} =
            {[side |-> "ask", price |-> LevelPrice("ask", i, mid), size |-> Depth] : i \in L}
      BY ONLY <3>3
    <3>7. {Shown(G(i)) : i \in L} =
            {[side |-> "bid", price |-> LevelPrice("bid", i, mid), size |-> Depth] : i \in L}
      BY ONLY <3>3
    <3> QED BY ONLY <3>2, <3>4, <3>5, <3>6, <3>7
  <2>3. ASSUME NEW x, NEW y, NEW z
        PROVE  [[left |-> x, quotes |-> y] EXCEPT !.quotes = z] = [left |-> x, quotes |-> z]
    OBVIOUS
  <2>4. /\ View(B) = [left |-> View(B).left, quotes |-> View(B).quotes]
        /\ View(C) = [left |-> View(B).left, quotes |-> Ladder(mid)]
    BY <2>1, <2>2, ViewIs
  <2> QED BY ONLY <2>3, <2>4
<1>15. \A p \in Orders : Has(C, p) => Has(B, p)
  BY <1>9, MatchingAssumption DEF Has
<1> HIDE DEF C
<1> QED BY <1>1, <1>13, <1>14, <1>15

-----------------------------------------------------------------------------
(* Changes one by one, and changes that waited. *)

(* A book in order is in order at any later time. *)
LEMMA KeptLater ==
  ASSUME NEW t \in Nat, NEW u \in Nat, t <= u, NEW b, Kept(b, t)
  PROVE  Kept(b, u)
<1>1. \A r \in b.rows : r.time \in Nat
  BY DEF Kept, Book, Row
<1> QED BY <1>1 DEF Kept

(* Any change leaves a book in order, and can be told from what callers see. *)
LEMMA ChangeKeeps ==
  ASSUME NEW t \in Nat, NEW b, Kept(b, t), NEW c, Asks(c),
         c.kind = "place" => ~Has(b.rows, c.oid)
  PROVE  /\ Kept(Applied(b, c, t), t)
         /\ View(Applied(b, c, t).rows) = Viewed(View(b.rows), c)
         /\ \A p \in Orders : Has(Applied(b, c, t).rows, p) =>
              Has(b.rows, p) \/ (c.kind = "place" /\ p = c.oid)
<1>1. c.kind \in Kinds /\ c.n \in Nat
  BY DEF Asks, ChangeData
<1>2. CASE c.kind = "place"
  <2>1. c.oid \in Orders /\ Applied(b, c, t) = Placed(c.oid, b, t)
        /\ Viewed(View(b.rows), c) = More(View(b.rows), c.oid)
    BY <1>2 DEF Asks, Applied, Viewed
  <2> QED BY <2>1, <1>2, PlacedKeeps
<1>3. CASE c.kind = "remove"
  <2>1. c.oid \in Orders /\ Applied(b, c, t) = Removed(c.oid, b)
        /\ Viewed(View(b.rows), c) = [View(b.rows) EXCEPT !.left[c.oid] = 0]
    BY <1>3 DEF Asks, Applied, Viewed
  <2> QED BY SMTT(30), <2>1, RemovedKeeps
<1>4. CASE c.kind = "reduce"
  <2>1. c.oid \in Orders /\ Applied(b, c, t) = Reduced(c.oid, c.n, b, t)
        /\ Viewed(View(b.rows), c) = Less(View(b.rows), c.oid, c.n)
    BY <1>4 DEF Asks, Applied, Viewed
  <2> QED BY <2>1, <1>1, ReducedKeeps
<1>5. CASE c.kind = "refresh"
  <2>1. c.n \in Mids /\ Applied(b, c, t) = Refreshed(c.n, b, t)
        /\ Viewed(View(b.rows), c) = [View(b.rows) EXCEPT !.quotes = Ladder(c.n)]
    BY <1>5 DEF Asks, Applied, Viewed
  <2> QED BY <2>1, RefreshedKeeps
<1>6. CASE c.kind = "prune"
  <2>1. Applied(b, c, t) = Pruned(c.n, b)
        /\ Viewed(View(b.rows), c) =
             [View(b.rows) EXCEPT !.left =
                [o \in Orders |-> IF o \in Virtual /\ Detail[o].expires <= c.n
                                  THEN 0 ELSE View(b.rows).left[o]]]
    BY <1>6 DEF Applied, Viewed
  <2> QED BY <2>1, <1>1, PrunedKeeps
<1> QED BY <1>1, <1>2, <1>3, <1>4, <1>5, <1>6 DEF Kinds

ChangeRun(cs, t) == [n \in 1..Len(cs) |-> [x \in Book |-> Applied(x, cs[n], t)]]

(* After n of the changes: in order, and with rows of the book's orders and of those
   placed so far. *)
AfterSome(x, n, b, cs, t) ==
  /\ x \in Book /\ Kept(x, t)
  /\ \A p \in Orders : Has(x.rows, p) =>
       Has(b.rows, p) \/ \E i \in 1..n : cs[i].kind = "place" /\ p = cs[i].oid

(* One change more of those that wait keeps the book in order and changes its view
   as asked. *)
LEMMA SomeMore ==
  ASSUME NEW t \in Nat, NEW b, NEW cs, Waits(cs, b.rows), NEW n \in 1..Len(cs),
         NEW x, AfterSome(x, n - 1, b, cs, t)
  PROVE  /\ AfterSome(Applied(x, cs[n], t), n, b, cs, t)
         /\ View(Applied(x, cs[n], t).rows) = Viewed(View(x.rows), cs[n])
<1>1. Asks(cs[n]) /\ Kept(x, t)
  BY DEF Waits, AfterSome
<1>2. Len(cs) \in Nat
  BY DEF Waits
<1>3. cs[n].kind = "place" => ~Has(x.rows, cs[n].oid)
  <2> SUFFICES ASSUME cs[n].kind = "place", Has(x.rows, cs[n].oid) PROVE FALSE
    OBVIOUS
  <2>1. cs[n].oid \in Orders
    BY <1>1 DEF Asks
  <2>2. ~Has(b.rows, cs[n].oid)
    BY DEF Waits
  <2>3. PICK i \in 1..(n - 1) : cs[i].kind = "place" /\ cs[n].oid = cs[i].oid
    BY <2>1, <2>2 DEF AfterSome
  <2>4. i \in 1..Len(cs) /\ i # n
    BY <1>2
  <2> QED BY <2>3, <2>4 DEF Waits
<1> DEFINE c == cs[n]
           y == Applied(x, c, t)
<1>4. /\ Kept(y, t) /\ View(y.rows) = Viewed(View(x.rows), c)
      /\ \A p \in Orders : Has(y.rows, p) =>
           Has(x.rows, p) \/ (c.kind = "place" /\ p = c.oid)
  <2>1. Asks(c) /\ Kept(x, t) /\ (c.kind = "place" => ~Has(x.rows, c.oid))
    BY <1>1, <1>3
  <2> HIDE DEF c
  <2> QED BY <2>1, ChangeKeeps
<1>5. \A i \in 1..(n - 1) : i \in 1..n
  BY <1>2
<1>6. n \in 1..n
  BY <1>2
<1> HIDE DEF y
<1>7. AfterSome(y, n, b, cs, t)
  <2>1. \A p \in Orders : Has(y.rows, p) =>
          Has(b.rows, p) \/ \E i \in 1..n : cs[i].kind = "place" /\ p = cs[i].oid
    BY <1>4, <1>5, <1>6 DEF AfterSome
  <2> QED BY <1>4, <2>1 DEF AfterSome, Kept
<1> QED BY <1>4, <1>7 DEF y

(* The release is the run of its changes. *)
LEMMA ReleasedRuns ==
  ASSUME NEW t \in Nat, NEW b, Kept(b, t), NEW cs, Waits(cs, b.rows)
  PROVE  \E g : /\ IsRun(g, Len(cs), b, ChangeRun(cs, t))
                /\ Released(b, cs, t) = g[Len(cs)]
                /\ \A n \in 0..Len(cs) : AfterSome(g[n], n, b, cs, t)
<1> DEFINE N == Len(cs)
           F == ChangeRun(cs, t)
           Body(g) == [n \in 0..N |-> IF n = 0 THEN b ELSE Applied(g[n - 1], cs[n], t)]
           f == CHOOSE g : g = Body(g)
           In == [n \in 0..N |-> {x \in Book : AfterSome(x, n, b, cs, t)}]
<1>1. N \in Nat
  BY DEF Waits
<1>2. b \in In[0]
  <2>1. AfterSome(b, 0, b, cs, t)
    BY DEF AfterSome, Kept
  <2> QED BY <2>1, <1>1 DEF AfterSome
<1>3. \A n \in 1..N : \A x \in In[n - 1] : Applied(x, cs[n], t) \in In[n] /\ x \in Book
  <2> TAKE n \in 1..N
  <2> TAKE x \in In[n - 1]
  <2>1. n - 1 \in 0..N /\ n \in 0..N
    BY <1>1
  <2>2. AfterSome(x, n - 1, b, cs, t)
    BY <2>1
  <2>3. AfterSome(Applied(x, cs[n], t), n, b, cs, t)
    BY <2>2, SomeMore
  <2> QED BY <2>1, <2>3 DEF AfterSome
<1>4. Released(b, cs, t) = f[N]
  BY DEF Released
<1>5. f = Body(f)
  <2>1. PICK g : IsRun(g, N, b, F)
    BY <1>1, RunExists
  <2>2. \A n \in 1..N : \A x \in In[n - 1] : F[n][x] \in In[n]
    <3> HIDE DEF In
    <3> QED BY <1>3 DEF ChangeRun
  <2>3. \A n \in 0..N : g[n] \in In[n]
    <3> HIDE DEF In, F, N
    <3> QED BY <2>1, <2>2, <1>1, <1>2, RunStays
  <2>4. \A n \in 1..N : F[n][g[n - 1]] = Applied(g[n - 1], cs[n], t)
    <3> TAKE n \in 1..N
    <3>1. n - 1 \in 0..N
      BY <1>1
    <3>2. g[n - 1] \in Book
      BY <2>3, <3>1
    <3> QED BY <3>2 DEF ChangeRun
  <2>5. g = Body(g)
    <3> HIDE DEF F
    <3> QED BY SMTT(30), <2>1, <2>4 DEF IsRun
  <2> HIDE DEF Body
  <2> QED BY <2>5
<1> HIDE DEF f
<1>6. \A n \in 0..N : f[n] \in In[n]
  <2> DEFINE G == [n \in 1..N |-> [x \in Book \cup {f[n - 1]} |-> Applied(x, cs[n], t)]]
  <2>1. IsRun(f, N, b, G)
    BY <1>5 DEF IsRun
  <2>2. \A n \in 1..N : \A x \in In[n - 1] : G[n][x] \in In[n]
    <3> HIDE DEF In
    <3> QED BY <1>3
  <2> HIDE DEF In, G, N
  <2> QED BY <2>1, <2>2, <1>1, <1>2, RunStays
<1>7. \A n \in 0..N : AfterSome(f[n], n, b, cs, t) /\ f[n] \in Book
  BY <1>6
<1>8. IsRun(f, N, b, F)
  <2>1. \A n \in 1..N : F[n][f[n - 1]] = Applied(f[n - 1], cs[n], t)
    <3> TAKE n \in 1..N
    <3>1. n - 1 \in 0..N
      BY <1>1
    <3>2. f[n - 1] \in Book
      BY <1>7, <3>1
    <3> QED BY <3>2 DEF ChangeRun
  <2> HIDE DEF F
  <2>2. \A n \in 0..N : (IF n = 0 THEN b ELSE Applied(f[n - 1], cs[n], t))
                        = (IF n = 0 THEN b ELSE F[n][f[n - 1]])
    BY <2>1, <1>1
  <2>3. Body(f) = [n \in 0..N |-> IF n = 0 THEN b ELSE F[n][f[n - 1]]]
    BY <2>2
  <2> HIDE DEF Body
  <2> QED BY <2>3, <1>5 DEF IsRun
<1> QED BY <1>4, <1>7, <1>8

(* All changes that wait leave a book in order. *)
LEMMA ReleasedKeeps ==
  ASSUME NEW t \in Nat, NEW b, Kept(b, t), NEW cs, Waits(cs, b.rows)
  PROVE  AfterSome(Released(b, cs, t), Len(cs), b, cs, t)
<1>1. Len(cs) \in 0..Len(cs)
  BY DEF Waits
<1> QED BY <1>1, ReleasedRuns

(* If no change waits, the book stays as it is. *)
LEMMA ReleasedNothing ==
  ASSUME NEW t \in Nat, NEW b, Kept(b, t)
  PROVE  Released(b, <<>>, t) = b
<1>1. Waits(<<>>, b.rows)
  BY DEF Waits
<1>2. PICK g : /\ IsRun(g, Len(<<>>), b, ChangeRun(<<>>, t))
               /\ Released(b, <<>>, t) = g[Len(<<>>)]
  BY <1>1, ReleasedRuns
<1>3. Len(<<>>) = 0
  OBVIOUS
<1>4. g[0] = b
  BY <1>2, <1>3 DEF IsRun
<1> QED BY <1>2, <1>3, <1>4

(* A change that joins the list is made after all others. *)
LEMMA ReleasedOneMore ==
  ASSUME NEW t \in Nat, NEW b, Kept(b, t), NEW cs, NEW c, Waits(cs, b.rows),
         Waits(Append(cs, c), b.rows)
  PROVE  /\ Released(b, Append(cs, c), t) = Applied(Released(b, cs, t), c, t)
         /\ View(Released(b, Append(cs, c), t).rows) =
              Viewed(View(Released(b, cs, t).rows), c)
<1> DEFINE N == Len(cs)
           ds == Append(cs, c)
<1>1. /\ cs \in Seq(ChangeData) /\ ds \in Seq(ChangeData) /\ N \in Nat
  BY DEF Waits
<1>2. /\ Len(ds) = N + 1 /\ ds[N + 1] = c /\ N + 1 \in 1..Len(ds)
      /\ \A n \in 1..N : ds[n] = cs[n] /\ n \in 1..Len(ds)
  BY <1>1
<1>3. PICK g : /\ IsRun(g, N, b, ChangeRun(cs, t))
               /\ Released(b, cs, t) = g[N]
               /\ \A n \in 0..N : AfterSome(g[n], n, b, cs, t)
  BY ReleasedRuns
<1> HIDE DEF ds
<1>4. PICK h : /\ IsRun(h, Len(ds), b, ChangeRun(ds, t))
               /\ Released(b, ds, t) = h[Len(ds)]
               /\ \A n \in 0..Len(ds) : AfterSome(h[n], n, b, ds, t)
  BY ReleasedRuns DEF ds
<1>5. \A n \in 1..N : ChangeRun(cs, t)[n] = ChangeRun(ds, t)[n]
  BY <1>2 DEF ChangeRun
<1>6. g[N] = h[N]
  <2>1. N \in 0..Len(ds) /\ N \in 0..N /\ Len(ds) \in Nat
    BY <1>1, <1>2
  <2> DEFINE F == ChangeRun(cs, t)
             G == ChangeRun(ds, t)
             M == Len(ds)
  <2>3. IsRun(g, N, b, F) /\ IsRun(h, M, b, G) /\ \A n \in 1..N : F[n] = G[n]
    BY <1>3, <1>4, <1>5
  <2>4. N \in 0..M /\ M \in Nat
    BY <2>1
  <2> HIDE DEF N, M, F, G
  <2>2. \A n \in 0..N : g[n] = h[n]
    BY ONLY <2>3, <2>4, RunsAgree
  <2> QED BY <2>1, <2>2
<1>7. h[N + 1] = ChangeRun(ds, t)[N + 1][h[N]]
  <2>1. Len(ds) \in Nat
    BY <1>1, <1>2
  <2>2. \A n \in 1..Len(ds) : h[n] = ChangeRun(ds, t)[n][h[n - 1]]
    BY <1>4, <2>1, RunSteps
  <2>3. (N + 1) - 1 = N
    BY <1>1
  <2> QED BY <2>2, <2>3, <1>2
<1>8. N \in 0..Len(ds) /\ (N + 1) - 1 = N
  BY <1>1, <1>2
<1>9. AfterSome(h[N], N, b, ds, t) /\ h[N] \in Book
  BY <1>4, <1>8 DEF AfterSome
<1>10. h[N + 1] = Applied(h[N], c, t)
  BY <1>2, <1>7, <1>9 DEF ChangeRun
<1>11. Released(b, ds, t) = Applied(Released(b, cs, t), c, t)
  BY <1>2, <1>3, <1>4, <1>6, <1>10
<1>12. View(Applied(h[N], c, t).rows) = Viewed(View(h[N].rows), c)
  <2>1. Waits(ds, b.rows) /\ AfterSome(h[N], (N + 1) - 1, b, ds, t)
    BY <1>8, <1>9 DEF ds
  <2> HIDE DEF N
  <2> QED BY <2>1, <1>2, SomeMore
<1> QED BY <1>3, <1>6, <1>11, <1>12 DEF ds

(* Callers see the same book at whatever clock the release comes. *)
LEMMA ReleasedAnyTime ==
  ASSUME NEW t \in Nat, NEW u \in Nat, NEW b, Kept(b, t), Kept(b, u),
         NEW cs, Waits(cs, b.rows)
  PROVE  View(Released(b, cs, t).rows) = View(Released(b, cs, u).rows)
<1> DEFINE N == Len(cs)
<1>1. N \in Nat
  BY DEF Waits
<1>2. PICK g : /\ IsRun(g, N, b, ChangeRun(cs, t))
               /\ Released(b, cs, t) = g[N]
               /\ \A n \in 0..N : AfterSome(g[n], n, b, cs, t)
  BY ReleasedRuns
<1>3. PICK h : /\ IsRun(h, N, b, ChangeRun(cs, u))
               /\ Released(b, cs, u) = h[N]
               /\ \A n \in 0..N : AfterSome(h[n], n, b, cs, u)
  BY ReleasedRuns
<1> DEFINE In == [n \in 0..N |-> {x \in Book : AfterSome(x, n, b, cs, u)
                                                /\ View(x.rows) = View(g[n].rows)}]
           F == ChangeRun(cs, u)
<1>4. b \in In[0]
  <2>1. g[0] = b /\ h[0] = b
    BY <1>1, <1>2, <1>3 DEF IsRun
  <2>2. AfterSome(b, 0, b, cs, u)
    BY <1>1, <1>3, <2>1
  <2>3. b \in Book
    BY <2>2 DEF AfterSome
  <2> QED BY <2>1, <2>2, <2>3, <1>1
<1>5. \A n \in 1..N : \A x \in In[n - 1] : F[n][x] \in In[n]
  <2> TAKE n \in 1..N
  <2> TAKE x \in In[n - 1]
  <2>1. n - 1 \in 0..N /\ n \in 0..N
    BY <1>1
  <2>2. x \in Book /\ AfterSome(x, n - 1, b, cs, u) /\ View(x.rows) = View(g[n - 1].rows)
    BY <2>1
  <2>3. F[n][x] = Applied(x, cs[n], u)
    BY <2>2 DEF ChangeRun
  <2>4. /\ AfterSome(Applied(x, cs[n], u), n, b, cs, u)
        /\ View(Applied(x, cs[n], u).rows) = Viewed(View(x.rows), cs[n])
    BY <2>2, SomeMore
  <2>5. AfterSome(g[n - 1], n - 1, b, cs, t) /\ g[n - 1] \in Book
    BY <2>1, <1>2 DEF AfterSome
  <2>6. g[n] = Applied(g[n - 1], cs[n], t)
    <3>1. g[n] = ChangeRun(cs, t)[n][g[n - 1]]
      BY <1>1, <1>2, RunSteps
    <3> QED BY <3>1, <2>5 DEF ChangeRun
  <2>7. View(g[n].rows) = Viewed(View(g[n - 1].rows), cs[n])
    BY <2>5, <2>6, SomeMore
  <2>8. F[n][x] \in Book
    BY <2>3, <2>4 DEF AfterSome
  <2> QED BY <2>1, <2>2, <2>3, <2>4, <2>7, <2>8
<1>6. \A n \in 0..N : h[n] \in In[n]
  <2>1. IsRun(h, N, b, F)
    BY <1>3
  <2> HIDE DEF In, F, N
  <2> QED BY <2>1, <1>1, <1>4, <1>5, RunStays
<1>7. N \in 0..N
  BY <1>1
<1>8. h[N] \in In[N]
  BY <1>6, <1>7
<1> QED BY <1>2, <1>3, <1>7, <1>8

-----------------------------------------------------------------------------
(* The invariant. *)

(* The invariant holds at the start. *)
LEMMA StartsWell == Init => MatchingInv
<1> SUFFICES ASSUME Init PROVE MatchingInv
  OBVIOUS
<1> USE DEF Init
<1>1. Shape
  <2>1. Free \in [open: BOOLEAN, saved: SUBSET Row, hooks: [Orders -> Nat],
                  deferred: Seq(ChangeData)]
    BY DEF Free
  <2>2. MaxTime \in Nat
    BY MatchingAssumption
  <2> QED BY <2>1, <2>2 DEF Shape, AskedData
<1>2. book \in Book /\ SavedBook = [rows |-> {}, seq |-> 0] /\ SavedBook \in Book
  <2>1. reservation.saved = {}
    BY DEF Free
  <2>2. SavedBook = [rows |-> {}, seq |-> 0]
    BY <2>1 DEF SavedBook
  <2>3. [rows |-> {}, seq |-> 0] \in Book
    BY DEF Book
  <2> QED BY <2>2, <2>3
<1>3. BooksInOrder
  BY <1>2, FS_EmptySet DEF BooksInOrder, Kept, Sound
<1>4. Len(reservation.deferred) = 0 /\ reservation.deferred \in Seq(ChangeData)
      /\ reservation.saved = {} /\ reservation.open = FALSE
      /\ reservation.hooks = [o \in Orders |-> 0]
  BY DEF Free
<1>5. PlacedOnce
  BY <1>4 DEF PlacedOnce, Waits, Has
<1>6. HooksOwed
  BY <1>4 DEF HooksOwed, Virtual
<1> QED BY <1>1, <1>3, <1>5, <1>6 DEF MatchingInv

(* One change more may wait, if it places no order twice. *)
LEMMA WaitsMore ==
  ASSUME NEW cs, NEW rows, Waits(cs, rows), NEW c, Asks(c),
         c.kind = "place" =>
           /\ ~Has(rows, c.oid)
           /\ \A i \in 1..Len(cs) : cs[i].kind = "place" => cs[i].oid # c.oid
  PROVE  Waits(Append(cs, c), rows)
<1> DEFINE ds == Append(cs, c)
<1>1. cs \in Seq(ChangeData) /\ c \in ChangeData
  BY DEF Waits, Asks
<1>2. /\ ds \in Seq(ChangeData) /\ Len(ds) = Len(cs) + 1 /\ Len(cs) \in Nat
      /\ ds[Len(cs) + 1] = c
      /\ \A i \in 1..Len(cs) : ds[i] = cs[i]
  BY <1>1
<1> HIDE DEF ds
<1>3. \A i \in 1..Len(ds) : i \in 1..Len(cs) \/ i = Len(cs) + 1
  BY <1>2
<1>4. ASSUME NEW i \in 1..Len(ds)
      PROVE  Asks(ds[i]) /\ (ds[i].kind = "place" => ~Has(rows, ds[i].oid))
  BY <1>2, <1>3 DEF Waits
<1>5. ASSUME NEW i \in 1..Len(ds), NEW j \in 1..Len(ds), j # i,
             ds[i].kind = "place", ds[j].kind = "place"
      PROVE  ds[j].oid # ds[i].oid
  <2>1. CASE i \in 1..Len(cs) /\ j \in 1..Len(cs)
    BY <2>1, <1>2, <1>5 DEF Waits
  <2>2. CASE i \in 1..Len(cs) /\ j = Len(cs) + 1
    BY <2>2, <1>2, <1>5
  <2>3. CASE i = Len(cs) + 1 /\ j \in 1..Len(cs)
    BY <2>3, <1>2, <1>5
  <2> QED BY <2>1, <2>2, <2>3, <1>3, <1>5
<1> QED BY <1>2, <1>4, <1>5 DEF Waits, ds

(* What the invariant says of a reservation, and of a symbol without one. *)
LEMMA Reserving ==
  ASSUME Shape
  PROVE  /\ reservation = [open |-> reservation.open, saved |-> reservation.saved,
                           hooks |-> reservation.hooks, deferred |-> reservation.deferred]
         /\ reservation.open \in BOOLEAN /\ reservation.hooks \in [Orders -> Nat]
         /\ reservation.deferred \in Seq(ChangeData)
         /\ now \in Nat /\ told \in [Orders -> Nat]
         /\ ~reservation.open =>
              /\ reservation.saved = {} /\ reservation.deferred = <<>>
              /\ reservation.hooks = [o \in Orders |-> 0]
BY MatchingAssumption DEF Shape, Free

(* A book of given rows with the counter of the book. *)
With(rows) == [book EXCEPT !.rows = rows]

(* The book with other rows, field by field. *)
LEMMA WithRows ==
  ASSUME BooksInOrder, NEW rows
  PROVE  /\ With(book.rows) = book /\ SavedBook = With(reservation.saved)
         /\ With(rows) = [rows |-> rows, seq |-> book.seq]
         /\ With(rows).rows = rows /\ With(rows).seq = book.seq
BY DEF BooksInOrder, Kept, Book, With, SavedBook

(* A change somebody asks for, made at once or put off. *)
LEMMA DeferKeeps ==
  ASSUME MatchingInv, NEW c, Asks(c), Defer(c), told' = told, now' = now,
         asked' \in AskedData, asked.placed \subseteq asked'.placed,
         c.kind = "place" => c.oid \notin asked.placed /\ c.oid \in asked'.placed
  PROVE  MatchingInv'
<1> USE DEF MatchingInv
<1>1. CASE reservation.open
  <2> DEFINE ds == Append(reservation.deferred, c)
  <2>1. /\ reservation' = [reservation EXCEPT !.deferred = ds] /\ book' = book
    BY <1>1 DEF Defer
  <2>2. /\ reservation'.deferred = ds /\ reservation'.saved = reservation.saved
        /\ reservation'.open = reservation.open /\ reservation'.hooks = reservation.hooks
    BY <2>1 DEF Shape
  <2>3. /\ reservation.deferred \in Seq(ChangeData) /\ ds \in Seq(ChangeData)
        /\ Len(ds) = Len(reservation.deferred) + 1 /\ Len(reservation.deferred) \in Nat
        /\ ds[Len(reservation.deferred) + 1] = c
        /\ \A i \in 1..Len(reservation.deferred) : ds[i] = reservation.deferred[i]
    BY DEF Shape, Asks
  <2>4. Shape'
    <3> HIDE DEF ds
    <3> QED BY <1>1, <2>1, <2>3 DEF Shape
  <2>5. BooksInOrder'
    BY <2>1, <2>2 DEF BooksInOrder, SavedBook
  <2>6. PlacedOnce'
    <3>1. /\ c.kind = "place" => ~Has(book.rows, c.oid) /\ ~Has(reservation.saved, c.oid)
          /\ c.kind = "place" => \A i \in 1..Len(reservation.deferred) :
               reservation.deferred[i].kind = "place" => reservation.deferred[i].oid # c.oid
      BY DEF PlacedOnce, Asks
    <3>2. Waits(ds, book.rows) /\ Waits(ds, reservation.saved)
      BY <3>1, WaitsMore DEF PlacedOnce
    <3>3. ASSUME NEW i \in 1..Len(ds), ds[i].kind = "place" PROVE ds[i].oid \in asked'.placed
      <4>1. CASE i \in 1..Len(reservation.deferred)
        BY <4>1, <3>3, <2>3 DEF PlacedOnce
      <4>2. CASE i = Len(reservation.deferred) + 1
        BY <4>2, <3>3, <2>3
      <4> HIDE DEF ds
      <4> QED BY <4>1, <4>2, <2>3
    <3> HIDE DEF ds
    <3>4. \A o \in Orders : Has(book.rows, o) \/ Has(reservation.saved, o) => o \in asked'.placed
      BY DEF PlacedOnce
    <3> QED BY <2>1, <2>2, <3>2, <3>3, <3>4 DEF PlacedOnce
  <2>7. HooksOwed'
    BY <2>1, <2>2 DEF HooksOwed
  <2> QED BY <2>4, <2>5, <2>6, <2>7
<1>2. CASE ~reservation.open
  <2> DEFINE b == Applied(book, c, now)
  <2>1. book' = b /\ reservation' = reservation
    BY <1>2 DEF Defer
  <2>2. now \in Nat /\ reservation.saved = {} /\ reservation.deferred = <<>>
    BY <1>2, Reserving
  <2>3. c.kind = "place" => ~Has(book.rows, c.oid)
    BY DEF PlacedOnce, Asks
  <2>4. /\ Kept(b, now)
        /\ \A p \in Orders : Has(b.rows, p) => Has(book.rows, p) \/ (c.kind = "place" /\ p = c.oid)
    BY <2>2, <2>3, ChangeKeeps DEF BooksInOrder
  <2> HIDE DEF b
  <2>5. Shape'
    BY <2>1 DEF Shape
  <2>6. BooksInOrder'
    <3>1. Kept([b EXCEPT !.rows = {}], now)
      BY <2>4, FewerKept
    <3>2. SavedBook' = [b EXCEPT !.rows = {}]
      BY <2>1, <2>2 DEF SavedBook
    <3> QED BY <2>1, <2>4, <3>1, <3>2 DEF BooksInOrder
  <2>7. PlacedOnce'
    <3>1. \A o \in Orders : Has(b.rows, o) => o \in asked'.placed
      BY <2>4 DEF PlacedOnce
    <3>2. Waits(<<>>, b.rows) /\ Waits(<<>>, {})
      BY DEF Waits
    <3>3. Len(<<>>) = 0 /\ \A o : ~Has({}, o)
      BY DEF Has
    <3> QED BY <2>1, <2>2, <3>1, <3>2, <3>3 DEF PlacedOnce
  <2>8. HooksOwed'
    BY <1>2, <2>1 DEF HooksOwed
  <2> QED BY <2>5, <2>6, <2>7, <2>8
<1> QED BY <1>1, <1>2

(* What callers see of it. *)
LEMMA DeferShows ==
  ASSUME MatchingInv, NEW c, Asks(c), Defer(c), now' = now,
         c.kind = "place" => c.oid \notin asked.placed
  PROVE  /\ reservation'.open = reservation.open /\ Pending' = Pending
         /\ Seen' = IF reservation.open THEN Seen ELSE Viewed(Seen, c)
         /\ IfCommitted' = Viewed(IfCommitted, c)
         /\ IfRolledBack' = Viewed(IfRolledBack, c)
<1> USE DEF MatchingInv
<1>0. /\ With(book.rows) = book /\ SavedBook = With(reservation.saved) /\ now \in Nat
      /\ With(reservation.saved).rows = reservation.saved
      /\ Kept(book, now) /\ Kept(SavedBook, now)
  BY WithRows, Reserving DEF BooksInOrder
<1>1. CASE reservation.open
  <2> DEFINE cs == reservation.deferred
             ds == Append(cs, c)
  <2>1. /\ reservation' = [reservation EXCEPT !.deferred = ds] /\ book' = book
    BY <1>1 DEF Defer
  <2>2. /\ reservation'.deferred = ds /\ reservation'.saved = reservation.saved
        /\ reservation'.open = reservation.open
    BY <2>1 DEF Shape
  <2>3. /\ c.kind = "place" => ~Has(book.rows, c.oid) /\ ~Has(reservation.saved, c.oid)
        /\ c.kind = "place" => \A i \in 1..Len(cs) : cs[i].kind = "place" => cs[i].oid # c.oid
    BY DEF PlacedOnce, Asks
  <2>4. Waits(cs, book.rows) /\ Waits(cs, reservation.saved)
    BY DEF PlacedOnce
  <2>5. Waits(ds, book.rows) /\ Waits(ds, reservation.saved)
    <3> HIDE DEF cs
    <3> QED BY <2>3, <2>4, WaitsMore
  <2> HIDE DEF cs, ds
  <2>6. ASSUME NEW b, Kept(b, now), Waits(cs, b.rows), Waits(ds, b.rows)
        PROVE  View(Released(b, ds, now).rows) = Viewed(View(Released(b, cs, now).rows), c)
    BY <1>0, <2>6, ReleasedOneMore DEF ds
  <2>7. IfCommitted = View(Released(book, cs, now).rows)
        /\ IfCommitted' = View(Released(book, ds, now).rows)
    BY <1>0, <2>1, <2>2 DEF IfCommitted, Outcome, With, cs
  <2>8. IfRolledBack = View(Released(SavedBook, cs, now).rows)
        /\ IfRolledBack' = View(Released(SavedBook, ds, now).rows)
    BY <1>0, <1>1, <2>1, <2>2 DEF IfRolledBack, Outcome, With, SavedBook, cs
  <2>9. Seen' = Seen /\ Pending' = Pending
    BY <2>1, <2>2 DEF Seen, Pending
  <2>10. IfCommitted' = Viewed(IfCommitted, c)
    BY <2>4, <2>5, <2>6, <2>7, <1>0
  <2>11. IfRolledBack' = Viewed(IfRolledBack, c)
    BY <2>4, <2>5, <2>6, <2>8, <1>0
  <2> QED BY <1>1, <2>2, <2>9, <2>10, <2>11
<1>2. CASE ~reservation.open
  <2> DEFINE b == Applied(book, c, now)
  <2>1. book' = b /\ reservation' = reservation
    BY <1>2 DEF Defer
  <2>2. reservation.deferred = <<>>
    BY <1>2, Reserving
  <2>3. c.kind = "place" => ~Has(book.rows, c.oid)
    BY DEF PlacedOnce, Asks
  <2>4. Kept(b, now) /\ View(b.rows) = Viewed(View(book.rows), c)
    BY <1>0, <2>3, ChangeKeeps
  <2> HIDE DEF b
  <2>5. Released(book, <<>>, now) = book /\ Released(b, <<>>, now) = b
    BY <1>0, <2>4, ReleasedNothing
  <2>6. [b EXCEPT !.rows = b.rows] = b
    BY <2>4 DEF Kept, Book
  <2>7. IfCommitted = Seen /\ IfCommitted' = Seen'
    BY <1>0, <2>1, <2>2, <2>5, <2>6 DEF IfCommitted, Outcome, With, Seen
  <2>8. IfRolledBack = Seen /\ IfRolledBack' = Seen'
    BY <1>2, <2>1 DEF IfRolledBack
  <2>9. Seen' = Viewed(Seen, c) /\ Pending' = Pending
    BY <1>2, <2>1, <2>4 DEF Seen, Pending
  <2> QED BY <1>2, <2>1, <2>7, <2>8, <2>9
<1> QED BY <1>1, <1>2

-----------------------------------------------------------------------------
(* Executions. *)

(* The book a plan leaves with the rows the taker could not reach. *)
LEMMA PlanBook ==
  ASSUME MatchingInv, NEW t \in Takers, NEW b,
         b = [rows |-> PlanFor(t).after \cup (book.rows \ Reach(t)),
              seq |-> Max({r.seq : r \in PlanFor(t).after} \cup {book.seq})]
  PROVE  /\ Kept(b, now) /\ book.seq <= b.seq
         /\ \A o \in Orders :
              /\ Left(book.rows, o) = Left(b.rows, o) + Taken(PlanFor(t).slices, o)
              /\ Left(b.rows, o) \in Nat /\ Taken(PlanFor(t).slices, o) \in Nat
         /\ \A o : Has(b.rows, o) => Has(book.rows, o)
         /\ \A e \in b.rows : \E r \in book.rows :
              /\ e.oid = r.oid /\ e.side = r.side /\ e.price = r.price
              /\ Amount(e) <= Amount(r)
<1> DEFINE B == book.rows
           R == Reach(t)
           D == B \ R
           plan == PlanFor(t)
           A == plan.after
           C == A \cup D
           top == Max({r.seq : r \in A} \cup {book.seq})
<1>1. /\ Kept(book, now) /\ Sound(B) /\ B \in SUBSET Row /\ IsFiniteSet(B) /\ book.seq \in Nat
      /\ now \in Nat
  BY Reserving DEF MatchingInv, BooksInOrder, Kept, Sound, Book
<1>2. R \subseteq B
  BY DEF Reach
<1>3. IsFiniteSet(R) /\ IsFiniteSet(D)
  <2> HIDE DEF R
  <2> QED BY <1>1, <1>2, FS_Subset
<1>4. Sound(R)
  BY <1>1, <1>2, <1>3 DEF Sound
<1>5. t \in Taker /\ MaxSlices \in Nat
  BY MatchingAssumption
<1>6. plan = Plan(R, t)
  BY DEF PlanFor
<1> HIDE DEF plan, R
<1>7. /\ Sound(A)
      /\ \A o : /\ Left(R, o) = Left(A, o) + Taken(plan.slices, o)
                /\ Left(A, o) \in Nat /\ Taken(plan.slices, o) \in Nat
      /\ \A e \in A : \E r \in R :
           /\ e.oid = r.oid /\ e.side = r.side /\ e.price = r.price
           /\ e.display = r.display /\ Amount(e) <= Amount(r)
      /\ \A e \in A : \E s \in R : e.time = s.time
  BY <1>4, <1>5, <1>6, PlanLeaves
<1>8. b = [rows |-> C, seq |-> top]
  BY DEF plan, R
<1> HIDE DEF A
<1>9. A \in SUBSET Row /\ IsFiniteSet(A) /\ \A e \in A : e.seq \in Nat
  BY <1>7 DEF Sound, Row
<1>10. top \in Nat /\ book.seq <= top /\ \A e \in A : e.seq <= top
  <2> DEFINE g == [r \in A |-> r.seq]
             S == {r.seq : r \in A}
  <2>1. DOMAIN g = A /\ {g[r] : r \in A} = S
    OBVIOUS
  <2> HIDE DEF g
  <2>2. IsFiniteSet({g[r] : r \in A})
    BY <2>1, <1>9, ImageFinite
  <2>3. IsFiniteSet(S) /\ S \in SUBSET Nat
    BY <2>1, <2>2, <1>9
  <2>4. top = Max(S \cup {book.seq})
    OBVIOUS
  <2> HIDE DEF S, top
  <2>5. top \in Nat /\ book.seq <= top /\ \A m \in S : m <= top
    BY <2>3, <2>4, <1>1, MaxWith
  <2> QED BY <2>5 DEF S
<1> HIDE DEF top
<1>11. \A e \in A, d \in D : e.oid # d.oid /\ ~(IsQuote(e) <=> IsQuote(d))
  <2> TAKE e \in A, d \in D
  <2>1. PICK r \in R : e.oid = r.oid
    BY <1>7
  <2>2. d.oid \in External /\ r.oid \notin External
    BY <2>1 DEF R, Reach
  <2> QED BY <2>1, <2>2 DEF IsQuote
<1>12. \A e \in A : \E r \in B : /\ e.oid = r.oid /\ e.side = r.side /\ e.price = r.price
                                 /\ Amount(e) <= Amount(r)
  BY <1>2, <1>7
<1>13. \A e \in A : \E r \in B : e.time = r.time
  BY <1>2, <1>7
<1>14. \A e \in C : e \in A \/ e \in B
  OBVIOUS
<1>15. IsFiniteSet(C) /\ C \in SUBSET Row
  <2> HIDE DEF D
  <2>1. IsFiniteSet(A \cup D)
    BY <1>3, <1>9, FS_Union
  <2> QED BY <2>1, <1>1, <1>9 DEF D
<1>16. Sound(C)
  <2>1. ASSUME NEW r \in A, NEW s \in A, r.side = s.side,
               r.oid = s.oid \/ (r.seq = s.seq /\ (IsQuote(r) <=> IsQuote(s)))
        PROVE  r = s
    BY <2>1, <1>7 DEF Sound
  <2>2. ASSUME NEW r \in B, NEW s \in B, r.side = s.side,
               r.oid = s.oid \/ (r.seq = s.seq /\ (IsQuote(r) <=> IsQuote(s)))
        PROVE  r = s
    BY <2>2, <1>1 DEF Sound
  <2>3. ASSUME NEW r \in C, NEW s \in C, r.side = s.side,
               r.oid = s.oid \/ (r.seq = s.seq /\ (IsQuote(r) <=> IsQuote(s)))
        PROVE  r = s
    <3>1. CASE r \in A /\ s \in A
      BY <3>1, <2>1, <2>3
    <3>2. CASE r \in D /\ s \in D
      BY <3>2, <2>2, <2>3
    <3>3. CASE r \in A /\ s \in D
      BY <3>3, <2>3, <1>11
    <3>4. CASE r \in D /\ s \in A
      BY <3>4, <2>3, <1>11
    <3> QED BY <3>1, <3>2, <3>3, <3>4
  <2>4. \A r \in C : IsQuote(r) => r.hidden = 0
    BY <1>1, <1>7, <1>14 DEF Sound
  <2> HIDE DEF C
  <2> QED BY <1>15, <2>3, <2>4 DEF Sound
<1>17. Kept(b, now)
  <2>1. \A r \in B : r.seq <= book.seq /\ r.time <= now /\ r.seq \in Nat
                     /\ (r.oid \in Orders => r.side = Detail[r.oid].side)
    BY <1>1 DEF Kept, Row
  <2>2. \A r \in B : r.seq <= top
    BY <2>1, <1>1, <1>10
  <2>3. \A r \in A : r.time <= now /\ (r.oid \in Orders => r.side = Detail[r.oid].side)
    BY <2>1, <1>12, <1>13
  <2>4. \A r \in C : /\ r.seq <= top /\ r.time <= now
                     /\ r.oid \in Orders => r.side = Detail[r.oid].side
    BY <2>1, <2>2, <2>3, <1>10, <1>14
  <2> HIDE DEF C
  <2>5. b.rows = C /\ b.seq = top
    BY <1>8
  <2>6. b \in Book
    BY <1>8, <1>10, <1>15 DEF Book
  <2> HIDE DEF top
  <2> QED BY <2>4, <2>5, <2>6, <1>16 DEF Kept
<1>18. ASSUME NEW o
       PROVE  /\ Left(B, o) = Left(C, o) + Taken(plan.slices, o)
              /\ Left(C, o) \in Nat /\ Taken(plan.slices, o) \in Nat
  <2>1. B = R \cup D /\ R \cap D = {} /\ A \cap D = {}
    BY <1>2, <1>11
  <2>2. R \in SUBSET Row /\ D \in SUBSET Row
    BY <1>1, <1>2
  <2> HIDE DEF B, D
  <2>3. Left(R \cup D, o) = Left(R, o) + Left(D, o)
    BY <2>1, <2>2, <1>3, LeftUnion
  <2>4. Left(A \cup D, o) = Left(A, o) + Left(D, o)
    BY <2>1, <2>2, <1>3, <1>9, LeftUnion
  <2>5. Left(D, o) \in Nat
    BY <2>2, <1>3, LeftSum
  <2> QED BY <2>1, <2>3, <2>4, <2>5, <1>7
<1>19. \A e \in C : \E r \in B : /\ e.oid = r.oid /\ e.side = r.side /\ e.price = r.price
                                 /\ Amount(e) <= Amount(r)
  <2>1. \A r \in B : Amount(r) <= Amount(r)
    BY <1>1 DEF Amount, Row
  <2> QED BY <2>1, <1>12, <1>14
<1>20. \A o : Has(C, o) => Has(B, o)
  BY <1>19 DEF Has
<1>21. b.rows = C /\ b.seq = top
  BY <1>8
<1> HIDE DEF C, B
<1>22. /\ \A o \in Orders :
              /\ Left(B, o) = Left(b.rows, o) + Taken(plan.slices, o)
              /\ Left(b.rows, o) \in Nat /\ Taken(plan.slices, o) \in Nat
       /\ \A o : Has(b.rows, o) => Has(B, o)
       /\ \A e \in b.rows : \E r \in B :
            /\ e.oid = r.oid /\ e.side = r.side /\ e.price = r.price
            /\ Amount(e) <= Amount(r)
  BY <1>18, <1>19, <1>20, <1>21
<1> QED BY <1>10, <1>17, <1>21, <1>22 DEF plan, B

(* The quotes of a book that a plan leaves are what is left of the quotes before. *)
LEMMA QuotesShrink ==
  ASSUME NEW A, NEW B, Sound(A), Sound(B),
         \A e \in A : \E r \in B : /\ e.oid = r.oid /\ e.side = r.side /\ e.price = r.price
                                   /\ Amount(e) <= Amount(r)
  PROVE  \A q \in View(A).quotes : \E p \in View(B).quotes :
           q = [p EXCEPT !.size = q.size] /\ q.size <= p.size
<1> DEFINE Show(r) == [side |-> r.side, price |-> r.price, size |-> r.qty]
<1>1. /\ View(A).quotes = {Show(r) : r \in {s \in A : s.oid \in External}}
      /\ View(B).quotes = {Show(r) : r \in {s \in B : s.oid \in External}}
  BY ViewIs
<1> SUFFICES ASSUME NEW q \in View(A).quotes
             PROVE  \E p \in View(B).quotes : q = [p EXCEPT !.size = q.size] /\ q.size <= p.size
  OBVIOUS
<1>2. PICK e \in A : e.oid \in External /\ q = Show(e)
  BY <1>1
<1>3. PICK r \in B : /\ e.oid = r.oid /\ e.side = r.side /\ e.price = r.price
                     /\ Amount(e) <= Amount(r)
  BY <1>2
<1>4. e.qty <= r.qty
  <2>1. e.hidden = 0 /\ r.hidden = 0
    BY <1>2, <1>3 DEF Sound, IsQuote
  <2>2. e.qty \in Nat /\ r.qty \in Nat
    BY DEF Sound, Row
  <2> QED BY <1>3, <2>1, <2>2 DEF Amount
<1>5. Show(r) \in View(B).quotes
  BY <1>1, <1>2, <1>3
<1>6. q = [Show(r) EXCEPT !.size = q.size] /\ q.size <= Show(r).size
  BY <1>2, <1>3, <1>4
<1> QED BY <1>5, <1>6

(* A larger counter does no harm. *)
LEMMA KeptCounter ==
  ASSUME NEW t, NEW b, Kept(b, t), NEW n \in Nat, b.seq <= n, NEW c,
         c = [rows |-> b.rows, seq |-> n]
  PROVE  Kept(c, t)
<1>1. c.rows = b.rows /\ c.seq = n /\ c \in Book /\ b.seq \in Nat
  BY DEF Kept, Book
<1>2. \A r \in b.rows : r.seq \in Nat /\ r.seq <= n
  BY <1>1 DEF Kept, Book, Row
<1> QED BY <1>1, <1>2 DEF Kept

(* What an execution has done, whether or not it waits. *)
LEMMA Executed ==
  ASSUME MatchingInv, NEW t \in Takers, Executes(t, PlanFor(t))
  PROVE  /\ ~reservation.open /\ Kept(book', now) /\ book.seq <= book'.seq
         /\ \A o \in Orders :
              /\ Left(book.rows, o) = Left(book'.rows, o) + Taken(PlanFor(t).slices, o)
              /\ Left(book'.rows, o) \in Nat /\ Taken(PlanFor(t).slices, o) \in Nat
         /\ \A o : Has(book'.rows, o) => Has(book.rows, o)
         /\ \A q \in View(book'.rows).quotes : \E p \in View(book.rows).quotes :
              q = [p EXCEPT !.size = q.size] /\ q.size <= p.size
         /\ asked' \in AskedData /\ asked'.placed = asked.placed /\ now' = now
<1>1. /\ book' = [rows |-> PlanFor(t).after \cup (book.rows \ Reach(t)),
                  seq |-> Max({r.seq : r \in PlanFor(t).after} \cup {book.seq})]
      /\ ~reservation.open /\ now' = now
      /\ asked' = [asked EXCEPT !.taken = @ \cup {t}]
  BY DEF Executes
<1>2. asked' \in AskedData /\ asked'.placed = asked.placed
  BY <1>1 DEF MatchingInv, Shape, AskedData
<1>3. /\ Kept(book', now) /\ book.seq <= book'.seq
      /\ \A o \in Orders :
           /\ Left(book.rows, o) = Left(book'.rows, o) + Taken(PlanFor(t).slices, o)
           /\ Left(book'.rows, o) \in Nat /\ Taken(PlanFor(t).slices, o) \in Nat
      /\ \A o : Has(book'.rows, o) => Has(book.rows, o)
      /\ \A e \in book'.rows : \E r \in book.rows :
           /\ e.oid = r.oid /\ e.side = r.side /\ e.price = r.price
           /\ Amount(e) <= Amount(r)
  BY <1>1, PlanBook
<1>4. Sound(book.rows) /\ Sound(book'.rows)
  BY <1>3 DEF MatchingInv, BooksInOrder, Kept
<1>5. \A q \in View(book'.rows).quotes : \E p \in View(book.rows).quotes :
        q = [p EXCEPT !.size = q.size] /\ q.size <= p.size
  BY <1>3, <1>4, QuotesShrink
<1> QED BY <1>1, <1>2, <1>3, <1>5

(* A trade without a reservation keeps the invariant. *)
LEMMA ExecuteKeeps ==
  ASSUME MatchingInv, NEW t \in Takers, Execute(t)
  PROVE  MatchingInv'
<1> DEFINE slices == PlanFor(t).slices
<1>1. /\ Executes(t, PlanFor(t)) /\ Tell(Hooks(slices)) /\ reservation' = reservation
  BY DEF Execute
<1>2. /\ ~reservation.open /\ Kept(book', now)
      /\ \A o \in Orders : Taken(slices, o) \in Nat
      /\ \A o : Has(book'.rows, o) => Has(book.rows, o)
      /\ asked' \in AskedData /\ asked'.placed = asked.placed /\ now' = now
  BY <1>1, Executed
<1>3. /\ reservation.saved = {} /\ reservation.deferred = <<>>
      /\ now \in Nat /\ told \in [Orders -> Nat]
  BY <1>2, Reserving DEF MatchingInv
<1> HIDE DEF slices
<1>4. /\ told' \in [Orders -> Nat]
      /\ \A o \in Orders \ Virtual : told'[o] = told[o]
  <2>1. told' = [o \in Orders |-> told[o] + Hooks(slices)[o]]
    BY <1>1 DEF Tell
  <2>2. \A o \in Orders : Hooks(slices)[o] = IF o \in Virtual THEN Taken(slices, o) ELSE 0
    BY DEF Hooks
  <2>3. \A o \in Orders : Hooks(slices)[o] \in Nat
    BY <1>2, <2>2
  <2> QED BY <1>3, <2>1, <2>2, <2>3
<1>5. Shape'
  BY <1>1, <1>2, <1>4 DEF MatchingInv, Shape
<1>6. BooksInOrder'
  <2>1. Kept([book' EXCEPT !.rows = {}], now)
    BY <1>2, FewerKept
  <2> QED BY <1>1, <1>2, <1>3, <2>1 DEF BooksInOrder, SavedBook
<1>7. PlacedOnce'
  <2>1. Waits(<<>>, book'.rows) /\ Waits(<<>>, {})
    BY DEF Waits
  <2>2. Len(<<>>) = 0 /\ \A o : ~Has({}, o)
    BY DEF Has
  <2>3. \A o \in Orders : Has(book'.rows, o) => o \in asked'.placed
    BY <1>2 DEF MatchingInv, PlacedOnce
  <2> QED BY <1>1, <1>3, <2>1, <2>2, <2>3 DEF PlacedOnce
<1>8. HooksOwed'
  BY <1>1, <1>2, <1>4 DEF MatchingInv, HooksOwed
<1> QED BY <1>5, <1>6, <1>7, <1>8 DEF MatchingInv

(* A trade that reserves the book keeps it: before and after are both in order. *)
LEMMA ExecuteReservedKeeps ==
  ASSUME MatchingInv, NEW t \in Takers, ExecuteReserved(t)
  PROVE  MatchingInv'
<1> DEFINE slices == PlanFor(t).slices
<1>1. /\ Executes(t, PlanFor(t)) /\ told' = told
      /\ reservation' = [open |-> TRUE, saved |-> book.rows,
                         hooks |-> Hooks(slices), deferred |-> <<>>]
  BY DEF ExecuteReserved
<1>2. /\ ~reservation.open /\ Kept(book', now) /\ book.seq <= book'.seq
      /\ \A o \in Orders :
           /\ Left(book.rows, o) = Left(book'.rows, o) + Taken(slices, o)
           /\ Left(book'.rows, o) \in Nat /\ Taken(slices, o) \in Nat
      /\ \A o : Has(book'.rows, o) => Has(book.rows, o)
      /\ asked' \in AskedData /\ asked'.placed = asked.placed /\ now' = now
  BY <1>1, Executed
<1>3. /\ now \in Nat /\ told \in [Orders -> Nat] /\ Kept(book, now) /\ book.rows \in SUBSET Row
  BY Reserving DEF MatchingInv, BooksInOrder, Kept, Book
<1> HIDE DEF slices
<1>4. \A o \in Orders : Hooks(slices)[o] = IF o \in Virtual THEN Taken(slices, o) ELSE 0
  BY DEF Hooks
<1>5. Hooks(slices) \in [Orders -> Nat]
  BY <1>2 DEF Hooks
<1>6. /\ reservation'.open = TRUE /\ reservation'.saved = book.rows
      /\ reservation'.hooks = Hooks(slices) /\ reservation'.deferred = <<>>
  BY <1>1
<1>7. Shape'
  <2>1. reservation' \in [open: BOOLEAN, saved: SUBSET Row, hooks: [Orders -> Nat],
                          deferred: Seq(ChangeData)]
    BY <1>1, <1>3, <1>5
  <2> QED BY <1>1, <1>2, <1>6, <2>1 DEF MatchingInv, Shape
<1>8. BooksInOrder'
  <2>1. book' \in Book /\ book'.seq \in Nat
    BY <1>2 DEF Kept, Book
  <2>2. SavedBook' = [rows |-> book.rows, seq |-> book'.seq]
    BY <1>6, <2>1 DEF SavedBook, Book
  <2>3. Kept(SavedBook', now)
    BY <1>2, <1>3, <2>1, <2>2, KeptCounter
  <2> QED BY <1>2, <2>3 DEF BooksInOrder
<1>9. PlacedOnce'
  <2>1. Waits(<<>>, book'.rows) /\ Waits(<<>>, book.rows)
    BY DEF Waits
  <2>2. Len(<<>>) = 0
    OBVIOUS
  <2>3. \A o \in Orders : Has(book'.rows, o) \/ Has(book.rows, o) => o \in asked'.placed
    BY <1>2 DEF MatchingInv, PlacedOnce
  <2> QED BY <1>6, <2>1, <2>2, <2>3 DEF PlacedOnce
<1>10. HooksOwed'
  <2>1. \A o \in Orders : Hooks(slices)[o] =
          IF o \in Virtual THEN Left(book.rows, o) - Left(book'.rows, o) ELSE 0
    BY <1>2, <1>4
  <2> QED BY <1>1, <1>6, <2>1 DEF MatchingInv, HooksOwed
<1> QED BY <1>7, <1>8, <1>9, <1>10 DEF MatchingInv

(* A release: whichever book it starts from, the changes that waited are made. *)
LEMMA PublishKeeps ==
  ASSUME MatchingInv, NEW rows, rows \in {book.rows, reservation.saved}, Publish(rows),
         told' \in [Orders -> Nat], \A o \in Orders \ Virtual : told'[o] = 0
  PROVE  MatchingInv'
<1> DEFINE cs == reservation.deferred
           b == With(rows)
<1>1. Kept(b, now) /\ b.rows = rows /\ Waits(cs, rows) /\ now \in Nat
  BY WithRows, Reserving DEF MatchingInv, BooksInOrder, PlacedOnce
<1>2. book' = Released(b, cs, now) /\ reservation' = Free /\ now' = now /\ asked' = asked
  BY DEF Publish, With
<1> HIDE DEF b
<1>3. AfterSome(Released(b, cs, now), Len(cs), b, cs, now)
  BY <1>1, ReleasedKeeps
<1>4. Kept(book', now)
  BY <1>2, <1>3 DEF AfterSome
<1>5. \A o \in Orders : Has(book'.rows, o) => o \in asked.placed
  <2> TAKE o \in Orders
  <2>1. Has(book'.rows, o) =>
          Has(b.rows, o) \/ \E i \in 1..Len(cs) : cs[i].kind = "place" /\ o = cs[i].oid
    BY <1>2, <1>3 DEF AfterSome
  <2>2. Has(b.rows, o) => Has(book.rows, o) \/ Has(reservation.saved, o)
    BY <1>1
  <2> QED BY <2>1, <2>2 DEF MatchingInv, PlacedOnce
<1>6. /\ Free.open = FALSE /\ Free.saved = {} /\ Free.deferred = <<>>
      /\ Free.hooks = [o \in Orders |-> 0]
      /\ Free \in [open: BOOLEAN, saved: SUBSET Row, hooks: [Orders -> Nat],
                   deferred: Seq(ChangeData)]
  BY DEF Free
<1>7. Shape'
  BY <1>2, <1>6 DEF MatchingInv, Shape
<1>8. BooksInOrder'
  <2>1. Kept([book' EXCEPT !.rows = {}], now)
    BY <1>4, FewerKept
  <2> QED BY <1>2, <1>4, <1>6, <2>1 DEF BooksInOrder, SavedBook
<1>9. PlacedOnce'
  <2>1. Waits(<<>>, book'.rows) /\ Waits(<<>>, {})
    BY DEF Waits
  <2>2. Len(<<>>) = 0 /\ \A o : ~Has({}, o)
    BY DEF Has
  <2> QED BY <1>2, <1>5, <1>6, <2>1, <2>2 DEF PlacedOnce
<1>10. HooksOwed'
  BY <1>2, <1>6 DEF HooksOwed
<1> QED BY <1>7, <1>8, <1>9, <1>10 DEF MatchingInv

-----------------------------------------------------------------------------
(* Every step. *)

(* A caller's change, with what has been asked for kept up to date. *)
Asked(c) ==
  /\ Asks(c) /\ Defer(c) /\ told' = told /\ now' = now
  /\ asked' \in AskedData /\ asked.placed \subseteq asked'.placed
  /\ c.kind = "place" => c.oid \notin asked.placed /\ c.oid \in asked'.placed

(* Placing an order is a change that is made now or put off; it is placed once. *)
LEMMA PlaceAsks ==
  ASSUME MatchingInv, NEW o \in Orders, PlaceOrder(o)
  PROVE  Asked([kind |-> "place", oid |-> o, n |-> 0])
<1>1. asked \in AskedData
  BY DEF MatchingInv, Shape
<1>2. /\ asked' \in AskedData /\ asked.placed \subseteq asked'.placed
      /\ o \notin asked.placed /\ o \in asked'.placed
  BY <1>1 DEF PlaceOrder, AskedData
<1>3. Asks([kind |-> "place", oid |-> o, n |-> 0])
  BY DEF Asks, ChangeData, Kinds
<1> QED BY <1>2, <1>3 DEF Asked, PlaceOrder, Call

(* So is a removal. *)
LEMMA RemoveAsks ==
  ASSUME MatchingInv, NEW o \in Orders, RemoveOrder(o)
  PROVE  Asked([kind |-> "remove", oid |-> o, n |-> 0])
<1>1. asked \in AskedData
  BY DEF MatchingInv, Shape
<1>2. asked' \in AskedData /\ asked.placed \subseteq asked'.placed
  BY <1>1 DEF RemoveOrder, AskedData
<1>3. Asks([kind |-> "remove", oid |-> o, n |-> 0])
  BY DEF Asks, ChangeData, Kinds
<1> QED BY <1>2, <1>3 DEF Asked, RemoveOrder, Call

(* So is a reduction. *)
LEMMA ReduceAsks ==
  ASSUME MatchingInv, NEW o \in Orders, NEW n \in 1..Detail[o].qty, ReduceOrder(o, n)
  PROVE  Asked([kind |-> "reduce", oid |-> o, n |-> n])
<1>1. asked \in AskedData
  BY DEF MatchingInv, Shape
<1>2. asked' \in AskedData /\ asked.placed \subseteq asked'.placed
  BY <1>1 DEF ReduceOrder, AskedData
<1>3. n \in Nat
  BY MatchingAssumption DEF OrderData
<1>4. Asks([kind |-> "reduce", oid |-> o, n |-> n])
  BY <1>3 DEF Asks, ChangeData, Kinds
<1> QED BY <1>2, <1>4 DEF Asked, ReduceOrder, Call

(* So is a refresh of the quotes. *)
LEMMA RefreshAsks ==
  ASSUME MatchingInv, NEW mid \in Mids, RefreshOrderBook(mid)
  PROVE  Asked([kind |-> "refresh", oid |-> NoAccount, n |-> mid])
<1>1. asked \in AskedData
  BY DEF MatchingInv, Shape
<1>2. asked' \in AskedData /\ asked.placed \subseteq asked'.placed
  BY <1>1 DEF RefreshOrderBook, AskedData
<1>3. mid \in Nat
  BY MatchingAssumption
<1>4. Asks([kind |-> "refresh", oid |-> NoAccount, n |-> mid])
  BY <1>3 DEF Asks, ChangeData, Kinds
<1> QED BY <1>2, <1>4 DEF Asked, RefreshOrderBook, Call

(* So is the removal of expired offers. *)
LEMMA PruneAsks ==
  ASSUME MatchingInv, PruneExpired
  PROVE  Asked([kind |-> "prune", oid |-> NoAccount, n |-> now])
<1>1. asked \in AskedData /\ now \in Nat
  BY Reserving DEF MatchingInv, Shape
<1>2. asked' \in AskedData /\ asked.placed \subseteq asked'.placed
  BY <1>1 DEF PruneExpired, AskedData
<1>3. Asks([kind |-> "prune", oid |-> NoAccount, n |-> now])
  BY <1>1 DEF Asks, ChangeData, Kinds
<1> QED BY <1>2, <1>3 DEF Asked, PruneExpired, Call

(* A change keeps the invariant, made now or put off. *)
LEMMA AskedKeeps ==
  ASSUME MatchingInv, NEW c, Asked(c)
  PROVE  MatchingInv'
BY DeferKeeps DEF Asked

(* Time keeps the invariant. *)
LEMMA AdvanceKeeps ==
  ASSUME MatchingInv, Advance
  PROVE  MatchingInv'
<1>1. now \in Nat /\ now + 1 \in Nat /\ now <= now + 1 /\ now + 1 \in 0..MaxTime
  BY MatchingAssumption DEF MatchingInv, Shape, Advance
<1>2. /\ now' = now + 1 /\ book' = book /\ reservation' = reservation
      /\ told' = told /\ asked' = asked
  BY DEF Advance
<1>3. Kept(book, now + 1) /\ Kept(SavedBook, now + 1)
  BY <1>1, KeptLater DEF MatchingInv, BooksInOrder
<1>4. Shape'
  BY <1>1, <1>2 DEF MatchingInv, Shape
<1>5. BooksInOrder'
  BY <1>2, <1>3 DEF BooksInOrder, SavedBook
<1>6. PlacedOnce' /\ HooksOwed'
  BY <1>2 DEF MatchingInv, PlacedOnce, HooksOwed
<1> QED BY <1>4, <1>5, <1>6 DEF MatchingInv

(* A commit keeps the invariant. *)
LEMMA CommitKeeps ==
  ASSUME MatchingInv, CommitExecution
  PROVE  MatchingInv'
<1>1. reservation.open /\ Publish(book.rows) /\ Tell(reservation.hooks)
  BY DEF CommitExecution
<1>2. told \in [Orders -> Nat] /\ reservation.hooks \in [Orders -> Nat]
  BY Reserving DEF MatchingInv
<1>3. told' = [o \in Orders |-> told[o] + reservation.hooks[o]]
  BY <1>1 DEF Tell
<1>4. told' \in [Orders -> Nat]
  BY <1>2, <1>3
<1>5. \A o \in Orders \ Virtual : told'[o] = 0
  <2>1. \A o \in Orders \ Virtual : told[o] = 0 /\ reservation.hooks[o] = 0
    BY DEF MatchingInv, HooksOwed
  <2> QED BY <2>1, <1>3
<1> QED BY <1>1, <1>4, <1>5, PublishKeeps

(* So does a rollback, which puts the changes that waited into the saved book. *)
LEMMA RollbackKeeps ==
  ASSUME MatchingInv, RollbackExecution
  PROVE  MatchingInv'
<1>1. reservation.open /\ Publish(reservation.saved) /\ told' = told
  BY DEF RollbackExecution
<1>2. told \in [Orders -> Nat] /\ \A o \in Orders \ Virtual : told[o] = 0
  BY Reserving DEF MatchingInv, HooksOwed
<1> QED BY <1>1, <1>2, PublishKeeps

(* So every step keeps it. *)
LEMMA StepKeeps ==
  ASSUME MatchingInv, [Next]_vars
  PROVE  MatchingInv'
<1>1. CASE \E o \in Orders : PlaceOrder(o)
  BY <1>1, PlaceAsks, AskedKeeps
<1>2. CASE \E o \in Orders : RemoveOrder(o)
  BY <1>2, RemoveAsks, AskedKeeps
<1>3. CASE \E o \in Orders : \E n \in 1..Detail[o].qty : ReduceOrder(o, n)
  BY <1>3, ReduceAsks, AskedKeeps
<1>4. CASE \E mid \in Mids : RefreshOrderBook(mid)
  BY <1>4, RefreshAsks, AskedKeeps
<1>5. CASE PruneExpired
  BY <1>5, PruneAsks, AskedKeeps
<1>6. CASE Advance
  BY <1>6, AdvanceKeeps
<1>7. CASE \E t \in Takers : Execute(t)
  BY <1>7, ExecuteKeeps
<1>8. CASE \E t \in Takers : ExecuteReserved(t)
  BY <1>8, ExecuteReservedKeeps
<1>9. CASE CommitExecution
  BY <1>9, CommitKeeps
<1>10. CASE RollbackExecution
  BY <1>10, RollbackKeeps
<1>11. CASE UNCHANGED vars
  BY <1>11 DEF vars, MatchingInv, Shape, BooksInOrder, SavedBook, PlacedOnce, HooksOwed
<1> QED BY <1>1, <1>2, <1>3, <1>4, <1>5, <1>6, <1>7, <1>8, <1>9, <1>10, <1>11 DEF Next

(* The books the engine may end with stay in order, the waiting changes can be made in
   either, and the hooks that wait are owed. *)
THEOREM Inductive == Spec => []MatchingInv
<1>1. Init => MatchingInv
  BY StartsWell
<1>2. MatchingInv /\ [Next]_vars => MatchingInv'
  BY StepKeeps
<1> QED BY <1>1, <1>2, PTL DEF Spec

(* The book keeps its shape, whatever is asked of the engine and in whatever order:
   one row of an id on a side, no two orders of one number. *)
THEOREM TypeCorrect == Spec => []TypeOK
<1>1. MatchingInv => TypeOK
  <2> SUFFICES ASSUME MatchingInv PROVE TypeOK
    OBVIOUS
  <2>1. book \in Book /\ Sound(book.rows)
        /\ \A r \in book.rows : r.seq <= book.seq /\ r.time <= now
    BY DEF MatchingInv, BooksInOrder, Kept
  <2>2. \A r, s \in book.rows :
          /\ r.side = s.side
          /\ r.oid = s.oid \/ (r.seq = s.seq /\ {r.oid, s.oid} \cap External = {})
          => r = s
    BY <2>1 DEF Sound, IsQuote
  <2>3. reservation.saved \subseteq Row /\ reservation.deferred \in Seq(ChangeData)
        /\ told \in [Orders -> Nat] /\ now \in 0..MaxTime
    BY DEF MatchingInv, Shape
  <2>4. ToSet(reservation.deferred) \subseteq ChangeData
    BY <2>3 DEF ToSet
  <2> QED BY <2>1, <2>2, <2>3, <2>4 DEF TypeOK
<1> QED BY <1>1, Inductive, PTL

(* In every book that can come about the planner treats every taker as it should: it
   takes what there is and no more, conserves every order, trades nobody with himself,
   and passes over nobody who was to come first. *)
THEOREM ContractHolds == Spec => []PlanKeepsContract
<1>1. MatchingInv => PlanKeepsContract
  <2> SUFFICES ASSUME MatchingInv, NEW t \in Takers PROVE KeepsContract(Reach(t), t)
    BY DEF PlanKeepsContract
  <2>1. Sound(book.rows) /\ Reach(t) \subseteq book.rows
    BY DEF MatchingInv, BooksInOrder, Kept, Reach
  <2>2. IsFiniteSet(Reach(t))
    BY <2>1, FS_Subset DEF Sound
  <2>3. Sound(Reach(t))
    BY <2>1, <2>2 DEF Sound
  <2>4. t \in Taker /\ MaxSlices \in Nat
    BY MatchingAssumption
  <2> QED BY <2>3, <2>4, ContractKept
<1> QED BY <1>1, Inductive, PTL

-----------------------------------------------------------------------------
(* The engine implements the atomic book. *)

(* Nothing waits: both outcomes are the book. *)
LEMMA NothingPending ==
  ASSUME MatchingInv, ~reservation.open
  PROVE  IfCommitted = Seen /\ IfRolledBack = Seen /\ Pending = [o \in Orders |-> 0]
<1>1. /\ With(book.rows) = book /\ now \in Nat /\ Kept(book, now)
      /\ reservation.deferred = <<>>
  BY WithRows, Reserving DEF MatchingInv, BooksInOrder
<1>2. Released(book, <<>>, now) = book
  BY <1>1, ReleasedNothing
<1> QED BY <1>1, <1>2 DEF IfCommitted, Outcome, With, Seen, IfRolledBack, Pending

(* A first state of the engine is a first state of AtomicBook. *)
LEMMA StartMaps == Init => Promise!Init
<1> SUFFICES ASSUME Init PROVE Promise!Init
  OBVIOUS
<1>1. MatchingInv
  BY StartsWell
<1>2. /\ book.rows = {} /\ reservation.open = FALSE /\ told = [o \in Orders |-> 0]
  BY DEF Init, Free
<1>3. IfCommitted = Seen /\ IfRolledBack = Seen /\ Pending = [o \in Orders |-> 0]
  BY <1>1, <1>2, NothingPending
<1>4. Seen = [left |-> [o \in Orders |-> 0], quotes |-> {}]
  <2>1. \A o \in Orders : Left({}, o) = 0
    BY LeftNone
  <2>2. View({}).left = [o \in Orders |-> 0]
    BY <2>1, ViewIs
  <2>3. View({}).quotes = {}
    <3>1. {s \in {} : s.oid \in External} = {}
      OBVIOUS
    <3>2. \A S : S = {} => {[side |-> r.side, price |-> r.price, size |-> r.qty] : r \in S} = {}
      OBVIOUS
    <3> QED BY <3>1, <3>2 DEF View
  <2> QED BY <1>2, <2>2, <2>3, ViewIs DEF Seen
<1> QED BY <1>2, <1>3, <1>4 DEF Promise!Init, Promise!Nothing

(* A change that callers ask for is a change of the atomic book. *)
LEMMA AskedMaps ==
  ASSUME MatchingInv, NEW c, Asked(c)
  PROVE  /\ reservation'.open = reservation.open /\ Pending' = Pending /\ told' = told
         /\ Seen' = IF reservation.open THEN Seen ELSE Viewed(Seen, c)
         /\ IfCommitted' = Viewed(IfCommitted, c)
         /\ IfRolledBack' = Viewed(IfRolledBack, c)
BY DeferShows DEF Asked

(* Placing an order during a reservation, which the engine puts off, AtomicBook
   does at once in both of its views. *)
LEMMA PlaceMaps ==
  ASSUME MatchingInv, NEW o \in Orders, PlaceOrder(o)
  PROVE  Promise!Place(o)
<1> DEFINE c == [kind |-> "place", oid |-> o, n |-> 0]
<1>1. /\ reservation'.open = reservation.open /\ Pending' = Pending /\ told' = told
      /\ Seen' = IF reservation.open THEN Seen ELSE Viewed(Seen, c)
      /\ IfCommitted' = Viewed(IfCommitted, c)
      /\ IfRolledBack' = Viewed(IfRolledBack, c)
  BY PlaceAsks, AskedMaps
<1>2. \A v : Viewed(v, c) = More(v, o)
  BY DEF Viewed
<1>3. \A v : More(v, o) = [v EXCEPT !.left[o] = @ + [p \in Orders |-> Detail[p].qty][o]]
  BY DEF More
<1> HIDE DEF c
<1> QED BY <1>1, <1>2, <1>3 DEF Promise!Place, Promise!Change

(* So with a removal. *)
LEMMA RemoveMaps ==
  ASSUME MatchingInv, NEW o \in Orders, RemoveOrder(o)
  PROVE  Promise!Remove(o)
<1> DEFINE c == [kind |-> "remove", oid |-> o, n |-> 0]
<1>1. /\ reservation'.open = reservation.open /\ Pending' = Pending /\ told' = told
      /\ Seen' = IF reservation.open THEN Seen ELSE Viewed(Seen, c)
      /\ IfCommitted' = Viewed(IfCommitted, c)
      /\ IfRolledBack' = Viewed(IfRolledBack, c)
  BY RemoveAsks, AskedMaps
<1>2. \A v : Viewed(v, c) = [v EXCEPT !.left[o] = 0]
  BY DEF Viewed
<1> HIDE DEF c
<1> QED BY <1>1, <1>2 DEF Promise!Remove, Promise!Change

(* So with a reduction. *)
LEMMA ReduceMaps ==
  ASSUME MatchingInv, NEW o \in Orders, NEW n \in 1..Detail[o].qty, ReduceOrder(o, n)
  PROVE  Promise!Reduce(o, n)
<1> DEFINE c == [kind |-> "reduce", oid |-> o, n |-> n]
<1>1. /\ reservation'.open = reservation.open /\ Pending' = Pending /\ told' = told
      /\ Seen' = IF reservation.open THEN Seen ELSE Viewed(Seen, c)
      /\ IfCommitted' = Viewed(IfCommitted, c)
      /\ IfRolledBack' = Viewed(IfRolledBack, c)
  BY ReduceAsks, AskedMaps
<1>2. \A v : Viewed(v, c) = Less(v, o, n)
  BY DEF Viewed
<1>3. \A v : Less(v, o, n) = [v EXCEPT !.left[o] = IF n < @ THEN @ - n ELSE 0]
  BY DEF Less
<1> HIDE DEF c
<1> QED BY <1>1, <1>2, <1>3 DEF Promise!Reduce, Promise!Change

(* So with a refresh of the quotes. *)
LEMMA RefreshMaps ==
  ASSUME MatchingInv, NEW mid \in Mids, RefreshOrderBook(mid)
  PROVE  Promise!Refresh(mid)
<1> DEFINE c == [kind |-> "refresh", oid |-> NoAccount, n |-> mid]
<1>1. /\ reservation'.open = reservation.open /\ Pending' = Pending /\ told' = told
      /\ Seen' = IF reservation.open THEN Seen ELSE Viewed(Seen, c)
      /\ IfCommitted' = Viewed(IfCommitted, c)
      /\ IfRolledBack' = Viewed(IfRolledBack, c)
  BY RefreshAsks, AskedMaps
<1>2. \A v : Viewed(v, c) = [v EXCEPT !.quotes = Ladder(mid)]
  BY DEF Viewed
<1>3. [m \in Mids |-> Ladder(m)][mid] = Ladder(mid)
  OBVIOUS
<1> HIDE DEF c
<1> QED BY <1>1, <1>2, <1>3 DEF Promise!Refresh, Promise!Change

(* So with the removal of expired offers. *)
LEMMA PruneMaps ==
  ASSUME MatchingInv, PruneExpired
  PROVE  now \in 0..MaxTime /\ Promise!Prune(now)
<1> DEFINE c == [kind |-> "prune", oid |-> NoAccount, n |-> now]
<1>1. /\ reservation'.open = reservation.open /\ Pending' = Pending /\ told' = told
      /\ Seen' = IF reservation.open THEN Seen ELSE Viewed(Seen, c)
      /\ IfCommitted' = Viewed(IfCommitted, c)
      /\ IfRolledBack' = Viewed(IfRolledBack, c)
  BY PruneAsks, AskedMaps
<1>2. \A v : Viewed(v, c) = [v EXCEPT !.left =
                [o \in Orders |-> IF o \in Virtual /\ Detail[o].expires <= now
                                  THEN 0 ELSE v.left[o]]]
  BY DEF Viewed
<1>3. \A v : [o \in Orders |-> IF o \in Virtual /\ Detail[o].expires <= now
                              THEN 0 ELSE v.left[o]]
           = [o \in Orders |-> IF o \in Virtual /\ [p \in Orders |-> Detail[p].expires][o] <= now
                              THEN 0 ELSE v.left[o]]
  OBVIOUS
<1>4. now \in 0..MaxTime
  BY DEF MatchingInv, Shape
<1> HIDE DEF c
<1> QED BY <1>1, <1>2, <1>3, <1>4 DEF Promise!Prune, Promise!Change

(* The clock alone changes nothing that callers see, not even of a book that is still
   to be released. *)
LEMMA AdvanceMaps ==
  ASSUME MatchingInv, Advance
  PROVE  UNCHANGED Promise!vars
<1>1. /\ now' = now + 1 /\ book' = book /\ reservation' = reservation /\ told' = told
      /\ now \in Nat /\ now + 1 \in Nat /\ now <= now + 1
  BY Reserving DEF Advance, MatchingInv
<1>2. /\ With(book.rows) = book /\ With(reservation.saved) = SavedBook
      /\ book.rows = With(book.rows).rows /\ reservation.saved = SavedBook.rows
      /\ Kept(book, now) /\ Kept(SavedBook, now)
  BY WithRows DEF MatchingInv, BooksInOrder
<1>3. Kept(book, now + 1) /\ Kept(SavedBook, now + 1)
  BY <1>1, <1>2, KeptLater
<1>4. Waits(reservation.deferred, book.rows) /\ Waits(reservation.deferred, SavedBook.rows)
  BY <1>2 DEF MatchingInv, PlacedOnce
<1>5. /\ View(Released(book, reservation.deferred, now).rows) =
           View(Released(book, reservation.deferred, now + 1).rows)
      /\ View(Released(SavedBook, reservation.deferred, now).rows) =
           View(Released(SavedBook, reservation.deferred, now + 1).rows)
  BY <1>1, <1>2, <1>3, <1>4, ReleasedAnyTime
<1>6. Seen' = Seen /\ Pending' = Pending
  BY <1>1 DEF Seen, Pending
<1>7. IfCommitted' = IfCommitted
  BY <1>1, <1>2, <1>5 DEF IfCommitted, Outcome, With
<1>8. IfRolledBack' = IfRolledBack
  BY <1>1, <1>2, <1>5, <1>6 DEF IfRolledBack, Outcome, With
<1> QED BY <1>1, <1>6, <1>7, <1>8 DEF Promise!vars

(* What an execution takes from the book that callers see. *)
LEMMA ExecutedShows ==
  ASSUME MatchingInv, NEW t \in Takers, Executes(t, PlanFor(t))
  PROVE  /\ Promise!Take
         /\ Promise!Taken = [o \in Orders |-> Taken(PlanFor(t).slices, o)]
         /\ \A o \in Orders : /\ Seen.left[o] = Left(book.rows, o)
                              /\ Seen'.left[o] = Left(book'.rows, o)
<1>1. /\ \A o \in Orders :
           /\ Left(book.rows, o) = Left(book'.rows, o) + Taken(PlanFor(t).slices, o)
           /\ Left(book'.rows, o) \in Nat /\ Taken(PlanFor(t).slices, o) \in Nat
      /\ \A q \in View(book'.rows).quotes : \E p \in View(book.rows).quotes :
           q = [p EXCEPT !.size = q.size] /\ q.size <= p.size
  BY Executed
<1>2. \A o \in Orders : Seen.left[o] = Left(book.rows, o) /\ Seen'.left[o] = Left(book'.rows, o)
  <2>1. View(book.rows).left = [o \in Orders |-> Left(book.rows, o)]
    BY ViewIs
  <2>2. View(book'.rows).left = [o \in Orders |-> Left(book'.rows, o)]
    BY ViewIs
  <2>3. Seen = View(book.rows) /\ Seen' = View(book'.rows)
    BY DEF Seen
  <2> QED BY ONLY <2>1, <2>2, <2>3
<1>3. \A o \in Orders : Seen'.left[o] \in 0..Seen.left[o]
  BY <1>1, <1>2
<1>4. \A o \in Orders : Seen.left[o] - Seen'.left[o] = Taken(PlanFor(t).slices, o)
  BY <1>1, <1>2
<1>5. Promise!Take
  BY <1>1, <1>3 DEF Promise!Take, Seen
<1>6. Promise!Taken = [o \in Orders |-> Taken(PlanFor(t).slices, o)]
  BY <1>4 DEF Promise!Taken
<1> QED BY <1>2, <1>5, <1>6

(* A trade without a reservation is a trade. *)
LEMMA ExecuteMaps ==
  ASSUME MatchingInv, NEW t \in Takers, Execute(t)
  PROVE  Promise!Trade
<1>1. /\ Executes(t, PlanFor(t)) /\ Tell(Hooks(PlanFor(t).slices))
      /\ reservation' = reservation
  BY DEF Execute
<1>2. ~reservation.open /\ MatchingInv'
  BY <1>1, ExecuteKeeps DEF Executes
<1>3. IfCommitted = Seen /\ IfRolledBack = Seen /\ Pending = [o \in Orders |-> 0]
  BY <1>2, NothingPending
<1>4. IfCommitted' = Seen' /\ IfRolledBack' = Seen' /\ Pending' = [o \in Orders |-> 0]
  <2>1. ~reservation'.open
    BY <1>1, <1>2
  <2>2. IfRolledBack' = Seen'
    BY <2>1 DEF IfRolledBack
  <2>3. Pending' = [o \in Orders |-> 0]
    BY <2>1 DEF Pending
  <2>4. IfCommitted' = Seen'
    <3>1. MatchingInv /\ ~reservation.open => IfCommitted = Seen
      BY NothingPending
    <3>2. (MatchingInv /\ ~reservation.open => IfCommitted = Seen)'
      BY NothingPending, PTL
    <3> QED BY <3>2, <1>2, <2>1
  <2> QED BY <2>2, <2>3, <2>4
<1>5. Promise!Take /\ Promise!Taken = [o \in Orders |-> Taken(PlanFor(t).slices, o)]
  BY <1>1, ExecutedShows
<1>6. Promise!Tell(Promise!Taken)
  <2>1. \A o \in Orders \ Virtual : told[o] = 0
    BY DEF MatchingInv, HooksOwed
  <2>2. told' = [o \in Orders |-> told[o] +
                   (IF o \in Virtual THEN Taken(PlanFor(t).slices, o) ELSE 0)]
    BY <1>1 DEF Tell, Hooks
  <2>3. told' = [o \in Orders |-> IF o \in Virtual THEN told[o] + Taken(PlanFor(t).slices, o)
                                                  ELSE 0]
    BY <2>1, <2>2
  <2> QED BY <1>5, <2>3 DEF Promise!Tell
<1> QED BY <1>1, <1>2, <1>3, <1>4, <1>5, <1>6 DEF Promise!Trade

(* A trade with a reservation is a trade seen beside the book without it. *)
LEMMA ReserveMaps ==
  ASSUME MatchingInv, NEW t \in Takers, ExecuteReserved(t)
  PROVE  Promise!Reserve
<1>1. /\ Executes(t, PlanFor(t)) /\ told' = told
      /\ reservation' = [open |-> TRUE, saved |-> book.rows,
                         hooks |-> Hooks(PlanFor(t).slices), deferred |-> <<>>]
  BY DEF ExecuteReserved
<1>2. ~reservation.open /\ MatchingInv'
  BY <1>1, ExecuteReservedKeeps DEF Executes
<1>3. /\ reservation'.open = TRUE /\ reservation'.saved = book.rows
      /\ reservation'.deferred = <<>>
  BY <1>1
<1>4. /\ Kept(book', now) /\ book.seq <= book'.seq /\ now' = now /\ now \in Nat
      /\ book' \in Book /\ book'.seq \in Nat
  BY <1>1, Executed, Reserving DEF MatchingInv, Kept, Book
<1>5. /\ Promise!Take /\ Promise!Taken = [o \in Orders |-> Taken(PlanFor(t).slices, o)]
      /\ \A o \in Orders : Seen.left[o] = Left(book.rows, o) /\ Seen'.left[o] = Left(book'.rows, o)
  BY <1>1, ExecutedShows
<1>6. Pending' = Promise!Taken
  BY <1>3, <1>5 DEF Pending, Promise!Taken
<1>7. IfCommitted' = Seen'
  <2>1. [book' EXCEPT !.rows = book'.rows] = book'
    BY <1>4 DEF Book
  <2>2. Released(book', <<>>, now) = book'
    BY <1>4, ReleasedNothing
  <2> QED BY <1>3, <1>4, <2>1, <2>2 DEF IfCommitted, Outcome, Seen
<1>8. IfRolledBack' = Seen
  <2> DEFINE b == [book' EXCEPT !.rows = book.rows]
  <2>1. b = [rows |-> book.rows, seq |-> book'.seq] /\ b.rows = book.rows
    BY <1>4 DEF Book
  <2>2. Kept(book, now)
    BY DEF MatchingInv, BooksInOrder
  <2> HIDE DEF b
  <2>3. Kept(b, now)
    BY <1>4, <2>1, <2>2, KeptCounter
  <2>4. Released(b, <<>>, now) = b
    BY <1>4, <2>3, ReleasedNothing
  <2>5. IfRolledBack' = View(Released(b, <<>>, now).rows)
    BY <1>3, <1>4 DEF IfRolledBack, Outcome, b
  <2> QED BY <2>1, <2>4, <2>5 DEF Seen
<1> QED BY <1>1, <1>2, <1>3, <1>5, <1>6, <1>7, <1>8 DEF Promise!Reserve

(* A release shows the outcome that was promised, and leaves nothing waiting. *)
LEMMA PublishShows ==
  ASSUME MatchingInv, NEW rows, rows \in {book.rows, reservation.saved}, Publish(rows),
         MatchingInv'
  PROVE  /\ Seen' = Outcome(rows) /\ IfCommitted' = Outcome(rows)
         /\ IfRolledBack' = Outcome(rows) /\ Pending' = [o \in Orders |-> 0]
         /\ ~reservation'.open
<1>1. /\ book' = Released([book EXCEPT !.rows = rows], reservation.deferred, now)
      /\ reservation' = Free
  BY DEF Publish
<1>2. ~reservation'.open
  BY <1>1 DEF Free
<1>3. Seen' = Outcome(rows)
  BY <1>1 DEF Seen, Outcome
<1>4. IfCommitted' = Seen' /\ IfRolledBack' = Seen' /\ Pending' = [o \in Orders |-> 0]
  <2>1. (MatchingInv /\ ~reservation.open =>
           IfCommitted = Seen /\ IfRolledBack = Seen /\ Pending = [o \in Orders |-> 0])'
    BY NothingPending, PTL
  <2> QED BY <2>1, <1>2
<1> QED BY <1>2, <1>3, <1>4

(* A commit leaves the view with the trade, and with all that was asked for since.
   *)
LEMMA CommitMaps ==
  ASSUME MatchingInv, CommitExecution
  PROVE  Promise!Commit
<1>1. reservation.open /\ Publish(book.rows) /\ Tell(reservation.hooks) /\ MatchingInv'
  BY CommitKeeps DEF CommitExecution
<1>2. /\ Seen' = IfCommitted /\ IfCommitted' = IfCommitted /\ IfRolledBack' = IfCommitted
      /\ Pending' = [o \in Orders |-> 0] /\ ~reservation'.open
  BY <1>1, PublishShows DEF IfCommitted
<1>3. Promise!Tell(Pending)
  <2>1. \A o \in Orders \ Virtual : told[o] = 0 /\ reservation.hooks[o] = 0
    BY DEF MatchingInv, HooksOwed
  <2>2. \A o \in Virtual : o \in Orders /\ reservation.hooks[o] = Pending[o]
    BY <1>1 DEF MatchingInv, HooksOwed, Pending, Virtual
  <2>3. told' = [o \in Orders |-> told[o] + reservation.hooks[o]]
    BY <1>1 DEF Tell
  <2>4. told' = [o \in Orders |-> IF o \in Virtual THEN told[o] + Pending[o] ELSE 0]
    BY <2>1, <2>2, <2>3
  <2> QED BY <2>4 DEF Promise!Tell
<1> QED BY <1>1, <1>2, <1>3 DEF Promise!Commit, Promise!Release, Promise!Nothing

(* A rollback leaves the view without it, and with all that was asked for since.
   *)
LEMMA RollbackMaps ==
  ASSUME MatchingInv, RollbackExecution
  PROVE  Promise!Rollback
<1>1. /\ reservation.open /\ Publish(reservation.saved) /\ told' = told /\ MatchingInv'
  BY RollbackKeeps DEF RollbackExecution
<1>2. IfRolledBack = Outcome(reservation.saved)
  BY <1>1 DEF IfRolledBack
<1>3. /\ Seen' = IfRolledBack /\ IfCommitted' = IfRolledBack /\ IfRolledBack' = IfRolledBack
      /\ Pending' = [o \in Orders |-> 0] /\ ~reservation'.open
  BY <1>1, <1>2, PublishShows
<1> QED BY <1>1, <1>3 DEF Promise!Rollback, Promise!Release, Promise!Nothing

(* So every step of the engine is a step of AtomicBook, or none. *)
LEMMA StepMaps ==
  ASSUME MatchingInv, [Next]_vars
  PROVE  [Promise!Next]_(Promise!vars)
<1>1. CASE \E o \in Orders : PlaceOrder(o)
  BY <1>1, PlaceMaps DEF Promise!Next
<1>2. CASE \E o \in Orders : RemoveOrder(o)
  BY <1>2, RemoveMaps DEF Promise!Next
<1>3. CASE \E o \in Orders : \E n \in 1..Detail[o].qty : ReduceOrder(o, n)
  <2>1. PICK o \in Orders : \E n \in 1..Detail[o].qty : Promise!Reduce(o, n)
    BY <1>3, ReduceMaps
  <2>2. [p \in Orders |-> Detail[p].qty][o] = Detail[o].qty
    OBVIOUS
  <2> QED BY <2>1, <2>2 DEF Promise!Next
<1>4. CASE \E mid \in Mids : RefreshOrderBook(mid)
  BY <1>4, RefreshMaps DEF Promise!Next
<1>5. CASE PruneExpired
  BY <1>5, PruneMaps DEF Promise!Next
<1>6. CASE Advance
  BY <1>6, AdvanceMaps
<1>7. CASE \E t \in Takers : Execute(t)
  BY <1>7, ExecuteMaps DEF Promise!Next
<1>8. CASE \E t \in Takers : ExecuteReserved(t)
  BY <1>8, ReserveMaps DEF Promise!Next
<1>9. CASE CommitExecution
  BY <1>9, CommitMaps DEF Promise!Next
<1>10. CASE RollbackExecution
  BY <1>10, RollbackMaps DEF Promise!Next
<1>11. CASE UNCHANGED vars
  <2>1. UNCHANGED Promise!vars
    BY <1>11 DEF vars, Promise!vars, Seen, IfCommitted, IfRolledBack, Outcome, Pending
  <2> QED BY <2>1
<1> QED BY <1>1, <1>2, <1>3, <1>4, <1>5, <1>6, <1>7, <1>8, <1>9, <1>10, <1>11 DEF Next

(* The engine keeps its promise: its clocks, numbers, icebergs, saved book and list of
   deferred changes cannot be told from an atomic book.  Initial states map to initial
   states and every step to a step of AtomicBook or to none. *)
THEOREM Implements == Spec => KeepsPromise
<1>1. Init => Promise!Init
  BY StartMaps
<1>2. MatchingInv /\ [Next]_vars => [Promise!Next]_(Promise!vars)
  BY StepMaps
<1> QED BY <1>1, <1>2, Inductive, PTL DEF Spec, KeepsPromise, Promise!Spec

=============================================================================
