---------------------------- MODULE Induction -----------------------------
(***************************************************************************)
(* Induction and sums for the proofs.  The induction theorems of the       *)
(* library take a predicate operator, which the provers cannot             *)
(* instantiate; stated of a set they are first-order facts and follow from *)
(* the library's theorem that < on Nat is well-founded.  From them: what   *)
(* MapThenSumSet computes over a finite set does not depend on the order   *)
(* in which the elements are chosen.                                       *)
(***************************************************************************)
EXTENDS Integers, FiniteSetsExt, FiniteSetTheorems, WellFoundedInduction, TLAPS

----------------------------------------------------------------------------
(* Induction                                                                *)

\* A set of numbers with 0 that is closed under successor has them all.
LEMMA SetInduction ==
  ASSUME NEW S, 0 \in S, \A n \in Nat : n \in S => n + 1 \in S
  PROVE  \A n \in Nat : n \in S
<1> DEFINE T == Nat \ S
           R == OpToRel(<, Nat)
<1> SUFFICES ASSUME T # {} PROVE FALSE
  OBVIOUS
<1>1. T \subseteq Nat
  OBVIOUS
<1>2. IsWellFoundedOn(R, Nat)
  BY NatLessThanWellFounded, Zenon
<1>3. \A x, y \in Nat : y < x => <<y, x>> \in R
  BY Zenon DEF OpToRel
<1> HIDE DEF T, R
<1>4. PICK n \in T : \A m \in T : ~(<<m, n>> \in R)
  BY <1>1, <1>2, WFMin
<1>5. n # 0 /\ n - 1 \in Nat /\ n - 1 < n /\ n \in Nat /\ (n - 1) + 1 = n
  BY <1>1, <1>4 DEF T
<1>6. n - 1 \notin S
  BY <1>5, <1>4 DEF T
<1> QED BY <1>1, <1>3, <1>4, <1>5, <1>6 DEF T

\* The same up to a bound.
LEMMA BoundedInduction ==
  ASSUME NEW n \in Nat, NEW S, 0 \in S, \A k \in 1 .. n : k - 1 \in S => k \in S
  PROVE  \A k \in 0 .. n : k \in S
<1> DEFINE T == {k \in Nat : k <= n => k \in S}
<1>1. 0 \in T
  OBVIOUS
<1>2. ASSUME NEW k \in Nat, k \in T PROVE k + 1 \in T
  <2>1. k + 1 \in Nat /\ (k + 1) - 1 = k
    OBVIOUS
  <2>2. k + 1 <= n => k + 1 \in 1 .. n /\ k <= n
    OBVIOUS
  <2> QED BY <1>2, <2>1, <2>2
<1>3. \A k \in Nat : k \in T
  <2> HIDE DEF T
  <2> QED BY <1>1, <1>2, SetInduction
<1>4. \A k \in 0 .. n : k \in Nat /\ k <= n
  OBVIOUS
<1> QED BY <1>3, <1>4

\* A set of sets with {} that is closed under adding an element of the finite
\* set S has every subset of S.
LEMMA FiniteInduction ==
  ASSUME NEW S, IsFiniteSet(S), NEW T, {} \in T,
         \A U \in SUBSET S : \A x \in S : U \in T /\ x \notin U => U \union {x} \in T
  PROVE  \A U \in SUBSET S : U \in T
<1> DEFINE N == {n \in Nat : \A U \in SUBSET S : Cardinality(U) = n => U \in T}
<1>0. \A U \in SUBSET S : IsFiniteSet(U) /\ Cardinality(U) \in Nat
  BY FS_Subset, FS_CardinalityType
<1>1. 0 \in N
  <2>1. \A U \in SUBSET S : Cardinality(U) = 0 => U = {}
    BY <1>0, FS_EmptySet
  <2> QED BY <2>1
<1>2. \A n \in Nat : n \in N => n + 1 \in N
  <2> SUFFICES ASSUME NEW n \in Nat, n \in N, NEW U \in SUBSET S, Cardinality(U) = n + 1
               PROVE  U \in T
    OBVIOUS
  <2>1. U # {}
    BY FS_EmptySet
  <2>2. PICK x \in U : TRUE
    BY <2>1
  <2>3. Cardinality(U \ {x}) = n
    <3>1. Cardinality(U \ {x}) = Cardinality(U) - 1
      BY <1>0, FS_RemoveElement
    <3> QED BY <3>1
  <2>4. U \ {x} \in SUBSET S /\ U \ {x} \in T
    BY <2>3
  <2>5. (U \ {x}) \union {x} = U /\ x \notin U \ {x} /\ x \in S
    OBVIOUS
  <2> QED BY <2>4, <2>5
<1> HIDE DEF N
<1>3. \A n \in Nat : n \in N
  BY <1>1, <1>2, SetInduction
<1> QED BY <1>0, <1>3 DEF N

----------------------------------------------------------------------------
(* Recursive functions on an interval                                       *)

Iterates(f, n, V, x, G) ==
  f \in [0 .. n -> V] /\ f[0] = x /\ \A i \in 1 .. n : f[i] = G[<<i, f[i - 1]>>]

\* A function that is defined by its value at 0 and a step exists.
LEMMA IterationExists ==
  ASSUME NEW n \in Nat, NEW V, NEW x \in V, NEW G \in [(1 .. n) \X V -> V]
  PROVE  \E f : Iterates(f, n, V, x, G)
<1> DEFINE Good(f, k) == /\ f \in [0 .. k -> V] /\ f[0] = x
                         /\ \A i \in 1 .. k : f[i] = G[<<i, f[i - 1]>>]
           S == {k \in Nat : k <= n => \E f : Good(f, k)}
<1>1. 0 \in S
  <2>1. Good([i \in 0 .. 0 |-> x], 0)
    OBVIOUS
  <2> HIDE DEF Good
  <2> QED BY <2>1
<1>2. ASSUME NEW k \in Nat, k \in S PROVE k + 1 \in S
  <2> SUFFICES ASSUME k + 1 <= n PROVE \E f : Good(f, k + 1)
    OBVIOUS
  <2>1. k <= n
    OBVIOUS
  <2>2. PICK f : Good(f, k)
    BY <1>2, <2>1
  <2> DEFINE y == G[<<k + 1, f[k]>>]
             h == [i \in 0 .. k + 1 |-> IF i = k + 1 THEN y ELSE f[i]]
  <2>3. y \in V
    <3>1. f[k] \in V /\ k + 1 \in 1 .. n
      BY <2>2
    <3>2. <<k + 1, f[k]>> \in (1 .. n) \X V
      BY <3>1
    <3> QED BY <3>2
  <2>4. \A i \in 0 .. k : h[i] = f[i] /\ f[i] \in V
    <3>1. f \in [0 .. k -> V]
      BY <2>2
    <3>2. ASSUME NEW i \in 0 .. k PROVE h[i] = f[i]
      <4>1. i \in 0 .. k + 1 /\ i # k + 1
        OBVIOUS
      <4>2. h[i] = IF i = k + 1 THEN y ELSE f[i]
        BY <4>1, Zenon
      <4> HIDE DEF y, h, Good
      <4> QED BY <4>1, <4>2
    <3> HIDE DEF y, h, Good
    <3> QED BY <3>1, <3>2
  <2>5. h[k + 1] = G[<<k + 1, h[k]>>]
    <3>1. k + 1 \in 0 .. k + 1 /\ k \in 0 .. k
      OBVIOUS
    <3>2. h[k + 1] = y
      BY <3>1, Zenon
    <3> HIDE DEF h
    <3> QED BY <2>4, <3>1, <3>2
  <2>6. h \in [0 .. k + 1 -> V]
    <3>1. ASSUME NEW i \in 0 .. k + 1 PROVE (IF i = k + 1 THEN y ELSE f[i]) \in V
      <4>1. i = k + 1 \/ i \in 0 .. k
        OBVIOUS
      <4> HIDE DEF y
      <4> QED BY <2>3, <2>4, <4>1
    <3> HIDE DEF y
    <3> QED BY <3>1
  <2>7. \A i \in 1 .. k + 1 : h[i] = G[<<i, h[i - 1]>>]
    <3> SUFFICES ASSUME NEW i \in 1 .. k + 1 PROVE h[i] = G[<<i, h[i - 1]>>]
      OBVIOUS
    <3>1. CASE i = k + 1
      <4>1. i - 1 = k
        BY <3>1
      <4> HIDE DEF h
      <4> QED BY <2>5, <3>1, <4>1
    <3>2. CASE i # k + 1
      <4>1. i \in 1 .. k /\ i - 1 \in 0 .. k /\ i \in 0 .. k
        BY <3>2
      <4> HIDE DEF h
      <4> QED BY <2>2, <2>4, <4>1
    <3> QED BY <3>1, <3>2
  <2>8. h[0] = x
    BY <2>2, <2>4
  <2>9. Good(h, k + 1)
    <3> HIDE DEF h
    <3> QED BY <2>6, <2>7, <2>8
  <2> HIDE DEF Good, h
  <2> QED BY <2>9
<1> HIDE DEF S
<1>3. n \in S
  BY <1>1, <1>2, SetInduction
<1>4. \E f : Good(f, n)
  <2> HIDE DEF Good
  <2> QED BY <1>3 DEF S
<1> QED BY <1>4 DEF Iterates

\* Two functions with the same value at 0 and the same steps up to m are equal
\* up to m.
StepsAgree(f, g, m) == f[0] = g[0] /\ \A i \in 1 .. m : f[i - 1] = g[i - 1] => f[i] = g[i]

LEMMA IterationsAgree ==
  ASSUME NEW m \in Nat, NEW f, NEW g, StepsAgree(f, g, m)
  PROVE  \A i \in 0 .. m : f[i] = g[i]
<1> DEFINE S == {k \in Nat : k <= m => f[k] = g[k]}
<1>1. 0 \in S
  BY DEF StepsAgree
<1>2. ASSUME NEW k \in Nat, k \in S PROVE k + 1 \in S
  <2> SUFFICES ASSUME k + 1 <= m PROVE f[k + 1] = g[k + 1]
    OBVIOUS
  <2>1. k + 1 \in 1 .. m /\ (k + 1) - 1 = k /\ f[k] = g[k]
    BY <1>2
  <2> QED BY <2>1 DEF StepsAgree
<1> HIDE DEF S
<1>3. \A k \in Nat : k \in S
  BY <1>1, <1>2, SetInduction
<1> QED BY <1>3 DEF S

----------------------------------------------------------------------------
(* Sums over finite sets                                                    *)

\* The element MapThenSumSet takes from s, and the function it defines: the
\* value of F there and the sum over the rest.
Chosen(s) == CHOOSE x \in s : TRUE
Sums(it, F, D) ==
  it = [s \in SUBSET D |-> IF s = {} THEN 0 ELSE F[Chosen(s)] + it[s \ {Chosen(s)}]]

\* There is such a function: the definition by recursion is sound.
LEMMA SumExists ==
  ASSUME NEW D, IsFiniteSet(D), NEW F \in [D -> Int]
  PROVE  \E it : Sums(it, F, D)
<1> DEFINE Small(n) == {s \in SUBSET D : Cardinality(s) <= n}
           Step(s, g) == IF s = {} THEN 0 ELSE F[Chosen(s)] + g[s \ {Chosen(s)}]
           N == {n \in Nat : \E g : g = [s \in Small(n) |-> Step(s, g)]}
<1>0. \A U \in SUBSET D : IsFiniteSet(U) /\ Cardinality(U) \in Nat
  BY FS_Subset, FS_CardinalityType
<1>1. \A s \in SUBSET D : s # {} => Chosen(s) \in s /\ s \ {Chosen(s)} \in SUBSET D
                                   /\ Cardinality(s \ {Chosen(s)}) = Cardinality(s) - 1
  <2> SUFFICES ASSUME NEW s \in SUBSET D, s # {}
               PROVE Chosen(s) \in s /\ s \ {Chosen(s)} \in SUBSET D
                                   /\ Cardinality(s \ {Chosen(s)}) = Cardinality(s) - 1
    OBVIOUS
  <2>1. Chosen(s) \in s
    BY DEF Chosen
  <2> HIDE DEF Chosen
  <2> QED BY <1>0, <2>1, FS_RemoveElement
<1> HIDE DEF Step
<1>2. 0 \in N
  <2>1. Small(0) = {{}}
    <3>1. \A s \in SUBSET D : Cardinality(s) <= 0 => s = {}
      BY <1>0, FS_EmptySet
    <3>2. {} \in SUBSET D /\ Cardinality({}) <= 0
      BY FS_EmptySet
    <3> QED BY <3>1, <3>2
  <2> DEFINE g == [s \in Small(0) |-> 0]
  <2>2. \A s \in Small(0) : Step(s, g) = 0
    BY <2>1 DEF Step
  <2>3. g = [s \in Small(0) |-> Step(s, g)]
    <3> HIDE DEF Small
    <3> QED BY <2>2
  <2> HIDE DEF g
  <2> QED BY <2>3
<1>3. ASSUME NEW n \in Nat, n \in N PROVE n + 1 \in N
  <2>1. PICK g : g = [s \in Small(n) |-> Step(s, g)]
    BY <1>3
  <2> DEFINE h == [s \in Small(n + 1) |-> Step(s, g)]
  <2>2. \A s \in Small(n) : s \in Small(n + 1) /\ h[s] = g[s]
    <3>1. \A s \in Small(n) : s \in Small(n + 1)
      BY <1>0
    <3> HIDE DEF Small
    <3> QED BY <2>1, <3>1
  <2>3. \A s \in Small(n + 1) : Step(s, h) = Step(s, g)
    <3>1. ASSUME NEW s \in Small(n + 1), s # {} PROVE h[s \ {Chosen(s)}] = g[s \ {Chosen(s)}]
      <4>1. s \ {Chosen(s)} \in Small(n)
        BY <1>0, <1>1, <3>1
      <4> HIDE DEF Small, h
      <4> QED BY <2>2, <4>1
    <3> HIDE DEF Small, h
    <3> QED BY <3>1 DEF Step
  <2>4. h = [s \in Small(n + 1) |-> Step(s, h)]
    <3>1. h = [s \in Small(n + 1) |-> Step(s, g)]
      OBVIOUS
    <3> HIDE DEF Small, h
    <3> QED BY <2>3, <3>1
  <2> HIDE DEF h
  <2> QED BY <2>4
<1>4. Cardinality(D) \in N
  <2> HIDE DEF N
  <2>1. \A n \in Nat : n \in N
    BY <1>2, <1>3, SetInduction
  <2> QED BY <1>0, <2>1
<1>5. Small(Cardinality(D)) = SUBSET D
  <2>1. \A s \in SUBSET D : Cardinality(s) <= Cardinality(D)
    BY FS_Subset
  <2> QED BY <2>1
<1> HIDE DEF Small
<1> QED BY <1>4, <1>5 DEF Sums, Step

\* A sum from which any element can be taken, not only the one chosen.
Additive(it, F, D) ==
  /\ it \in [SUBSET D -> Int]
  /\ it[{}] = 0
  /\ \A s \in SUBSET D : \A x \in s : it[s] = F[x] + it[s \ {x}]

\* The order of the summands does not matter.
LEMMA SumsAreAdditive ==
  ASSUME NEW D, IsFiniteSet(D), NEW F \in [D -> Int], NEW it, Sums(it, F, D)
  PROVE  Additive(it, F, D)
<1> DEFINE a(s) == Chosen(s)
           Good(s) == it[s] \in Int /\ \A x \in s : it[s] = F[x] + it[s \ {x}]
           N == {n \in Nat : \A s \in SUBSET D : Cardinality(s) <= n => Good(s)}
<1>0. \A U \in SUBSET D : IsFiniteSet(U) /\ Cardinality(U) \in Nat
  BY FS_Subset, FS_CardinalityType
<1>1. \A s \in SUBSET D : \A x \in s : Cardinality(s \ {x}) = Cardinality(s) - 1
                                        /\ s \ {x} \in SUBSET D
  BY <1>0, FS_RemoveElement
<1>2. \A s \in SUBSET D : s # {} => a(s) \in s
  BY DEF Chosen
<1> HIDE DEF a
<1>3. it[{}] = 0
  BY DEF Sums
<1>4. \A s \in SUBSET D : s # {} => it[s] = F[a(s)] + it[s \ {a(s)}]
  BY DEF Sums, a
<1>5. 0 \in N
  <2>1. \A s \in SUBSET D : Cardinality(s) <= 0 => s = {}
    BY <1>0, FS_EmptySet
  <2>2. Good({})
    BY <1>3
  <2> HIDE DEF Good
  <2> QED BY <2>1, <2>2
<1>6. ASSUME NEW n \in Nat, n \in N PROVE n + 1 \in N
  <2> SUFFICES ASSUME NEW s \in SUBSET D, Cardinality(s) <= n + 1 PROVE Good(s)
    OBVIOUS
  <2>1. CASE s = {}
    BY <1>3, <2>1
  <2>2. CASE s # {}
    <3> DEFINE y == a(s)
    <3>1. y \in s /\ it[s] = F[y] + it[s \ {y}]
      BY <1>2, <1>4, <2>2
    <3> HIDE DEF y
    <3>2. \A x \in s : Good(s \ {x})
      <4>1. \A x \in s : Cardinality(s \ {x}) <= n /\ s \ {x} \in SUBSET D
        BY <1>0, <1>1
      <4> HIDE DEF Good
      <4> QED BY <1>6, <4>1
    <3>3. F[y] \in Int /\ it[s \ {y}] \in Int /\ it[s] \in Int
      <4>1. y \in D
        BY <3>1
      <4>2. F[y] \in Int
        BY <4>1
      <4>3. it[s \ {y}] \in Int
        BY <3>1, <3>2
      <4> QED BY <3>1, <4>2, <4>3
    <3>4. ASSUME NEW x \in s, x # y PROVE it[s] = F[x] + it[s \ {x}]
      <4>1. it[s \ {y}] = F[x] + it[(s \ {y}) \ {x}]
        BY <3>1, <3>2, <3>4
      <4>2. it[s \ {x}] = F[y] + it[(s \ {x}) \ {y}]
        BY <3>1, <3>2, <3>4
      <4>3. (s \ {x}) \ {y} = (s \ {y}) \ {x}
        OBVIOUS
      <4> DEFINE r == it[(s \ {x}) \ {y}]
      <4>4. F[x] \in Int /\ r \in Int
        <5>1. (s \ {x}) \ {y} \in SUBSET D /\ Cardinality((s \ {x}) \ {y}) <= n
          <6>1. y \in s \ {x} /\ s \ {x} \in SUBSET D
            BY <3>1, <3>4
          <6>2. Cardinality((s \ {x}) \ {y}) = Cardinality(s \ {x}) - 1 /\ (s \ {x}) \ {y} \in SUBSET D
            BY <1>1, <6>1
          <6>3. Cardinality(s \ {x}) = Cardinality(s) - 1 /\ Cardinality(s) \in Nat
            BY <1>0, <1>1
          <6> QED BY <6>2, <6>3
        <5> QED BY <1>6, <5>1
      <4>5. it[s \ {y}] = F[x] + r /\ it[s \ {x}] = F[y] + r
        BY <4>1, <4>2, <4>3
      <4> HIDE DEF r
      <4> QED BY <3>1, <3>3, <4>4, <4>5
    <3> QED BY <3>1, <3>3, <3>4
  <2> QED BY <2>1, <2>2
<1>7. \A s \in SUBSET D : Good(s)
  <2> HIDE DEF N
  <2>1. \A n \in Nat : n \in N
    BY <1>5, <1>6, SetInduction
  <2>2. ASSUME NEW s \in SUBSET D PROVE Good(s)
    <3>1. Cardinality(s) \in N /\ Cardinality(s) <= Cardinality(s)
      BY <1>0, <2>1
    <3> HIDE DEF Good
    <3> QED BY <3>1 DEF N
  <2> QED BY <2>2
<1>8. it = [s \in SUBSET D |-> it[s]]
  BY DEF Sums
<1> QED BY <1>3, <1>7, <1>8 DEF Additive

\* Two sums are equal where their summands are.
LEMMA SumsAgree ==
  ASSUME NEW D, NEW E, NEW F, NEW G, NEW a, NEW b, Additive(a, F, D), Additive(b, G, E),
         NEW U, U \subseteq D, U \subseteq E, IsFiniteSet(U), \A x \in U : F[x] = G[x]
  PROVE  a[U] = b[U]
<1> DEFINE T == {s \in SUBSET U : a[s] = b[s]}
<1>1. {} \in T
  BY DEF Additive
<1>2. \A s \in SUBSET U : \A x \in U : s \in T /\ x \notin s => s \union {x} \in T
  <2> SUFFICES ASSUME NEW s \in T, NEW x \in U, x \notin s PROVE a[s \union {x}] = b[s \union {x}]
    OBVIOUS
  <2>1. (s \union {x}) \ {x} = s /\ s \union {x} \in SUBSET D /\ s \union {x} \in SUBSET E
    OBVIOUS
  <2>2. a[s \union {x}] = F[x] + a[s] /\ b[s \union {x}] = G[x] + b[s]
    BY <2>1 DEF Additive
  <2> QED BY <2>2
<1> HIDE DEF T
<1>3. U \in T
  BY <1>1, <1>2, FiniteInduction
<1> QED BY <1>3 DEF T

----------------------------------------------------------------------------
(* The sum over a table of records                                          *)

\* The table t refers from each key to a record of w; the sum of field f of the
\* records the keys of D refer to.
Total(w, t, f, D) == MapThenSumSet(LAMBDA k : w[t[k]][f], D)

\* Total is a sum in the sense above.
LEMMA TotalIsAdditive ==
  ASSUME NEW D, IsFiniteSet(D), NEW w, NEW t, NEW f, \A k \in D : w[t[k]][f] \in Int
  PROVE  \E it : /\ Additive(it, [k \in D |-> w[t[k]][f]], D)
                 /\ Total(w, t, f, D) = it[D]
<1> DEFINE F == [k \in D |-> w[t[k]][f]]
           Is(it) == it = [s \in SUBSET D |-> IF s = {} THEN 0
                         ELSE w[t[Chosen(s)]][f] + it[s \ {Chosen(s)}]]
<1>1. F \in [D -> Int]
  OBVIOUS
<1>2. \A it : Is(it) <=> Sums(it, F, D)
  <2>1. \A s \in SUBSET D : s # {} => F[Chosen(s)] = w[t[Chosen(s)]][f]
    <3>1. \A s \in SUBSET D : s # {} => Chosen(s) \in D
      BY DEF Chosen
    <3> QED BY <3>1
  <2> QED BY <2>1 DEF Sums
<1>3. \E it : Is(it)
  <2> HIDE DEF Is, F
  <2> QED BY <1>1, <1>2, SumExists
<1>4. Total(w, t, f, D) = (CHOOSE it : Is(it))[D]
  BY DEF Total, MapThenSumSet, MapThenFoldSet, Chosen
<1> DEFINE it == CHOOSE i : Is(i)
<1>5. Is(it)
  <2> HIDE DEF Is
  <2> QED BY <1>3
<1> HIDE DEF Is, it, F
<1>6. Additive(it, F, D)
  BY <1>1, <1>2, <1>5, SumsAreAdditive
<1>7. Total(w, t, f, D) = it[D]
  BY <1>4, Zenon DEF it
<1> QED BY <1>6, <1>7, Zenon DEF F

\* A total is a number, and over no keys it is 0.
LEMMA TotalType ==
  ASSUME NEW D, IsFiniteSet(D), NEW w, NEW t, NEW f, \A k \in D : w[t[k]][f] \in Int
  PROVE  /\ Total(w, t, f, D) \in Int
         /\ D = {} => Total(w, t, f, D) = 0
<1>1. PICK it : /\ Additive(it, [k \in D |-> w[t[k]][f]], D)
                /\ Total(w, t, f, D) = it[D]
  BY TotalIsAdditive
<1> QED BY <1>1 DEF Additive

\* Totals over the same keys are equal when the records agree in the field.
LEMMA TotalsAgree ==
  ASSUME NEW D, IsFiniteSet(D), NEW f, NEW w, NEW t, NEW v, NEW u,
         \A k \in D : w[t[k]][f] \in Int, \A k \in D : v[u[k]][f] = w[t[k]][f]
  PROVE  Total(v, u, f, D) = Total(w, t, f, D)
<1> DEFINE F == [k \in D |-> w[t[k]][f]]
           G == [k \in D |-> v[u[k]][f]]
<1>1. PICK a : Additive(a, F, D) /\ Total(w, t, f, D) = a[D]
  BY TotalIsAdditive
<1>2. \A k \in D : v[u[k]][f] \in Int
  OBVIOUS
<1>3. PICK b : Additive(b, G, D) /\ Total(v, u, f, D) = b[D]
  BY <1>2, TotalIsAdditive
<1>4. \A k \in D : F[k] = G[k]
  OBVIOUS
<1> HIDE DEF F, G
<1>5. a[D] = b[D]
  BY <1>1, <1>3, <1>4, SumsAgree
<1> QED BY <1>1, <1>3, <1>5

\* Any key can be taken out of a total.
LEMMA TotalTakeOut ==
  ASSUME NEW D, IsFiniteSet(D), NEW w, NEW t, NEW f, \A k \in D : w[t[k]][f] \in Int,
         NEW x \in D, NEW E, E = D \ {x}
  PROVE  Total(w, t, f, D) = w[t[x]][f] + Total(w, t, f, E)
<1> DEFINE F == [k \in D |-> w[t[k]][f]]
           G == [k \in E |-> w[t[k]][f]]
<1>1. PICK a : Additive(a, F, D) /\ Total(w, t, f, D) = a[D]
  BY TotalIsAdditive
<1>2. IsFiniteSet(E) /\ E \subseteq D /\ E \in SUBSET D
  BY FS_Subset
<1>3. \A k \in E : w[t[k]][f] \in Int
  OBVIOUS
<1>4. PICK b : Additive(b, G, E) /\ Total(w, t, f, E) = b[E]
  BY <1>2, <1>3, TotalIsAdditive
<1>5. \A k \in E : F[k] = G[k]
  OBVIOUS
<1>6. F[x] = w[t[x]][f]
  OBVIOUS
<1>7. a[D] = F[x] + a[E]
  BY <1>1 DEF Additive
<1> HIDE DEF F, G
<1>8. a[E] = b[E]
  BY <1>1, <1>2, <1>4, <1>5, SumsAgree
<1> QED BY <1>1, <1>4, <1>6, <1>7, <1>8
=============================================================================
