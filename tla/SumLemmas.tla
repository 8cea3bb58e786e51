----------------------------- MODULE SumLemmas -----------------------------
(***************************************************************************)
(* What SumFunctionOnSet computes on a finite set, and the induction over  *)
(* finite sets that shows it.  The totals of account_period_balance and of *)
(* the running balances are such sums.                                     *)
(***************************************************************************)
EXTENDS Integers, FiniteSets, Functions, FiniteSetTheorems, WellFoundedInduction, TLAPS

(***************************************************************************)
(* Induction without an operator parameter: a set of subsets of S that is  *)
(* not empty has a member none of whose smaller subsets belongs to it.     *)
(***************************************************************************)

\* A family of finite sets has a minimal member.
LEMMA MinimalSubset ==
    ASSUME NEW S, IsFiniteSet(S), NEW F \in SUBSET SUBSET S, F # {}
    PROVE  \E m \in F : \A x \in m : m \ {x} \notin F
<1>1. F \subseteq FiniteSubsetsOf(S)
  BY FS_FiniteSubsetsOfFinite
<1>2. PICK m \in F : \A s \in F : <<s, m>> \notin StrictSubsetOrdering(S)
  BY <1>1, FS_StrictSubsetOrderingWellFounded, WFMin
<1>3. ASSUME NEW x \in m, m \ {x} \in F PROVE FALSE
  BY <1>2, <1>3 DEF StrictSubsetOrdering
<1>. QED
  BY <1>3

\* Induction on the natural numbers.
LEMMA NatSetInduction ==
    ASSUME NEW T, 0 \in T, \A n \in Nat : n \in T => n + 1 \in T
    PROVE  \A n \in Nat : n \in T
<1>1. SUFFICES ASSUME NEW k \in Nat, k \notin T PROVE FALSE
  OBVIOUS
<1> DEFINE F == {0..n : n \in {j \in 0..k : j \notin T}}
<1>2. F \in SUBSET SUBSET (0..k) /\ F # {} /\ IsFiniteSet(0..k)
  <2>1. k \in {j \in 0..k : j \notin T}
    BY <1>1
  <2>2. \A n \in 0..k : 0..n \in SUBSET (0..k)
    OBVIOUS
  <2>3. F # {}
    BY <2>1
  <2>4. F \in SUBSET SUBSET (0..k)
    BY <2>2
  <2>5. IsFiniteSet(0..k)
    BY FS_Interval
  <2>. QED
    BY <2>3, <2>4, <2>5
<1>3. PICK m \in F : \A x \in m : m \ {x} \notin F
  BY <1>2, MinimalSubset
<1>4. PICK n \in 0..k : n \notin T /\ m = 0..n
  BY <1>3
<1>5. n # 0 /\ n - 1 \in 0..k
  BY <1>4
<1>6. n \in m /\ m \ {n} = 0..(n - 1)
  BY <1>4, <1>5
<1>7. n - 1 \in T
  BY <1>3, <1>5, <1>6
<1>. QED
  BY <1>4, <1>5, <1>7

(***************************************************************************)
(* The recursive function under SumFunctionOnSet.                          *)
(***************************************************************************)
Pick(s) == CHOOSE x \in s : TRUE

IsFold(g, f, S) ==
    g = [s \in SUBSET S |-> IF s = {} THEN 0 ELSE f[Pick(s)] + g[s \ {Pick(s)}]]

\* The library's sum is the recursive function over the subsets.
LEMMA SumUnfold ==
    ASSUME NEW f, NEW S
    PROVE  SumFunctionOnSet(f, S) = (CHOOSE g : IsFold(g, f, S))[S]
BY DEF SumFunctionOnSet, FoldFunctionOnSet, MapThenFoldSet, IsFold, Pick

\* The fold defined on the subsets with at most n elements.
Small(S, n) == {s \in SUBSET S : Cardinality(s) <= n}
IsFoldUpTo(g, f, S, n) ==
    g = [s \in Small(S, n) |-> IF s = {} THEN 0 ELSE f[Pick(s)] + g[s \ {Pick(s)}]]

\* The recursion defines a function on the subsets of a finite set.
LEMMA FoldExists ==
    ASSUME NEW f, NEW S, IsFiniteSet(S)
    PROVE  \E g : IsFold(g, f, S)
<1> DEFINE T == {n \in Nat : \E g : IsFoldUpTo(g, f, S, n)}
<1>1. \A s \in SUBSET S : IsFiniteSet(s) /\ Cardinality(s) \in Nat /\ Cardinality(s) <= Cardinality(S)
  BY FS_Subset, FS_CardinalityType
<1>2. \A s \in SUBSET S : s # {} =>
          /\ s \ {Pick(s)} \in SUBSET S
          /\ Cardinality(s \ {Pick(s)}) = Cardinality(s) - 1
  <2>1. \A s : s # {} => Pick(s) \in s
    BY DEF Pick
  <2>. QED
    BY <1>1, <2>1, FS_RemoveElement
<1>3. \A s \in SUBSET S : Cardinality(s) = 0 <=> s = {}
  BY <1>1, FS_EmptySet
<1>4. 0 \in T
  <2> DEFINE g == [s \in Small(S, 0) |-> 0]
  <2>1. \A s \in Small(S, 0) : s = {}
    BY <1>1, <1>3 DEF Small
  <2>2. IsFoldUpTo(g, f, S, 0)
    BY <2>1 DEF IsFoldUpTo
  <2>. QED
    BY <2>2
<1>5. ASSUME NEW n \in Nat, n \in T PROVE n + 1 \in T
  <2>1. PICK g : IsFoldUpTo(g, f, S, n)
    BY <1>5
  <2> DEFINE h == [s \in Small(S, n + 1) |->
                      IF s = {} THEN 0 ELSE f[Pick(s)] + g[s \ {Pick(s)}]]
  <2>2. Small(S, n) \subseteq Small(S, n + 1)
    BY <1>1 DEF Small
  <2>3. \A s \in Small(S, n) : h[s] = g[s]
    BY <2>1, <2>2 DEF IsFoldUpTo
  <2>4. \A s \in Small(S, n + 1) : s # {} => s \ {Pick(s)} \in Small(S, n)
    BY <1>1, <1>2 DEF Small
  <2>5. \A s \in Small(S, n + 1) : s # {} => h[s \ {Pick(s)}] = g[s \ {Pick(s)}]
    BY <2>3, <2>4
  <2>6. h = [s \in Small(S, n + 1) |-> IF s = {} THEN 0 ELSE f[Pick(s)] + h[s \ {Pick(s)}]]
    BY <2>5
  <2>7. IsFoldUpTo(h, f, S, n + 1)
    BY <2>6 DEF IsFoldUpTo
  <2>. QED
    BY <2>7
<1>6. Cardinality(S) \in T
  <2> HIDE DEF T
  <2>. QED
    BY <1>1, <1>4, <1>5, NatSetInduction
<1>7. Small(S, Cardinality(S)) = SUBSET S
  BY <1>1 DEF Small
<1>. QED
  BY <1>6, <1>7 DEF IsFoldUpTo, IsFold

\* Two folds agree where both are defined.
LEMMA FoldUnique ==
    ASSUME NEW f, NEW S, IsFiniteSet(S), NEW R \in SUBSET S,
           NEW g, IsFold(g, f, S), NEW h, IsFold(h, f, R)
    PROVE  \A s \in SUBSET R : g[s] = h[s]
<1> DEFINE F == {s \in SUBSET R : g[s] # h[s]}
<1>1. SUFFICES ASSUME F # {} PROVE FALSE
  OBVIOUS
<1>2. F \in SUBSET SUBSET S
  OBVIOUS
<1>3. PICK m \in F : \A x \in m : m \ {x} \notin F
  <2> HIDE DEF F
  <2>. QED
    BY <1>1, <1>2, MinimalSubset
<1>4. m \in SUBSET R /\ m \in SUBSET S
  OBVIOUS
<1>5. CASE m = {}
  <2>1. g[m] = 0 /\ h[m] = 0
    BY <1>4, <1>5 DEF IsFold
  <2>. QED
    BY <2>1, <1>3
<1>6. CASE m # {}
  <2>1. Pick(m) \in m
    BY <1>6 DEF Pick
  <2>2. g[m \ {Pick(m)}] = h[m \ {Pick(m)}]
    BY <1>3, <1>4, <2>1
  <2>3. g[m] = f[Pick(m)] + g[m \ {Pick(m)}] /\ h[m] = f[Pick(m)] + h[m \ {Pick(m)}]
    BY <1>4, <1>6 DEF IsFold
  <2>. QED
    BY <1>3, <2>2, <2>3
<1>. QED
  BY <1>5, <1>6

(***************************************************************************)
(* The sum of a function over a finite set.                                *)
(***************************************************************************)
LEMMA SumIsFold ==
    ASSUME NEW f, NEW S, IsFiniteSet(S), NEW g, IsFold(g, f, S)
    PROVE  \A R \in SUBSET S : SumFunctionOnSet(f, R) = g[R]
<1>1. TAKE R \in SUBSET S
<1>2. IsFiniteSet(R)
  BY FS_Subset
<1> DEFINE h == CHOOSE k : IsFold(k, f, R)
<1>3. IsFold(h, f, R)
  BY <1>2, FoldExists
<1>4. SumFunctionOnSet(f, R) = h[R]
  BY SumUnfold
<1> HIDE DEF h
<1>5. g[R] = h[R]
  BY <1>3, FoldUnique
<1>. QED
  BY <1>4, <1>5

\* An empty sum is zero.
LEMMA SumEmpty ==
    ASSUME NEW f
    PROVE  SumFunctionOnSet(f, {}) = 0
<1>1. IsFiniteSet({})
  BY FS_EmptySet
<1>2. PICK g : IsFold(g, f, {})
  BY <1>1, FoldExists
<1>3. g[{}] = 0
  BY <1>2 DEF IsFold
<1>. QED
  BY <1>1, <1>2, <1>3, SumIsFold

\* A sum is the picked element and the rest.
LEMMA SumPick ==
    ASSUME NEW f, NEW S, IsFiniteSet(S), S # {}
    PROVE  /\ Pick(S) \in S
           /\ SumFunctionOnSet(f, S) = f[Pick(S)] + SumFunctionOnSet(f, S \ {Pick(S)})
<1>1. Pick(S) \in S
  BY DEF Pick
<1>2. PICK g : IsFold(g, f, S)
  BY FoldExists
<1>3. g[S] = f[Pick(S)] + g[S \ {Pick(S)}]
  BY <1>2 DEF IsFold
<1>4. SumFunctionOnSet(f, S) = g[S]
  BY <1>2, SumIsFold
<1>5. SumFunctionOnSet(f, S \ {Pick(S)}) = g[S \ {Pick(S)}]
  BY <1>2, SumIsFold
<1>. QED
  BY <1>1, <1>3, <1>4, <1>5

\* Sums of integers, of naturals and of zeros.
LEMMA SumInt ==
    ASSUME NEW f, NEW S, IsFiniteSet(S), \A x \in S : f[x] \in Int
    PROVE  SumFunctionOnSet(f, S) \in Int
<1> DEFINE F == {s \in SUBSET S : SumFunctionOnSet(f, s) \notin Int}
<1>1. SUFFICES ASSUME F # {} PROVE FALSE
  OBVIOUS
<1>2. F \in SUBSET SUBSET S
  OBVIOUS
<1>3. PICK m \in F : \A x \in m : m \ {x} \notin F
  <2> HIDE DEF F
  <2>. QED
    BY <1>1, <1>2, MinimalSubset
<1>4. IsFiniteSet(m) /\ m # {}
  <2>1. IsFiniteSet(m)
    BY FS_Subset
  <2>2. m # {}
    BY SumEmpty
  <2>. QED
    BY <2>1, <2>2
<1>5. /\ Pick(m) \in m
      /\ SumFunctionOnSet(f, m) = f[Pick(m)] + SumFunctionOnSet(f, m \ {Pick(m)})
  BY <1>4, SumPick
<1>6. SumFunctionOnSet(f, m \ {Pick(m)}) \in Int
  BY <1>3, <1>5
<1>. QED
  BY <1>3, <1>5, <1>6

\* A sum of naturals is a natural: transaction counts.
LEMMA SumNat ==
    ASSUME NEW f, NEW S, IsFiniteSet(S), \A x \in S : f[x] \in Nat
    PROVE  SumFunctionOnSet(f, S) \in Nat
<1> DEFINE F == {s \in SUBSET S : SumFunctionOnSet(f, s) \notin Nat}
<1>1. SUFFICES ASSUME F # {} PROVE FALSE
  OBVIOUS
<1>2. F \in SUBSET SUBSET S
  OBVIOUS
<1>3. PICK m \in F : \A x \in m : m \ {x} \notin F
  <2> HIDE DEF F
  <2>. QED
    BY <1>1, <1>2, MinimalSubset
<1>4. IsFiniteSet(m) /\ m # {}
  <2>1. IsFiniteSet(m)
    BY FS_Subset
  <2>2. m # {}
    BY SumEmpty
  <2>. QED
    BY <2>1, <2>2
<1>5. /\ Pick(m) \in m
      /\ SumFunctionOnSet(f, m) = f[Pick(m)] + SumFunctionOnSet(f, m \ {Pick(m)})
  BY <1>4, SumPick
<1>6. SumFunctionOnSet(f, m \ {Pick(m)}) \in Nat
  BY <1>3, <1>5
<1>. QED
  BY <1>3, <1>5, <1>6

\* A sum of zeros is zero.
LEMMA SumZero ==
    ASSUME NEW f, NEW S, IsFiniteSet(S), \A x \in S : f[x] = 0
    PROVE  SumFunctionOnSet(f, S) = 0
<1> DEFINE F == {s \in SUBSET S : SumFunctionOnSet(f, s) # 0}
<1>1. SUFFICES ASSUME F # {} PROVE FALSE
  OBVIOUS
<1>2. F \in SUBSET SUBSET S
  OBVIOUS
<1>3. PICK m \in F : \A x \in m : m \ {x} \notin F
  <2> HIDE DEF F
  <2>. QED
    BY <1>1, <1>2, MinimalSubset
<1>4. IsFiniteSet(m) /\ m # {}
  <2>1. IsFiniteSet(m)
    BY FS_Subset
  <2>2. m # {}
    BY SumEmpty
  <2>. QED
    BY <2>1, <2>2
<1>5. /\ Pick(m) \in m
      /\ SumFunctionOnSet(f, m) = f[Pick(m)] + SumFunctionOnSet(f, m \ {Pick(m)})
  BY <1>4, SumPick
<1>6. SumFunctionOnSet(f, m \ {Pick(m)}) = 0
  BY <1>3, <1>5
<1>. QED
  BY <1>3, <1>5, <1>6

\* A sum depends only on the values at the elements summed.
LEMMA SumCongruence ==
    ASSUME NEW f, NEW h, NEW S, IsFiniteSet(S), \A x \in S : f[x] = h[x]
    PROVE  SumFunctionOnSet(f, S) = SumFunctionOnSet(h, S)
<1> DEFINE F == {s \in SUBSET S : SumFunctionOnSet(f, s) # SumFunctionOnSet(h, s)}
<1>1. SUFFICES ASSUME F # {} PROVE FALSE
  OBVIOUS
<1>2. F \in SUBSET SUBSET S
  OBVIOUS
<1>3. PICK m \in F : \A x \in m : m \ {x} \notin F
  <2> HIDE DEF F
  <2>. QED
    BY <1>1, <1>2, MinimalSubset
<1>4. IsFiniteSet(m) /\ m # {}
  <2>1. IsFiniteSet(m)
    BY FS_Subset
  <2>2. m # {}
    BY SumEmpty
  <2>. QED
    BY <2>1, <2>2
<1>5. /\ Pick(m) \in m
      /\ SumFunctionOnSet(f, m) = f[Pick(m)] + SumFunctionOnSet(f, m \ {Pick(m)})
      /\ SumFunctionOnSet(h, m) = h[Pick(m)] + SumFunctionOnSet(h, m \ {Pick(m)})
  BY <1>4, SumPick
<1>6. SumFunctionOnSet(f, m \ {Pick(m)}) = SumFunctionOnSet(h, m \ {Pick(m)})
  BY <1>3, <1>5
<1>. QED
  BY <1>3, <1>5, <1>6

\* Whatever element is taken out, the rest of the sum is the sum of the rest.
LEMMA SumRemove ==
    ASSUME NEW f, NEW S, IsFiniteSet(S), \A x \in S : f[x] \in Int, NEW x \in S
    PROVE  SumFunctionOnSet(f, S) = f[x] + SumFunctionOnSet(f, S \ {x})
<1> DEFINE Total(s) == SumFunctionOnSet(f, s)
           F == {s \in SUBSET S : \E y \in s : Total(s) # f[y] + Total(s \ {y})}
<1>1. SUFFICES ASSUME F # {} PROVE FALSE
  OBVIOUS
<1>2. F \in SUBSET SUBSET S
  OBVIOUS
<1>3. PICK m \in F : \A y \in m : m \ {y} \notin F
  <2> HIDE DEF F
  <2>. QED
    BY <1>1, <1>2, MinimalSubset
<1>4. PICK y \in m : Total(m) # f[y] + Total(m \ {y})
  BY <1>3
<1> DEFINE p == Pick(m)
<1>5. IsFiniteSet(m) /\ m # {}
  BY <1>4, FS_Subset
<1>6. p \in m /\ Total(m) = f[p] + Total(m \ {p})
  BY <1>5, SumPick
<1>7. p # y
  BY <1>4, <1>6
<1>8. Total(m \ {p}) = f[y] + Total((m \ {p}) \ {y})
  BY <1>3, <1>4, <1>6, <1>7
<1>9. Total(m \ {y}) = f[p] + Total((m \ {y}) \ {p})
  BY <1>3, <1>4, <1>6, <1>7
<1>10. Total((m \ {y}) \ {p}) = Total((m \ {p}) \ {y})
  <2>1. (m \ {y}) \ {p} = (m \ {p}) \ {y}
    OBVIOUS
  <2>. QED
    BY <2>1
<1>11. Total((m \ {p}) \ {y}) \in Int
  <2>1. IsFiniteSet((m \ {p}) \ {y})
    BY <1>3, FS_Subset
  <2>. QED
    BY <2>1, <1>3, SumInt
<1>12. f[p] \in Int /\ f[y] \in Int
  BY <1>3, <1>4, <1>6
<1>13. Total(m) = f[y] + Total(m \ {y})
  <2> HIDE DEF Total, p
  <2>. QED
    BY <1>6, <1>8, <1>9, <1>10, <1>11, <1>12
<1>. QED
  BY <1>4, <1>13

\* A new element adds its value: a voucher that becomes posted.
LEMMA SumAdd ==
    ASSUME NEW f, NEW S, IsFiniteSet(S), NEW x, x \notin S,
           \A y \in S \cup {x} : f[y] \in Int
    PROVE  SumFunctionOnSet(f, S \cup {x}) = f[x] + SumFunctionOnSet(f, S)
<1>1. IsFiniteSet(S \cup {x}) /\ (S \cup {x}) \ {x} = S
  BY FS_AddElement
<1>. QED
  BY <1>1, SumRemove

\* A sum over two sets without a common element.
LEMMA SumUnion ==
    ASSUME NEW f, NEW A, NEW B, IsFiniteSet(A), IsFiniteSet(B), A \cap B = {},
           \A x \in A \cup B : f[x] \in Int
    PROVE  SumFunctionOnSet(f, A \cup B) = SumFunctionOnSet(f, A) + SumFunctionOnSet(f, B)
<1> DEFINE Total(s) == SumFunctionOnSet(f, s)
           F == {s \in SUBSET B : Total(A \cup s) # Total(A) + Total(s)}
<1>1. SUFFICES ASSUME F # {} PROVE FALSE
  OBVIOUS
<1>2. F \in SUBSET SUBSET B
  OBVIOUS
<1>3. PICK m \in F : \A x \in m : m \ {x} \notin F
  <2> HIDE DEF F
  <2>. QED
    BY <1>1, <1>2, MinimalSubset
<1>4. \A s \in SUBSET B : Total(s) \in Int /\ Total(A) \in Int
  <2>1. \A s \in SUBSET B : IsFiniteSet(s)
    BY FS_Subset
  <2>. QED
    BY <2>1, SumInt
<1>5. CASE m = {}
  <2>1. Total({}) = 0 /\ A \cup m = A
    BY <1>5, SumEmpty
  <2>. QED
    BY <1>3, <1>4, <1>5, <2>1
<1>6. CASE m # {}
  <2>1. PICK x : x \in m
    BY <1>6
  <2> DEFINE r == m \ {x}
  <2>2. r \subseteq B /\ x \in B /\ x \notin A \cup r /\ m = r \cup {x} /\ A \cup m = (A \cup r) \cup {x}
    BY <1>2, <1>3, <2>1
  <2>3. IsFiniteSet(r) /\ IsFiniteSet(A \cup r)
    BY <2>2, FS_Subset, FS_Union
  <2>4. Total(A \cup r) = Total(A) + Total(r)
    BY <1>3, <2>1, <2>2
  <2>5. Total(m) = f[x] + Total(r)
    BY <2>2, <2>3, SumAdd
  <2>6. Total(A \cup m) = f[x] + Total(A \cup r)
    <3> HIDE DEF r
    <3>1. \A y \in (A \cup r) \cup {x} : f[y] \in Int
      BY <2>2
    <3>. QED
      BY <2>2, <2>3, <3>1, SumAdd
  <2>7. f[x] \in Int /\ Total(r) \in Int /\ Total(A) \in Int
    BY <1>4, <2>2
  <2>8. Total(A \cup m) = Total(A) + Total(m)
    <3> HIDE DEF Total, r
    <3>. QED
      BY <2>4, <2>5, <2>6, <2>7
  <2>. QED
    BY <1>3, <2>8
<1>. QED
  BY <1>5, <1>6

\* A sum of sums: over the parts of a set, one after the other.
LEMMA SumByParts ==
    ASSUME NEW g, NEW h, NEW P, NEW T, NEW V, IsFiniteSet(T), IsFiniteSet(V),
           \A v \in V : g[v] \in Int, \A i \in T : P[i] \subseteq V,
           \A i, j \in T : i # j => P[i] \cap P[j] = {},
           \A i \in T : h[i] = SumFunctionOnSet(g, P[i])
    PROVE  SumFunctionOnSet(h, T) = SumFunctionOnSet(g, UNION {P[i] : i \in T})
<1> DEFINE All(s) == UNION {P[i] : i \in s}
           F == {s \in SUBSET T : SumFunctionOnSet(h, s) # SumFunctionOnSet(g, All(s))}
<1>1. SUFFICES ASSUME F # {} PROVE FALSE
  OBVIOUS
<1>2. F \in SUBSET SUBSET T
  OBVIOUS
<1>3. PICK m \in F : \A x \in m : m \ {x} \notin F
  <2> HIDE DEF F
  <2>. QED
    BY <1>1, <1>2, MinimalSubset
<1>4. \A i \in T : IsFiniteSet(P[i]) /\ h[i] \in Int
  <2>1. \A i \in T : IsFiniteSet(P[i])
    BY FS_Subset
  <2>. QED
    BY <2>1, SumInt
<1>5. CASE m = {}
  <2>1. All({}) = {}
    OBVIOUS
  <2>. QED
    BY <1>3, <1>5, <2>1, SumEmpty
<1>6. CASE m # {}
  <2>1. PICK x : x \in m
    BY <1>6
  <2> DEFINE r == m \ {x}
  <2>2. r \subseteq T /\ x \in T /\ x \notin r /\ m = r \cup {x}
    BY <1>2, <1>3, <2>1
  <2>3. All(m) = P[x] \cup All(r) /\ P[x] \cap All(r) = {} /\ All(r) \subseteq V
    BY <2>2
  <2>4. IsFiniteSet(r) /\ IsFiniteSet(All(r))
    BY <2>2, <2>3, FS_Subset
  <2>5. SumFunctionOnSet(h, r) = SumFunctionOnSet(g, All(r))
    BY <1>3, <2>1, <2>2
  <2>6. SumFunctionOnSet(h, m) = h[x] + SumFunctionOnSet(h, r)
    <3>1. \A i \in r \cup {x} : h[i] \in Int
      BY <1>4, <2>2
    <3> HIDE DEF r
    <3>. QED
      BY <2>2, <2>4, <3>1, SumAdd
  <2>7. SumFunctionOnSet(g, All(m)) = SumFunctionOnSet(g, P[x]) + SumFunctionOnSet(g, All(r))
    <3>1. \A v \in P[x] \cup All(r) : g[v] \in Int
      BY <2>2, <2>3
    <3>2. IsFiniteSet(P[x])
      BY <1>4, <2>2
    <3> HIDE DEF All
    <3>3. SumFunctionOnSet(g, P[x] \cup All(r)) = SumFunctionOnSet(g, P[x]) + SumFunctionOnSet(g, All(r))
      BY <2>3, <2>4, <3>1, <3>2, SumUnion
    <3>. QED
      BY <2>3, <3>3
  <2>8. SumFunctionOnSet(h, m) = SumFunctionOnSet(g, All(m))
    <3> HIDE DEF All, r
    <3>. QED
      BY <2>2, <2>5, <2>6, <2>7
  <2>. QED
    BY <1>3, <2>8
<1>. QED
  BY <1>5, <1>6

\* The sum of two functions.
LEMMA SumPlus ==
    ASSUME NEW f, NEW h, NEW g, NEW S, IsFiniteSet(S),
           \A x \in S : f[x] \in Int /\ h[x] \in Int /\ g[x] = f[x] + h[x]
    PROVE  SumFunctionOnSet(g, S) = SumFunctionOnSet(f, S) + SumFunctionOnSet(h, S)
<1> DEFINE F == {s \in SUBSET S : SumFunctionOnSet(g, s) # SumFunctionOnSet(f, s) + SumFunctionOnSet(h, s)}
<1>1. SUFFICES ASSUME F # {} PROVE FALSE
  OBVIOUS
<1>2. F \in SUBSET SUBSET S
  OBVIOUS
<1>3. PICK m \in F : \A x \in m : m \ {x} \notin F
  <2> HIDE DEF F
  <2>. QED
    BY <1>1, <1>2, MinimalSubset
<1>4. IsFiniteSet(m) /\ m # {} /\ IsFiniteSet(m \ {Pick(m)})
  <2>1. IsFiniteSet(m) /\ IsFiniteSet(m \ {Pick(m)})
    BY FS_Subset
  <2>2. SumFunctionOnSet(f, {}) = 0 /\ SumFunctionOnSet(g, {}) = 0 /\ SumFunctionOnSet(h, {}) = 0
    BY SumEmpty
  <2>3. SumFunctionOnSet(g, {}) = SumFunctionOnSet(f, {}) + SumFunctionOnSet(h, {})
    BY <2>2
  <2>4. m # {}
    BY <2>3
  <2>. QED
    BY <2>1, <2>4
<1>5. /\ Pick(m) \in m
      /\ SumFunctionOnSet(f, m) = f[Pick(m)] + SumFunctionOnSet(f, m \ {Pick(m)})
      /\ SumFunctionOnSet(h, m) = h[Pick(m)] + SumFunctionOnSet(h, m \ {Pick(m)})
      /\ SumFunctionOnSet(g, m) = g[Pick(m)] + SumFunctionOnSet(g, m \ {Pick(m)})
  BY <1>4, SumPick
<1>6. SumFunctionOnSet(g, m \ {Pick(m)}) = SumFunctionOnSet(f, m \ {Pick(m)}) + SumFunctionOnSet(h, m \ {Pick(m)})
  BY <1>3, <1>5
<1>7. SumFunctionOnSet(f, m \ {Pick(m)}) \in Int /\ SumFunctionOnSet(h, m \ {Pick(m)}) \in Int
  BY <1>4, SumInt
<1>8. f[Pick(m)] \in Int /\ h[Pick(m)] \in Int /\ g[Pick(m)] = f[Pick(m)] + h[Pick(m)]
  BY <1>5
<1>9. SumFunctionOnSet(g, m) = SumFunctionOnSet(f, m) + SumFunctionOnSet(h, m)
  BY <1>5, <1>6, <1>7, <1>8
<1>. QED
  BY <1>3, <1>9

\* What is added to some of the elements is added to the sum.
LEMMA SumRaised ==
    ASSUME NEW f, NEW h, NEW g, NEW S, NEW W, IsFiniteSet(S), W \subseteq S,
           \A x \in S : f[x] \in Int, \A x \in W : h[x] \in Int /\ g[x] = f[x] + h[x],
           \A x \in S \ W : g[x] = f[x]
    PROVE  SumFunctionOnSet(g, S) = SumFunctionOnSet(f, S) + SumFunctionOnSet(h, W)
<1> DEFINE k == [x \in S |-> IF x \in W THEN h[x] ELSE 0]
<1>1. \A x \in S : k[x] \in Int /\ g[x] = f[x] + k[x]
  OBVIOUS
<1>2. \A x \in W : k[x] = h[x]
  OBVIOUS
<1>3. \A x \in S \ W : k[x] = 0
  OBVIOUS
<1>4. IsFiniteSet(W) /\ IsFiniteSet(S \ W) /\ W \cap (S \ W) = {} /\ W \cup (S \ W) = S
  BY FS_Subset
<1> HIDE DEF k
<1>5. SumFunctionOnSet(g, S) = SumFunctionOnSet(f, S) + SumFunctionOnSet(k, S)
  BY <1>1, SumPlus
<1>6. SumFunctionOnSet(k, W \cup (S \ W)) = SumFunctionOnSet(k, W) + SumFunctionOnSet(k, S \ W)
  BY <1>1, <1>4, SumUnion
<1>7. SumFunctionOnSet(k, W) = SumFunctionOnSet(h, W)
  BY <1>2, <1>4, SumCongruence
<1>8. SumFunctionOnSet(k, S \ W) = 0
  BY <1>3, <1>4, SumZero
<1>9. SumFunctionOnSet(h, W) \in Int
  BY <1>4, SumInt
<1>10. SumFunctionOnSet(k, S) = SumFunctionOnSet(k, W) + SumFunctionOnSet(k, S \ W)
  BY <1>4, <1>6
<1>11. SumFunctionOnSet(k, S) = SumFunctionOnSet(h, W)
  BY <1>7, <1>8, <1>9, <1>10
<1>. QED
  BY <1>5, <1>11

\* One element changed.
LEMMA SumChanged ==
    ASSUME NEW f, NEW g, NEW S, IsFiniteSet(S), \A y \in S : f[y] \in Int,
           NEW x \in S, g[x] \in Int, \A y \in S \ {x} : g[y] = f[y]
    PROVE  SumFunctionOnSet(g, S) = SumFunctionOnSet(f, S) - f[x] + g[x]
<1>1. \A y \in S : g[y] \in Int
  OBVIOUS
<1>2. SumFunctionOnSet(f, S) = f[x] + SumFunctionOnSet(f, S \ {x})
  BY SumRemove
<1>3. SumFunctionOnSet(g, S) = g[x] + SumFunctionOnSet(g, S \ {x})
  BY <1>1, SumRemove
<1>4. IsFiniteSet(S \ {x})
  BY FS_Subset
<1>5. SumFunctionOnSet(g, S \ {x}) = SumFunctionOnSet(f, S \ {x})
  BY <1>4, SumCongruence
<1>6. SumFunctionOnSet(f, S \ {x}) \in Int
  BY <1>4, SumInt
<1>. QED
  BY <1>2, <1>3, <1>5, <1>6

\* A sum over the images of an injection.
LEMMA SumReindexed ==
    ASSUME NEW f, NEW g, NEW m, NEW T, IsFiniteSet(T), \A i, j \in T : m[i] = m[j] => i = j,
           \A i \in T : f[m[i]] \in Int /\ g[i] = f[m[i]]
    PROVE  SumFunctionOnSet(g, T) = SumFunctionOnSet(f, {m[i] : i \in T})
<1> DEFINE P == [i \in T |-> {m[i]}]
           V == {m[i] : i \in T}
<1>1. \A i \in T : IsFiniteSet({m[i]}) /\ SumFunctionOnSet(f, {m[i]}) = f[m[i]]
  <2> TAKE i \in T
  <2>1. IsFiniteSet({m[i]})
    BY FS_Singleton
  <2>2. SumFunctionOnSet(f, {m[i]}) = f[m[i]] + SumFunctionOnSet(f, {m[i]} \ {m[i]})
    BY <2>1, SumRemove
  <2>3. {m[i]} \ {m[i]} = {}
    OBVIOUS
  <2>. QED
    BY <2>1, <2>2, <2>3, SumEmpty
<1>2. IsFiniteSet(V)
  <2> DEFINE k == [i \in T |-> m[i]]
  <2>1. k \in Surjection(T, V)
    BY DEF Surjection
  <2>. QED
    BY <2>1, FS_Surjection
<1>3. \A v \in V : f[v] \in Int
  OBVIOUS
<1>4. \A i \in T : P[i] \subseteq V
  OBVIOUS
<1>5. \A i, j \in T : i # j => P[i] \cap P[j] = {}
  OBVIOUS
<1>6. \A i \in T : g[i] = SumFunctionOnSet(f, P[i])
  BY <1>1
<1>7. UNION {P[i] : i \in T} = V
  OBVIOUS
<1> HIDE DEF P, V
<1>8. SumFunctionOnSet(g, T) = SumFunctionOnSet(f, UNION {P[i] : i \in T})
  BY <1>2, <1>3, <1>4, <1>5, <1>6, SumByParts
<1>. QED
  BY <1>7, <1>8 DEF V

\* Elements that add nothing may be left out.
LEMMA SumSupport ==
    ASSUME NEW f, NEW S, IsFiniteSet(S), NEW T \in SUBSET S,
           \A x \in T : f[x] \in Int, \A x \in S \ T : f[x] = 0
    PROVE  SumFunctionOnSet(f, S) = SumFunctionOnSet(f, T)
<1>1. IsFiniteSet(T) /\ IsFiniteSet(S \ T) /\ T \cup (S \ T) = S /\ T \cap (S \ T) = {}
  BY FS_Subset
<1>2. \A x \in T \cup (S \ T) : f[x] \in Int
  OBVIOUS
<1>3. SumFunctionOnSet(f, T \cup (S \ T)) = SumFunctionOnSet(f, T) + SumFunctionOnSet(f, S \ T)
  BY <1>1, <1>2, SumUnion
<1>4. SumFunctionOnSet(f, S \ T) = 0
  BY <1>1, SumZero
<1>5. SumFunctionOnSet(f, T) \in Int
  BY <1>1, SumInt
<1>. QED
  BY <1>1, <1>3, <1>4, <1>5

\* The opposites sum to the opposite.
LEMMA SumNegated ==
    ASSUME NEW f, NEW h, NEW S, IsFiniteSet(S), \A x \in S : f[x] \in Int /\ h[x] = 0 - f[x]
    PROVE  SumFunctionOnSet(h, S) = 0 - SumFunctionOnSet(f, S)
<1> DEFINE z == [x \in S |-> 0]
<1>1. \A x \in S : f[x] \in Int /\ h[x] \in Int /\ z[x] = f[x] + h[x]
  OBVIOUS
<1>2. \A x \in S : z[x] = 0
  OBVIOUS
<1> HIDE DEF z
<1>3. SumFunctionOnSet(z, S) = SumFunctionOnSet(f, S) + SumFunctionOnSet(h, S)
  BY <1>1, SumPlus
<1>4. SumFunctionOnSet(z, S) = 0
  BY <1>2, SumZero
<1>5. SumFunctionOnSet(f, S) \in Int /\ SumFunctionOnSet(h, S) \in Int
  BY <1>1, SumInt
<1>. QED
  BY <1>3, <1>4, <1>5

\* What the elements of V hold at x.
AcrossAt(g, V, x) == [v \in V |-> g[v][x]]

\* A sum of rows of sums is a sum of columns of sums.
LEMMA SumSwapped ==
    ASSUME NEW row, NEW col, NEW g, NEW S, NEW V, IsFiniteSet(S), IsFiniteSet(V),
           \A v \in V, x \in S : g[v][x] \in Int,
           \A x \in S : row[x] = SumFunctionOnSet(AcrossAt(g, V, x), V),
           \A v \in V : col[v] = SumFunctionOnSet(g[v], S)
    PROVE  SumFunctionOnSet(row, S) = SumFunctionOnSet(col, V)
<1> DEFINE at(x) == [v \in V |-> g[v][x]]
           part(s) == [x \in S |-> SumFunctionOnSet(at(x), s)]
           F == {s \in SUBSET V : SumFunctionOnSet(part(s), S) # SumFunctionOnSet(col, s)}
<1>1. \A v \in V : col[v] \in Int
  <2> TAKE v \in V
  <2>1. \A x \in S : g[v][x] \in Int
    OBVIOUS
  <2>2. SumFunctionOnSet(g[v], S) \in Int
    BY <2>1, SumInt
  <2>. QED
    BY <2>2
<1>2. \A x \in S : \A v \in V : at(x)[v] \in Int /\ at(x)[v] = g[v][x]
  OBVIOUS
<1>3. \A s \in SUBSET V : \A x \in S : part(s)[x] = SumFunctionOnSet(at(x), s)
  OBVIOUS
<1>4. ASSUME NEW x \in S PROVE row[x] = part(V)[x]
  BY <1>3 DEF AcrossAt
<1> HIDE DEF at, part
<1>5. SumFunctionOnSet(row, S) = SumFunctionOnSet(part(V), S)
  BY <1>4, SumCongruence
<1>6. \A s \in SUBSET V : \A x \in S : part(s)[x] \in Int
  <2> TAKE s \in SUBSET V
  <2> TAKE x \in S
  <2>1. IsFiniteSet(s) /\ \A v \in s : at(x)[v] \in Int
    BY <1>2, FS_Subset
  <2>2. SumFunctionOnSet(at(x), s) \in Int
    BY <2>1, SumInt
  <2>. QED
    BY <1>3, <2>2
<1>7. F = {}
  <2> SUFFICES ASSUME F # {} PROVE FALSE
    OBVIOUS
  <2>1. F \in SUBSET SUBSET V
    OBVIOUS
  <2>2. PICK m \in F : \A x \in m : m \ {x} \notin F
    <3> HIDE DEF F
    <3>. QED
      BY <2>1, MinimalSubset
  <2>3. IsFiniteSet(m) /\ m \subseteq V
    BY FS_Subset
  <2>4. CASE m = {}
    <3>1. \A x \in S : part({})[x] = 0
      BY <1>3, SumEmpty
    <3>2. SumFunctionOnSet(part({}), S) = 0 /\ SumFunctionOnSet(col, {}) = 0
      BY <3>1, SumZero, SumEmpty
    <3>. QED
      BY <2>2, <2>4, <3>2
  <2>5. CASE m # {}
    <3>1. PICK v : v \in m
      BY <2>5
    <3>2. SumFunctionOnSet(part(m \ {v}), S) = SumFunctionOnSet(col, m \ {v})
      BY <2>2, <2>3, <3>1
    <3>3. SumFunctionOnSet(col, m) = col[v] + SumFunctionOnSet(col, m \ {v})
      BY <1>1, <2>3, <3>1, SumRemove
    <3>4. ASSUME NEW x \in S
          PROVE  g[v][x] \in Int /\ part(m \ {v})[x] \in Int /\ part(m)[x] = g[v][x] + part(m \ {v})[x]
      <4>1. v \in V /\ m \ {v} \in SUBSET V /\ m \in SUBSET V /\ \A w \in m : at(x)[w] \in Int
        BY <1>2, <2>3, <3>1
      <4>2. SumFunctionOnSet(at(x), m) = at(x)[v] + SumFunctionOnSet(at(x), m \ {v})
        BY <2>3, <3>1, <4>1, SumRemove
      <4>. QED
        BY <1>2, <1>3, <1>6, <4>1, <4>2
    <3>5. SumFunctionOnSet(part(m), S) = SumFunctionOnSet(g[v], S) + SumFunctionOnSet(part(m \ {v}), S)
      <4>1. PICK one, rest, all : one = g[v] /\ rest = part(m \ {v}) /\ all = part(m)
        OBVIOUS
      <4>2. \A x \in S : one[x] \in Int /\ rest[x] \in Int /\ all[x] = one[x] + rest[x]
        BY <3>4, <4>1
      <4>3. SumFunctionOnSet(all, S) = SumFunctionOnSet(one, S) + SumFunctionOnSet(rest, S)
        BY <4>2, SumPlus
      <4>. QED
        BY <4>1, <4>3
    <3>. QED
      BY <2>2, <2>3, <3>1, <3>2, <3>3, <3>5
  <2>. QED
    BY <2>4, <2>5
<1>. QED
  BY <1>5, <1>7

\* Summands within a tolerance sum to within that many tolerances.
LEMMA SumWithin ==
    ASSUME NEW f, NEW S, IsFiniteSet(S), NEW t \in Nat, \A x \in S : f[x] \in Int /\ f[x] <= t /\ 0 - f[x] <= t
    PROVE  /\ SumFunctionOnSet(f, S) \in Int
           /\ SumFunctionOnSet(f, S) <= t * Cardinality(S)
           /\ 0 - SumFunctionOnSet(f, S) <= t * Cardinality(S)
<1> DEFINE ok(s) == /\ SumFunctionOnSet(f, s) <= t * Cardinality(s)
                    /\ 0 - SumFunctionOnSet(f, s) <= t * Cardinality(s)
           F == {s \in SUBSET S : ~ok(s)}
<1>1. SumFunctionOnSet(f, S) \in Int
  BY SumInt
<1>2. F = {}
  <2> SUFFICES ASSUME F # {} PROVE FALSE
    OBVIOUS
  <2>1. F \in SUBSET SUBSET S
    OBVIOUS
  <2>2. PICK m \in F : \A x \in m : m \ {x} \notin F
    <3> HIDE DEF F
    <3>. QED
      BY <2>1, MinimalSubset
  <2>3. IsFiniteSet(m) /\ m \subseteq S
    BY FS_Subset
  <2>4. CASE m = {}
    <3>1. SumFunctionOnSet(f, {}) = 0 /\ Cardinality({}) = 0
      BY SumEmpty, FS_EmptySet
    <3>2. ok({})
      BY <3>1
    <3>. QED
      BY <2>2, <2>4, <3>2
  <2>5. CASE m # {}
    <3>1. PICK v : v \in m
      BY <2>5
    <3>2. ok(m \ {v}) /\ f[v] \in Int /\ f[v] <= t /\ 0 - f[v] <= t
      BY <2>2, <2>3, <3>1
    <3>3. SumFunctionOnSet(f, m) = f[v] + SumFunctionOnSet(f, m \ {v})
      BY <2>3, <3>1, SumRemove
    <3>4. Cardinality(m \ {v}) = Cardinality(m) - 1 /\ Cardinality(m) \in Nat /\ IsFiniteSet(m \ {v})
      BY <2>3, <3>1, FS_RemoveElement, FS_CardinalityType
    <3>5. SumFunctionOnSet(f, m \ {v}) \in Int
      BY <2>3, <3>4, SumInt
    <3>6. t * Cardinality(m) = t * Cardinality(m \ {v}) + t /\ t * Cardinality(m \ {v}) \in Int
      <4>1. PICK k \in Int : k = Cardinality(m \ {v})
        BY <3>4
      <4>2. t * (k + 1) = t * k + t /\ t * k \in Int
        OBVIOUS
      <4>3. Cardinality(m) = k + 1
        BY <3>4, <4>1
      <4>. QED
        BY <4>1, <4>2, <4>3
    <3>7. ok(m)
      BY <3>2, <3>3, <3>5, <3>6
    <3>. QED
      BY <2>2, <3>7
  <2>. QED
    BY <2>4, <2>5
<1>3. ok(S)
  BY <1>2
<1>. QED
  BY <1>1, <1>3
=============================================================================
