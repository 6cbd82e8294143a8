--------------------------- MODULE DataTheorems ---------------------------
(***************************************************************************)
(* What SumFunctionOnSet, Max and Min of the community modules and the     *)
(* operators of Listing compute on a finite set, stated for functions so   *)
(* that the facts can be cited in proofs.                                  *)
(*                                                                         *)
(* The sum is defined by recursion over the subsets of the set, and every  *)
(* induction below is the same argument: among the subsets that violate a  *)
(* claim there would be a smallest one (SmallestSubset), and the claim     *)
(* holds of it because it holds of its strict subsets.                     *)
(***************************************************************************)
EXTENDS Listing, FiniteSetsExt, FiniteSetTheorems, FunctionTheorems, TLAPS

\* g is the function the recursion over the subsets of S defines.
Sums(f, S, g) ==
    g = [s \in SUBSET S |->
            IF s = {} THEN 0
            ELSE LET x == CHOOSE x \in s : TRUE IN f[x] + g[s \ {x}]]

\* The element that the recursion takes out of a set first.
Pick(s) == CHOOSE x \in s : TRUE

LEMMA PickIsElement ==
    ASSUME NEW s, s # {}
    PROVE  Pick(s) \in s
BY DEF Pick

LEMMA SmallestSubset ==
    ASSUME NEW S, IsFiniteSet(S), NEW T, T \subseteq SUBSET S, T # {}
    PROVE  \E m \in T : \A s \in T : s \subseteq m => s = m
<1>1. IsWellFoundedOn(StrictSubsetOrdering(S), SUBSET S)
  BY FS_StrictSubsetOrderingWellFounded, FS_FiniteSubsetsOfFinite
<1>2. PICK m \in T : \A s \in T : <<s, m>> \notin StrictSubsetOrdering(S)
  BY <1>1, WFMin
<1>. QED
  BY <1>2 DEF StrictSubsetOrdering

\* One step of the recursion.
LEMMA SumsStep ==
    ASSUME NEW f, NEW S, NEW g, Sums(f, S, g), NEW s \in SUBSET S
    PROVE  g[s] = IF s = {} THEN 0 ELSE f[Pick(s)] + g[s \ {Pick(s)}]
BY DEF Sums, Pick

\* Two solutions agree wherever both are defined.
LEMMA SumsAgree ==
    ASSUME NEW f, NEW S, IsFiniteSet(S), NEW T, NEW g, NEW h, Sums(f, S, g), Sums(f, T, h),
           NEW s \in SUBSET S, s \in SUBSET T
    PROVE  g[s] = h[s]
<1> DEFINE Bad == {u \in SUBSET (S \cap T) : g[u] # h[u]}
<1> SUFFICES ASSUME Bad # {} PROVE FALSE
  OBVIOUS
<1>1. PICK m \in Bad : \A u \in Bad : u \subseteq m => u = m
  <2>1. Bad \subseteq SUBSET S
    OBVIOUS
  <2> HIDE DEF Bad
  <2>. QED
    BY <2>1, SmallestSubset
<1>2. m # {}
  BY <1>1, SumsStep
<1>3. Pick(m) \in m
  BY <1>2, PickIsElement
<1>4. g[m \ {Pick(m)}] = h[m \ {Pick(m)}]
  BY <1>1, <1>3
<1>. QED
  BY <1>1, <1>2, <1>4, SumsStep

LEMMA SumsExist ==
    ASSUME NEW f, NEW S, IsFiniteSet(S)
    PROVE  \E g : Sums(f, S, g)
<1> DEFINE Bad == {u \in SUBSET S : ~ \E g : Sums(f, u, g)}
<1> SUFFICES ASSUME Bad # {} PROVE FALSE
  OBVIOUS
<1>1. PICK m \in Bad : \A u \in Bad : u \subseteq m => u = m
  <2>1. Bad \subseteq SUBSET S
    OBVIOUS
  <2> HIDE DEF Bad
  <2>. QED
    BY <2>1, SmallestSubset
<1> DEFINE G(u) == CHOOSE g : Sums(f, u, g)
           h == [s \in SUBSET m |-> IF s = {} THEN 0
                                    ELSE f[Pick(s)] + G(s \ {Pick(s)})[s \ {Pick(s)}]]
<1>2. ASSUME NEW u \in SUBSET m, u # m
      PROVE  IsFiniteSet(u) /\ Sums(f, u, G(u))
  <2>1. \E g : Sums(f, u, g)
    BY <1>1, <1>2
  <2>2. IsFiniteSet(u)
    BY <1>1, FS_Subset
  <2>. QED
    BY <2>1, <2>2
<1>3. ASSUME NEW u \in SUBSET m, u # m
      PROVE  h[u] = G(u)[u]
  <2>1. Sums(f, u, G(u))
    BY <1>2, <1>3
  <2>2. CASE u = {}
    BY <2>1, <2>2, SumsStep
  <2>3. CASE u # {}
    <3> DEFINE v == u \ {Pick(u)}
    <3>1. Pick(u) \in u
      BY <2>3, PickIsElement
    <3>2. Sums(f, v, G(v)) /\ IsFiniteSet(v)
      BY <1>2, <1>3, <3>1
    <3>3. G(v)[v] = G(u)[v]
      <4> HIDE DEF G
      <4>. QED BY <2>1, <3>2, SumsAgree
    <3>4. G(u)[u] = f[Pick(u)] + G(u)[v]
      <4> HIDE DEF G
      <4>. QED BY <2>1, <2>3, SumsStep
    <3>. QED
      BY <2>3, <3>3, <3>4
  <2>. QED
    BY <2>2, <2>3
<1>4. ASSUME NEW s \in SUBSET m, s # {}
      PROVE  h[s] = f[Pick(s)] + h[s \ {Pick(s)}]
  <2>1. s \ {Pick(s)} \in SUBSET m /\ s \ {Pick(s)} # m
    BY <1>4, PickIsElement
  <2>2. h[s \ {Pick(s)}] = G(s \ {Pick(s)})[s \ {Pick(s)}]
    BY <1>3, <2>1
  <2>. QED
    BY <1>4, <2>2
<1>5. h = [s \in SUBSET m |-> IF s = {} THEN 0 ELSE f[Pick(s)] + h[s \ {Pick(s)}]]
  <2>1. h = [s \in SUBSET m |-> h[s]]
    OBVIOUS
  <2>2. ASSUME NEW s \in SUBSET m
        PROVE  h[s] = IF s = {} THEN 0 ELSE f[Pick(s)] + h[s \ {Pick(s)}]
    <3>1. CASE s = {}
      BY <3>1
    <3>2. CASE s # {}
      <4> HIDE DEF h
      <4>. QED BY <1>4, <3>2
    <3>. QED
      BY <3>1, <3>2
  <2> HIDE DEF h
  <2>3. [s \in SUBSET m |-> h[s]]
        = [s \in SUBSET m |-> IF s = {} THEN 0 ELSE f[Pick(s)] + h[s \ {Pick(s)}]]
    BY <2>2
  <2>. QED
    BY <2>1, <2>3
<1>6. Sums(f, m, h)
  <2> HIDE DEF h
  <2>. QED BY <1>5 DEF Sums, Pick
<1>. QED
  BY <1>1, <1>6

\* The sum is what the recursion computes.
LEMMA SumIsSolution ==
    ASSUME NEW f, NEW S, IsFiniteSet(S)
    PROVE  \E g : Sums(f, S, g) /\ SumFunctionOnSet(f, S) = g[S]
<1> DEFINE g == CHOOSE h : Sums(f, S, h)
<1>1. Sums(f, S, g)
  BY SumsExist
<1>2. SumFunctionOnSet(f, S) = g[S]
  BY DEF SumFunctionOnSet, FoldFunctionOnSet, MapThenFoldSet, Sums
<1>. QED
  BY <1>1, <1>2

LEMMA SumStep ==
    ASSUME NEW f, NEW S, IsFiniteSet(S), S # {}
    PROVE  SumFunctionOnSet(f, S) = f[Pick(S)] + SumFunctionOnSet(f, S \ {Pick(S)})
<1> DEFINE U == S \ {Pick(S)}
<1>1. IsFiniteSet(U) /\ U \in SUBSET S
  BY FS_Subset
<1>2. PICK g : Sums(f, S, g) /\ SumFunctionOnSet(f, S) = g[S]
  BY SumIsSolution
<1>3. PICK h : Sums(f, U, h) /\ SumFunctionOnSet(f, U) = h[U]
  BY <1>1, SumIsSolution
<1>4. g[U] = h[U]
  BY <1>1, <1>2, <1>3, SumsAgree
<1>. QED
  BY <1>2, <1>3, <1>4, SumsStep

\* The empty sum.
THEOREM SumEmpty ==
    ASSUME NEW f
    PROVE  SumFunctionOnSet(f, {}) = 0
BY FS_EmptySet, SumIsSolution, SumsStep

\* A sum of integers is an integer.
THEOREM SumType ==
    ASSUME NEW S, IsFiniteSet(S), NEW f, \A x \in S : f[x] \in Int
    PROVE  SumFunctionOnSet(f, S) \in Int
<1> DEFINE Bad == {u \in SUBSET S : SumFunctionOnSet(f, u) \notin Int}
<1> SUFFICES ASSUME Bad # {} PROVE FALSE
  OBVIOUS
<1>1. PICK m \in Bad : \A u \in Bad : u \subseteq m => u = m
  <2>1. Bad \subseteq SUBSET S
    OBVIOUS
  <2> HIDE DEF Bad
  <2>. QED
    BY <2>1, SmallestSubset
<1>2. m # {}
  BY SumEmpty
<1>3. Pick(m) \in m /\ IsFiniteSet(m)
  BY <1>2, PickIsElement, FS_Subset
<1>4. SumFunctionOnSet(f, m \ {Pick(m)}) \in Int
  BY <1>1, <1>3
<1>5. SumFunctionOnSet(f, m) = f[Pick(m)] + SumFunctionOnSet(f, m \ {Pick(m)})
  BY <1>2, <1>3, SumStep
<1>. QED
  BY <1>3, <1>4, <1>5

\* Any element may be taken out of a sum first.
THEOREM SumRemove ==
    ASSUME NEW S, IsFiniteSet(S), NEW f, \A x \in S : f[x] \in Int, NEW e \in S
    PROVE  SumFunctionOnSet(f, S) = f[e] + SumFunctionOnSet(f, S \ {e})
<1> DEFINE Total(u) == SumFunctionOnSet(f, u)
           Bad == {u \in SUBSET S : \E x \in u : Total(u) # f[x] + Total(u \ {x})}
<1> SUFFICES ASSUME Bad # {} PROVE FALSE
  OBVIOUS
<1>1. PICK m \in Bad : \A u \in Bad : u \subseteq m => u = m
  <2>1. Bad \subseteq SUBSET S
    OBVIOUS
  <2> HIDE DEF Bad
  <2>. QED
    BY <2>1, SmallestSubset
<1>2. PICK x \in m : Total(m) # f[x] + Total(m \ {x})
  OBVIOUS
<1> DEFINE p == Pick(m)
<1>3. p \in m /\ IsFiniteSet(m)
  BY PickIsElement, FS_Subset
<1>4. \A u \in SUBSET m : IsFiniteSet(u) /\ Total(u) \in Int
  BY <1>3, FS_Subset, SumType
<1>5. \A u \in SUBSET m : u # m => \A y \in u : Total(u) = f[y] + Total(u \ {y})
  BY <1>1
<1>6. Total(m) = f[p] + Total(m \ {p})
  BY <1>3, SumStep
<1>7. x # p
  BY <1>2, <1>6
<1> DEFINE v == m \ {p, x}
<1>8. v \in SUBSET m /\ (m \ {p}) \ {x} = v /\ (m \ {x}) \ {p} = v
  OBVIOUS
<1>9. Total(m \ {p}) = f[x] + Total(v)
  <2>1. Total(m \ {p}) = f[x] + Total((m \ {p}) \ {x})
    BY <1>3, <1>5, <1>7
  <2> HIDE DEF v, Total
  <2>. QED BY <1>8, <2>1, Zenon
<1>10. Total(m \ {x}) = f[p] + Total(v)
  <2>1. Total(m \ {x}) = f[p] + Total((m \ {x}) \ {p})
    BY <1>3, <1>5, <1>7
  <2> HIDE DEF v, Total
  <2>. QED BY <1>8, <2>1, Zenon
<1>11. f[x] \in Int /\ f[p] \in Int /\ Total(v) \in Int
  BY <1>3, <1>4, <1>8
<1>12. Total(m) = f[x] + Total(m \ {x})
  <2> HIDE DEF Total, p, v
  <2>. QED BY <1>6, <1>9, <1>10, <1>11
<1>. QED
  BY <1>2, <1>12

\* A sum with one more summand.
THEOREM SumAdd ==
    ASSUME NEW S, IsFiniteSet(S), NEW e, e \notin S,
           NEW f, \A x \in S \cup {e} : f[x] \in Int
    PROVE  SumFunctionOnSet(f, S \cup {e}) = f[e] + SumFunctionOnSet(f, S)
<1>1. IsFiniteSet(S \cup {e}) /\ (S \cup {e}) \ {e} = S
  BY FS_AddElement
<1>. QED
  BY <1>1, SumRemove

\* A sum depends on its summands only.
THEOREM SumCongruence ==
    ASSUME NEW S, IsFiniteSet(S), NEW f, NEW g, \A x \in S : f[x] = g[x]
    PROVE  SumFunctionOnSet(f, S) = SumFunctionOnSet(g, S)
<1> DEFINE Bad == {u \in SUBSET S : SumFunctionOnSet(f, u) # SumFunctionOnSet(g, u)}
<1> SUFFICES ASSUME Bad # {} PROVE FALSE
  OBVIOUS
<1>1. PICK m \in Bad : \A u \in Bad : u \subseteq m => u = m
  <2>1. Bad \subseteq SUBSET S
    OBVIOUS
  <2> HIDE DEF Bad
  <2>. QED
    BY <2>1, SmallestSubset
<1>2. m # {}
  BY SumEmpty
<1>3. Pick(m) \in m /\ IsFiniteSet(m)
  BY <1>2, PickIsElement, FS_Subset
<1>4. SumFunctionOnSet(f, m \ {Pick(m)}) = SumFunctionOnSet(g, m \ {Pick(m)})
  BY <1>1, <1>3
<1>. QED
  BY <1>2, <1>3, <1>4, SumStep

\* A sum of numbers from 0 to b is no more than b for each of them.
THEOREM SumBound ==
    ASSUME NEW S, IsFiniteSet(S), NEW b \in Nat, NEW f, \A x \in S : f[x] \in 0..b
    PROVE  SumFunctionOnSet(f, S) \in 0..(Cardinality(S) * b)
<1> DEFINE Total(u) == SumFunctionOnSet(f, u)
           Bad == {u \in SUBSET S : Total(u) \notin 0..(Cardinality(u) * b)}
<1> SUFFICES ASSUME Bad # {} PROVE FALSE
  OBVIOUS
<1>1. PICK m \in Bad : \A u \in Bad : u \subseteq m => u = m
  <2>1. Bad \subseteq SUBSET S
    OBVIOUS
  <2> HIDE DEF Bad
  <2>. QED
    BY <2>1, SmallestSubset
<1>2. m # {}
  <2>1. Total({}) = 0 /\ Cardinality({}) = 0
    BY SumEmpty, FS_EmptySet
  <2>. QED
    BY <2>1
<1> DEFINE u == m \ {Pick(m)}
<1>3. Pick(m) \in m /\ IsFiniteSet(m)
  BY <1>2, PickIsElement, FS_Subset
<1>4. Cardinality(m) \in Nat /\ Cardinality(u) \in Nat /\ Cardinality(m) = Cardinality(u) + 1
  <2>1. IsFiniteSet(u) /\ Cardinality(u) = Cardinality(m) - 1
    BY <1>3, FS_RemoveElement
  <2>2. Cardinality(m) \in Nat /\ Cardinality(u) \in Nat
    BY <1>3, <2>1, FS_CardinalityType
  <2>. QED
    BY <2>1, <2>2
<1>5. Total(u) \in 0..(Cardinality(u) * b)
  BY <1>1, <1>3
<1>6. Total(m) = f[Pick(m)] + Total(u)
  BY <1>2, <1>3, SumStep
<1>7. f[Pick(m)] \in 0..b
  BY <1>3
<1>8. Cardinality(m) * b = Cardinality(u) * b + b /\ Cardinality(u) * b \in Nat
  <2> HIDE DEF u
  <2>. QED BY <1>4
<1>9. Total(m) \in 0..(Cardinality(m) * b)
  <2> HIDE DEF Total, u
  <2>. QED BY <1>5, <1>6, <1>7, <1>8
<1>. QED
  BY <1>9

\* A sum of natural numbers is one.
THEOREM SumNat ==
    ASSUME NEW S, IsFiniteSet(S), NEW f, \A x \in S : f[x] \in Nat
    PROVE  SumFunctionOnSet(f, S) \in Nat
<1> DEFINE Bad == {u \in SUBSET S : SumFunctionOnSet(f, u) \notin Nat}
<1> SUFFICES ASSUME Bad # {} PROVE FALSE
  OBVIOUS
<1>1. PICK m \in Bad : \A u \in Bad : u \subseteq m => u = m
  <2>1. Bad \subseteq SUBSET S
    OBVIOUS
  <2> HIDE DEF Bad
  <2>. QED
    BY <2>1, SmallestSubset
<1>2. m # {}
  BY SumEmpty
<1>3. Pick(m) \in m /\ IsFiniteSet(m)
  BY <1>2, PickIsElement, FS_Subset
<1>4. SumFunctionOnSet(f, m \ {Pick(m)}) \in Nat
  BY <1>1, <1>3
<1>5. SumFunctionOnSet(f, m) = f[Pick(m)] + SumFunctionOnSet(f, m \ {Pick(m)})
  BY <1>2, <1>3, SumStep
<1>. QED
  BY <1>1, <1>3, <1>4, <1>5

\* The sum over two sets without a common element is the sum of the two sums.
THEOREM SumDisjoint ==
    ASSUME NEW S, IsFiniteSet(S), NEW f, \A x \in S : f[x] \in Nat, NEW T, T \subseteq S
    PROVE  SumFunctionOnSet(f, S) = SumFunctionOnSet(f, T) + SumFunctionOnSet(f, S \ T)
<1> DEFINE Total(u) == SumFunctionOnSet(f, u)
           Bad == {u \in SUBSET (S \ T) : Total(T \cup u) # Total(T) + Total(u)}
<1>0. IsFiniteSet(T) /\ IsFiniteSet(S \ T) /\ Total(T) \in Nat
  BY FS_Subset, SumNat
<1>1. ASSUME Bad # {}
      PROVE  FALSE
  <2>1. PICK m \in Bad : \A u \in Bad : u \subseteq m => u = m
    <3>1. Bad \subseteq SUBSET (S \ T)
      OBVIOUS
    <3> HIDE DEF Bad
    <3>. QED
      BY <1>0, <1>1, <3>1, SmallestSubset
  <2>2. m # {}
    <3>1. T \cup {} = T /\ Total({}) = 0
      BY SumEmpty
    <3>2. Total(T \cup {}) = Total(T) + Total({})
      <4>1. Total(T \cup {}) = Total(T)
        BY <3>1
      <4> HIDE DEF Total
      <4>. QED BY <1>0, <3>1, <4>1
    <3>. QED
      BY <2>1, <3>2
  <2> DEFINE e == Pick(m)
             v == m \ {e}
  <2>3. e \in m /\ m \subseteq S \ T
    BY <2>1, <2>2, PickIsElement
  <2>4. Total(T \cup v) = Total(T) + Total(v)
    BY <2>1, <2>3
  <2>5. /\ IsFiniteSet(v) /\ IsFiniteSet(T \cup v) /\ v \subseteq S /\ T \cup v \subseteq S
        /\ e \notin v /\ e \notin T \cup v /\ v \cup {e} = m /\ (T \cup v) \cup {e} = T \cup m
    BY <1>0, <2>3, FS_Subset
  <2>6. Total(v \cup {e}) = f[e] + Total(v)
    <3> HIDE DEF v, e
    <3>1. \A x \in v \cup {e} : f[x] \in Int
      BY <2>3, <2>5
    <3>. QED BY <2>5, <3>1, SumAdd
  <2>7. Total((T \cup v) \cup {e}) = f[e] + Total(T \cup v)
    <3> HIDE DEF v, e
    <3>1. \A x \in (T \cup v) \cup {e} : f[x] \in Int
      BY <2>3, <2>5
    <3>. QED BY <2>5, <3>1, SumAdd
  <2>8. Total(v) \in Nat /\ f[e] \in Nat
    BY <2>3, <2>5, SumNat
  <2>9. Total(T \cup m) = Total(T) + Total(m)
    <3> HIDE DEF v, e
    <3>1. Total(m) = f[e] + Total(v)
      BY <2>5, <2>6
    <3>2. Total(T \cup m) = f[e] + Total(T \cup v)
      BY <2>5, <2>7
    <3> HIDE DEF Total
    <3>. QED BY <1>0, <2>4, <2>8, <3>1, <3>2
  <2>. QED
    BY <2>1, <2>9
<1>2. T \cup (S \ T) = S /\ S \ T \in SUBSET (S \ T)
  OBVIOUS
<1>. QED
  BY <1>1, <1>2

\* A sum grows with its set.
THEOREM SumSubset ==
    ASSUME NEW S, IsFiniteSet(S), NEW f, \A x \in S : f[x] \in Nat, NEW T, T \subseteq S
    PROVE  SumFunctionOnSet(f, T) <= SumFunctionOnSet(f, S)
<1>1. IsFiniteSet(T) /\ IsFiniteSet(S \ T)
  BY FS_Subset
<1>2. SumFunctionOnSet(f, T) \in Nat /\ SumFunctionOnSet(f, S \ T) \in Nat
  BY <1>1, SumNat
<1>3. SumFunctionOnSet(f, S) = SumFunctionOnSet(f, T) + SumFunctionOnSet(f, S \ T)
  BY SumDisjoint
<1>. QED
  BY <1>2, <1>3

OfKinds(S, kind, T) == {s \in S : kind[s] \in T}
CountsKinds(S, kind, T, count) == \A t \in T : count[t] = Cardinality({s \in S : kind[s] = t})

\* What is counted by kinds adds up to the number of elements of these kinds.
THEOREM SumOfKinds ==
    ASSUME NEW S, IsFiniteSet(S), NEW T, IsFiniteSet(T), NEW kind, NEW count,
           CountsKinds(S, kind, T, count)
    PROVE  SumFunctionOnSet(count, T) = Cardinality(OfKinds(S, kind, T))
<1> DEFINE of == [u \in SUBSET T |-> {s \in S : kind[s] \in u}]
           Bad == {u \in SUBSET T : SumFunctionOnSet(count, u) # Cardinality(of[u])}
<1>0. of[T] = OfKinds(S, kind, T)
  BY DEF OfKinds
<1> SUFFICES ASSUME Bad # {} PROVE FALSE
  BY <1>0
<1>1. PICK m \in Bad : \A u \in Bad : u \subseteq m => u = m
  <2>1. Bad \subseteq SUBSET T
    OBVIOUS
  <2> HIDE DEF Bad
  <2>. QED
    BY <2>1, SmallestSubset
<1>2. m # {}
  <2>1. of[{}] = {}
    OBVIOUS
  <2>. QED
    BY <2>1, SumEmpty, FS_EmptySet
<1>3. PICK p \in m : TRUE
  BY <1>2
<1>4. \A u \in SUBSET T : of[u] = {s \in S : kind[s] \in u}
  OBVIOUS
<1>5. \A u \in SUBSET T : IsFiniteSet(of[u]) /\ Cardinality(of[u]) \in Nat
  BY <1>4, FS_Subset, FS_CardinalityType
<1>6. m \in SUBSET T /\ m \ {p} \in SUBSET T /\ {p} \in SUBSET T /\ IsFiniteSet(m)
  BY FS_Subset
<1> DEFINE fewer == m \ {p}
<1>7. SumFunctionOnSet(count, fewer) = Cardinality(of[fewer])
  <2>1. fewer \in SUBSET T /\ fewer \subseteq m /\ fewer # m
    BY <1>3, <1>6
  <2>2. fewer \notin Bad
    <3> HIDE DEF fewer, Bad
    <3>. QED BY <1>1, <2>1
  <2>. QED
    <3> HIDE DEF fewer, of
    <3>. QED BY <2>1, <2>2
<1>8. \A t \in m : count[t] \in Int
  <2> TAKE t \in m
  <2>1. {t} \in SUBSET T /\ of[{t}] = {s \in S : kind[s] = t}
    OBVIOUS
  <2>2. count[t] = Cardinality(of[{t}]) /\ Cardinality(of[{t}]) \in Nat
    <3>1. t \in T
      BY <1>6
    <3>2. count[t] = Cardinality({s \in S : kind[s] = t})
      BY <3>1 DEF CountsKinds
    <3>. QED
      <4> HIDE DEF of
      <4>. QED BY <1>5, <2>1, <3>2
  <2>. QED
    <3> HIDE DEF of
    <3>. QED BY <2>2
<1>9. count[p] = Cardinality(of[{p}])
  <2>1. of[{p}] = {s \in S : kind[s] = p}
    BY <1>4, <1>6
  <2>2. p \in T
    BY <1>6
  <2>3. count[p] = Cardinality({s \in S : kind[s] = p})
    BY <2>2 DEF CountsKinds
  <2>. QED
    <3> HIDE DEF of
    <3>. QED BY <2>1, <2>3
<1>10. SumFunctionOnSet(count, m) = count[p] + SumFunctionOnSet(count, fewer)
  BY <1>6, <1>8, SumRemove
<1>11. of[m] = of[{p}] \cup of[fewer] /\ of[{p}] \cap of[fewer] = {}
  BY <1>4, <1>6
<1>12. SumFunctionOnSet(count, m) # Cardinality(of[m])
  OBVIOUS
<1>13. IsFiniteSet(of[{p}]) /\ IsFiniteSet(of[fewer])
       /\ Cardinality(of[{p}]) \in Nat /\ Cardinality(of[fewer]) \in Nat
  BY <1>5, <1>6
<1> HIDE DEF of, Bad, fewer
<1>14. Cardinality(of[m]) = Cardinality(of[{p}]) + Cardinality(of[fewer])
  <2>1. Cardinality(of[{p}] \cup of[fewer])
          = Cardinality(of[{p}]) + Cardinality(of[fewer]) - Cardinality(of[{p}] \cap of[fewer])
    BY <1>13, FS_Union
  <2>2. Cardinality(of[{p}] \cap of[fewer]) = 0
    BY <1>11, FS_EmptySet
  <2>. QED
    BY <1>11, <1>13, <2>1, <2>2
<1>. QED
  BY <1>7, <1>9, <1>10, <1>12, <1>14

\* When every summand that is not 0 has one of its own, no smaller, in another sum,
\* then the other sum is no smaller.
THEOREM SumInto ==
    ASSUME NEW S, IsFiniteSet(S), NEW f, \A x \in S : f[x] \in Nat,
           NEW T, IsFiniteSet(T), NEW h, \A y \in T : h[y] \in Nat,
           NEW g, \A x \in S : f[x] # 0 => g[x] \in T /\ f[x] <= h[g[x]],
           \A x, y \in S : f[x] # 0 /\ f[y] # 0 /\ g[x] = g[y] => x = y
    PROVE  SumFunctionOnSet(f, S) <= SumFunctionOnSet(h, T)
<1> DEFINE Image(u) == {y \in T : \E x \in u : f[x] # 0 /\ g[x] = y}
           Small(u) == SumFunctionOnSet(f, u)
           Large(u) == SumFunctionOnSet(h, Image(u))
           Bad == {u \in SUBSET S : ~(Small(u) <= Large(u))}
<1>1. \A u \in SUBSET S : Small(u) \in Nat /\ Large(u) \in Nat
  <2>1. \A u \in SUBSET S : IsFiniteSet(u) /\ IsFiniteSet(Image(u)) /\ Image(u) \subseteq T
    BY FS_Subset
  <2>. QED
    BY <2>1, SumNat
<1>2. ASSUME Bad # {}
      PROVE  FALSE
  <2>1. PICK m \in Bad : \A u \in Bad : u \subseteq m => u = m
    <3>1. Bad \subseteq SUBSET S
      OBVIOUS
    <3> HIDE DEF Bad
    <3>. QED
      BY <1>2, <3>1, SmallestSubset
  <2>2. m # {}
    <3>1. Small({}) = 0 /\ Large({}) \in Nat
      BY <1>1, SumEmpty
    <3>2. Small({}) <= Large({})
      <4> HIDE DEF Small, Large
      <4>. QED BY <3>1
    <3>. QED
      BY <2>1, <3>2
  <2> DEFINE e == Pick(m)
             v == m \ {e}
  <2>3. e \in m /\ e \in S /\ v \in SUBSET S /\ IsFiniteSet(m) /\ m \in SUBSET S
    BY <2>1, <2>2, PickIsElement, FS_Subset
  <2>4. Small(v) <= Large(v)
    BY <2>1, <2>3
  <2>5. Small(m) = f[e] + Small(v)
    BY <2>2, <2>3, SumStep
  <2>6. CASE f[e] = 0
    <3>1. Image(m) = Image(v)
      BY <2>3, <2>6
    <3>2. Small(m) = Small(v) /\ Large(m) = Large(v)
      <4>1. Large(m) = Large(v)
        BY <3>1
      <4> HIDE DEF Small, Large
      <4>. QED BY <1>1, <2>3, <2>5, <2>6, <4>1
    <3>. QED
      BY <2>1, <2>4, <3>2
  <2>7. CASE f[e] # 0
    <3>1. g[e] \in T /\ f[e] <= h[g[e]] /\ h[g[e]] \in Nat /\ f[e] \in Nat
      BY <2>3, <2>7
    <3>2. g[e] \notin Image(v)
      BY <2>3, <2>7
    <3>3. Image(m) = Image(v) \cup {g[e]}
      BY <2>3, <2>7, <3>1
    <3>4. IsFiniteSet(Image(v)) /\ \A y \in Image(v) \cup {g[e]} : h[y] \in Int
      BY <3>1, FS_Subset
    <3>5. Large(m) = h[g[e]] + Large(v)
      <4> HIDE DEF Image
      <4>1. SumFunctionOnSet(h, Image(v) \cup {g[e]}) = h[g[e]] + SumFunctionOnSet(h, Image(v))
        BY <3>2, <3>4, SumAdd
      <4>. QED
        BY <3>3, <4>1
    <3>6. Small(m) <= Large(m)
      <4> HIDE DEF Small, Large, v, e
      <4>. QED BY <1>1, <2>3, <2>4, <2>5, <3>1, <3>5
    <3>. QED
      BY <2>1, <3>6
  <2>. QED
    BY <2>6, <2>7
<1>3. Small(S) <= Large(S) /\ Small(S) \in Nat /\ Large(S) \in Nat
  BY <1>1, <1>2
<1>4. Image(S) \subseteq T
  OBVIOUS
<1>5. Large(S) <= SumFunctionOnSet(h, T)
  <2> HIDE DEF Image
  <2>. QED BY <1>4, SumSubset
<1>6. SumFunctionOnSet(h, T) \in Nat
  BY SumNat
<1>. QED
  <2> HIDE DEF Small, Large
  <2>1. Small(S) <= SumFunctionOnSet(h, T)
    BY <1>3, <1>5, <1>6
  <2>. QED
    BY <2>1 DEF Small

\* Changing one value changes the sum by as much.
THEOREM SumChange ==
    ASSUME NEW S, IsFiniteSet(S), NEW f, NEW g, \A x \in S : f[x] \in Int /\ g[x] \in Int,
           NEW e \in S, \A x \in S \ {e} : g[x] = f[x]
    PROVE  SumFunctionOnSet(g, S) = SumFunctionOnSet(f, S) + (g[e] - f[e])
<1>1. /\ SumFunctionOnSet(f, S) = f[e] + SumFunctionOnSet(f, S \ {e})
      /\ SumFunctionOnSet(g, S) = g[e] + SumFunctionOnSet(g, S \ {e})
  BY SumRemove
<1>2. IsFiniteSet(S \ {e})
  BY FS_Subset
<1>3. SumFunctionOnSet(g, S \ {e}) = SumFunctionOnSet(f, S \ {e})
  BY <1>2, SumCongruence
<1>4. SumFunctionOnSet(f, S \ {e}) \in Int
  BY <1>2, SumType
<1>. QED
  BY <1>1, <1>3, <1>4

\* The sum of zeros.
THEOREM SumZero ==
    ASSUME NEW S, IsFiniteSet(S), NEW f, \A x \in S : f[x] = 0
    PROVE  SumFunctionOnSet(f, S) = 0
<1>1. SumFunctionOnSet(f, S) \in 0..(Cardinality(S) * 0)
  <2>1. \A x \in S : f[x] \in 0..0
    OBVIOUS
  <2>. QED
    BY <2>1, SumBound
<1>2. Cardinality(S) \in Nat
  BY FS_CardinalityType
<1>. QED
  BY <1>1, <1>2

Greatest(S, y) == y \in S /\ \A x \in S : y >= x

\* Among the sets without a greatest element there is a smallest.
LEMMA SmallestWithoutGreatest ==
    ASSUME NEW S, IsFiniteSet(S), S # {}, \A y \in S : ~Greatest(S, y)
    PROVE  \E m \in SUBSET S :
              /\ m # {} /\ \A y \in m : ~Greatest(m, y)
              /\ \A u \in SUBSET m : u # {} /\ u # m => \E y \in u : Greatest(u, y)
<1> DEFINE Bad == {u \in SUBSET S : u # {} /\ \A y \in u : ~Greatest(u, y)}
<1>1. PICK m \in Bad : \A u \in Bad : u \subseteq m => u = m
  <2>1. Bad \subseteq SUBSET S /\ Bad # {}
    OBVIOUS
  <2> HIDE DEF Bad
  <2>. QED
    BY <2>1, SmallestSubset
<1>. QED
  BY <1>1

\* A finite set of integers that is not empty has a greatest element.
THEOREM MaxIsGreatest ==
    ASSUME NEW S, IsFiniteSet(S), S # {}, S \subseteq Int
    PROVE  Max(S) \in S /\ \A x \in S : x <= Max(S)
<1>1. \E y \in S : Greatest(S, y)
  <2> SUFFICES ASSUME \A y \in S : ~Greatest(S, y) PROVE FALSE
    OBVIOUS
  <2>1. PICK m \in SUBSET S :
              /\ m # {} /\ \A y \in m : ~Greatest(m, y)
              /\ \A u \in SUBSET m : u # {} /\ u # m => \E y \in u : Greatest(u, y)
    BY SmallestWithoutGreatest
  <2>2. Pick(m) \in m
    BY <2>1, PickIsElement
  <2> DEFINE u == m \ {Pick(m)}
  <2>3. CASE u = {}
    <3>1. Greatest(m, Pick(m))
      BY <2>2, <2>3 DEF Greatest
    <3>. QED
      BY <2>1, <2>2, <3>1
  <2>4. CASE u # {}
    <3>1. PICK y \in u : Greatest(u, y)
      BY <2>1, <2>2, <2>4
    <3>2. Pick(m) \in Int /\ y \in Int /\ \A x \in m : x = Pick(m) \/ (x \in Int /\ y >= x)
      BY <2>2, <3>1 DEF Greatest
    <3>3. CASE y >= Pick(m)
      <4>1. Greatest(m, y)
        BY <3>2, <3>3 DEF Greatest
      <4>. QED
        BY <2>1, <4>1
    <3>4. CASE Pick(m) > y
      <4>1. Greatest(m, Pick(m))
        BY <2>2, <3>2, <3>4 DEF Greatest
      <4>. QED
        BY <2>1, <2>2, <4>1
    <3>. QED
      BY <3>2, <3>3, <3>4
  <2>. QED
    BY <2>3, <2>4
<1>2. PICK y \in S : Greatest(S, y)
  BY <1>1
<1>. QED
  BY <1>2 DEF Max, Greatest

\* The i-th of a growing sequence of positive numbers is i at least.
THEOREM GrowsByOne ==
    ASSUME NEW n \in Nat, NEW f \in [1..n -> Nat \ {0}],
           \A i, j \in 1..n : i < j => f[i] < f[j]
    PROVE  \A i \in 1..n : f[i] >= i
<1> DEFINE Bad == {i \in 1..n : f[i] < i}
<1> SUFFICES ASSUME Bad # {} PROVE FALSE
  OBVIOUS
<1>1. PICK i \in Bad : \A j \in Bad : ~(j < i)
  <2>1. Bad \subseteq Nat
    OBVIOUS
  <2>2. \E i \in Bad : \A j \in Bad : <<j, i>> \notin OpToRel(<, Nat)
    <3> HIDE DEF Bad
    <3>. QED BY <2>1, NatLessThanWellFounded, WFMin
  <2>. QED
    BY <2>1, <2>2 DEF OpToRel
<1>2. CASE i = 1
  BY <1>2
<1>3. CASE i > 1
  <2>1. f[i - 1] >= i - 1
    BY <1>1, <1>3
  <2>2. f[i - 1] < f[i]
    BY <1>3
  <2>. QED
    BY <1>3, <2>1, <2>2
<1>. QED
  BY <1>2, <1>3

\* A finite set of integers that is not empty has a least element.
THEOREM MinOfFinite ==
    ASSUME NEW S, IsFiniteSet(S), S # {}, S \subseteq Int
    PROVE  Min(S) \in S /\ \A x \in S : Min(S) <= x
<1> DEFINE T == {-x : x \in S}
<1>1. IsFiniteSet(T)
  <2> DEFINE f == [x \in S |-> -x]
  <2>1. f \in Surjection(S, T)
    BY DEF Surjection
  <2> HIDE DEF f, T
  <2>. QED
    BY <2>1, FS_Surjection
<1>2. T # {} /\ T \subseteq Int
  <2>1. PICK x \in S : TRUE
    OBVIOUS
  <2>2. -x \in T
    BY <2>1
  <2>3. \A t \in T : t \in Int
    OBVIOUS
  <2> HIDE DEF T
  <2>. QED
    BY <2>2, <2>3
<1>3. Max(T) \in T /\ \A x \in T : x <= Max(T)
  <2> HIDE DEF T
  <2>. QED BY <1>1, <1>2, MaxIsGreatest
<1>4. PICK m \in S : Max(T) = -m
  BY <1>3
<1>5. ASSUME NEW x \in S PROVE m <= x
  <2>1. -x \in T /\ x \in Int /\ m \in Int
    OBVIOUS
  <2>2. -x <= -m
    BY <1>3, <1>4, <2>1
  <2>. QED
    BY <2>1, <2>2
<1>. QED
  BY <1>5 DEF Min

-----------------------------------------------------------------------------
(* Numbers up to n, and functions defined by recursion over them.          *)

LEMMA SmallestNat ==
    ASSUME NEW T, T \subseteq Nat, T # {}
    PROVE  \E m \in T : \A k \in T : m <= k
<1>1. PICK m \in T : \A k \in T : <<k, m>> \notin OpToRel(<, Nat)
  BY NatLessThanWellFounded, WFMin
<1>2. \A k \in T : ~(k < m)
  BY <1>1 DEF OpToRel
<1>3. \A k \in T : m <= k
  BY <1>2
<1>. QED
  BY <1>3

LEMMA MinIsLeast ==
    ASSUME NEW T, T \subseteq Nat, T # {}
    PROVE  Min(T) \in T /\ \A k \in T : Min(T) <= k
<1>1. PICK m \in T : \A k \in T : m <= k
  BY SmallestNat
<1>. QED
  BY <1>1 DEF Min

LEMMA UpTo ==
    ASSUME NEW n \in Nat, NEW T, T \subseteq 0..n, 0 \in T,
           \A k \in T : k < n => k + 1 \in T
    PROVE  T = 0..n
<1> SUFFICES ASSUME (0..n) \ T # {} PROVE FALSE
  OBVIOUS
<1> DEFINE R == (0..n) \ T
<1>1. PICK m \in R : \A k \in R : m <= k
  <2>1. R \subseteq Nat /\ R # {}
    OBVIOUS
  <2> HIDE DEF R
  <2>. QED
    BY <2>1, SmallestNat
<1>2. m - 1 \in 0..n /\ m - 1 < n
  BY <1>1
<1>3. m - 1 \in T
  BY <1>1, <1>2
<1>. QED
  BY <1>1, <1>2, <1>3

\* What a recursive function from 0 to n computes, for a step that is itself a function.
Iterates(g, n, x, F) == g = [i \in 0..n |-> IF i = 0 THEN x ELSE F[g[i - 1]]]

LEMMA IteratesMore ==
    ASSUME NEW S, NEW x \in S, NEW F \in [S -> S], NEW k \in Nat,
           NEW g \in [0..k -> S], Iterates(g, k, x, F)
    PROVE  \E h \in [0..(k + 1) -> S] : Iterates(h, k + 1, x, F)
<1> DEFINE h == [i \in 0..(k + 1) |-> IF i = k + 1 THEN F[g[k]] ELSE g[i]]
<1>1. h \in [0..(k + 1) -> S]
  OBVIOUS
<1>2. ASSUME NEW i \in 0..(k + 1)
      PROVE  h[i] = IF i = 0 THEN x ELSE F[h[i - 1]]
  <2>1. CASE i = k + 1
    <3>1. i # 0 /\ h[i] = F[g[k]] /\ h[i - 1] = g[k]
      BY <2>1
    <3>. QED
      BY <3>1
  <2>2. CASE i # k + 1
    <3>1. i \in 0..k /\ h[i] = g[i] /\ (i # 0 => h[i - 1] = g[i - 1])
      BY <2>2
    <3>2. g[i] = IF i = 0 THEN x ELSE F[g[i - 1]]
      BY <3>1 DEF Iterates
    <3>. QED
      BY <3>1, <3>2
  <2>. QED
    BY <2>1, <2>2
<1>3. Iterates(h, k + 1, x, F)
  <2>1. h = [i \in 0..(k + 1) |-> h[i]]
    OBVIOUS
  <2> HIDE DEF h
  <2>. QED
    BY <1>2, <2>1 DEF Iterates
<1>. QED
  BY <1>1, <1>3

LEMMA IteratesExist ==
    ASSUME NEW S, NEW x \in S, NEW F \in [S -> S], NEW n \in Nat
    PROVE  \E g \in [0..n -> S] : Iterates(g, n, x, F)
<1> DEFINE T == {k \in 0..n : \E g \in [0..k -> S] : Iterates(g, k, x, F)}
<1>1. 0 \in T
  <2> DEFINE e == [i \in 0..0 |-> x]
  <2>1. e \in [0..0 -> S]
    OBVIOUS
  <2>2. Iterates(e, 0, x, F)
    <3>1. \A i \in 0..0 : i = 0
      OBVIOUS
    <3>. QED
      BY <3>1 DEF Iterates
  <2>3. 0 \in 0..n
    OBVIOUS
  <2> HIDE DEF e
  <2>. QED
    BY <2>1, <2>2, <2>3
<1>2. \A k \in T : k < n => k + 1 \in T
  BY IteratesMore
<1>3. T = 0..n
  <2>1. T \subseteq 0..n
    OBVIOUS
  <2> HIDE DEF T
  <2>. QED
    BY <1>1, <1>2, <2>1, UpTo
<1>. QED
  BY <1>3

-----------------------------------------------------------------------------
(* Listings.                                                               *)

\* before orders the elements of S strictly.
Orders(S, before) ==
    /\ \A x \in S : <<x, x>> \notin before
    /\ \A x, y, z \in S : <<x, y>> \in before /\ <<y, z>> \in before => <<x, z>> \in before
    /\ \A x, y \in S : x # y => <<x, y>> \in before \/ <<y, x>> \in before

\* How many elements come before each element of S.
Ranks(S, before) == [x \in S |-> Cardinality({y \in S : <<y, x>> \in before})]

\* The rank of an element is a place in the listing, and every place has one.
LEMMA RanksFill ==
    ASSUME NEW S, IsFiniteSet(S), NEW before, Orders(S, before)
    PROVE  /\ Ranks(S, before) \in [S -> 0..(Cardinality(S) - 1)]
           /\ \A x, y \in S : <<x, y>> \in before => Ranks(S, before)[x] < Ranks(S, before)[y]
           /\ \A k \in 0..(Cardinality(S) - 1) : \E x \in S : Ranks(S, before)[x] = k
<1> DEFINE lower(x) == {y \in S : <<y, x>> \in before}
           n == Cardinality(S)
           f == Ranks(S, before)
<1>1. n \in Nat
  BY FS_CardinalityType
<1>2. ASSUME NEW x \in S
      PROVE  f[x] = Cardinality(lower(x)) /\ IsFiniteSet(lower(x)) /\ f[x] \in 0..(n - 1)
  <2>1. lower(x) \in SUBSET S /\ lower(x) # S /\ f[x] = Cardinality(lower(x))
    BY <1>2 DEF Orders, Ranks
  <2>2. IsFiniteSet(lower(x)) /\ Cardinality(lower(x)) <= n /\ Cardinality(lower(x)) # n
    <3> HIDE DEF lower
    <3>. QED BY <2>1, FS_Subset
  <2>3. Cardinality(lower(x)) \in Nat
    <3> HIDE DEF lower
    <3>. QED BY <2>2, FS_CardinalityType
  <2> HIDE DEF lower, f, n
  <2>. QED
    BY <1>1, <2>1, <2>2, <2>3
<1>3. ASSUME NEW x \in S, NEW y \in S, <<x, y>> \in before
      PROVE  f[x] < f[y]
  <2>1. lower(x) \in SUBSET lower(y) /\ lower(x) # lower(y)
    BY <1>3 DEF Orders
  <2>2. IsFiniteSet(lower(y)) /\ f[x] = Cardinality(lower(x)) /\ f[y] = Cardinality(lower(y))
    BY <1>2
  <2>3. f[x] <= f[y] /\ f[x] # f[y]
    <3> HIDE DEF lower, f
    <3>. QED BY <2>1, <2>2, FS_Subset
  <2>4. f[x] \in Int /\ f[y] \in Int
    <3> HIDE DEF f, lower
    <3>1. f[x] \in 0..(n - 1) /\ f[y] \in 0..(n - 1)
      BY <1>2
    <3>. QED
      BY <3>1
  <2> HIDE DEF f
  <2>. QED
    BY <2>3, <2>4
<1>4. f \in [S -> 0..(n - 1)]
  <2>1. f = [x \in S |-> f[x]]
    BY DEF Ranks
  <2>2. \A x \in S : f[x] \in 0..(n - 1)
    BY <1>2
  <2> HIDE DEF f
  <2>. QED
    BY <2>1, <2>2
<1>5. \A k \in 0..(n - 1) : \E x \in S : f[x] = k
  <2> HIDE DEF f
  <2>1. ASSUME NEW x \in S, NEW y \in S, f[x] = f[y] PROVE x = y
    <3>1. f[x] \in Int /\ f[y] \in Int
      BY <1>4
    <3>2. ~(f[x] < f[y]) /\ ~(f[y] < f[x])
      BY <2>1, <3>1
    <3>. QED
      BY <1>3, <3>2 DEF Orders
  <2>2. IsFiniteSet(0..(n - 1)) /\ Cardinality(0..(n - 1)) = n
    <3> HIDE DEF n
    <3>. QED BY <1>1, FS_Interval
  <2>3. f \in Injection(S, 0..(n - 1))
    BY <1>4, <2>1 DEF Injection, IsInjective
  <2>4. f \in Surjection(S, 0..(n - 1))
    BY <2>2, <2>3, FS_Injection
  <2>. QED
    BY <2>4 DEF Surjection
<1>. QED
  BY <1>3, <1>4, <1>5

\* A listing has every element once, in order.
THEOREM ListedInOrder ==
    ASSUME NEW S, IsFiniteSet(S), NEW before, Orders(S, before)
    PROVE  /\ Cardinality(S) \in Nat
           /\ Listed(S, before) \in [1..Cardinality(S) -> S]
           /\ \A x \in S : \E k \in 1..Cardinality(S) : Listed(S, before)[k] = x
           /\ \A i, j \in 1..Cardinality(S) :
                 i < j => <<Listed(S, before)[i], Listed(S, before)[j]>> \in before
<1>1. PICK n \in Nat : n = Cardinality(S)
  BY FS_CardinalityType
<1>2. PICK rank \in [S -> 0..(n - 1)] :
         /\ rank = Ranks(S, before)
         /\ \A x, y \in S : <<x, y>> \in before => rank[x] < rank[y]
         /\ \A k \in 0..(n - 1) : \E x \in S : rank[x] = k
  BY <1>1, RanksFill
<1>3. PICK L : L = Listed(S, before)
  OBVIOUS
<1>4. L = [k \in 1..n |-> CHOOSE x \in S : rank[x] = k - 1]
  <2>1. \A x \in S : rank[x] = Cardinality({y \in S : <<y, x>> \in before})
    BY <1>2 DEF Ranks
  <2> DEFINE counted(k) == CHOOSE x \in S : Cardinality({y \in S : <<y, x>> \in before}) = k - 1
             ranked(k) == CHOOSE x \in S : rank[x] = k - 1
  <2>2. L = [k \in 1..n |-> counted(k)]
    BY <1>1, <1>3 DEF Listed
  <2>3. \A k \in 1..n : counted(k) = ranked(k)
    BY <2>1
  <2>4. [k \in 1..n |-> counted(k)] = [k \in 1..n |-> ranked(k)]
    <3> HIDE DEF counted, ranked
    <3>. QED BY <2>3
  <2>. QED
    BY <2>2, <2>4
<1>5. \A k \in 1..n : L[k] \in S /\ rank[L[k]] = k - 1
  <2> TAKE k \in 1..n
  <2>1. k - 1 \in 0..(n - 1)
    OBVIOUS
  <2>2. \E x \in S : rank[x] = k - 1
    BY <1>2, <2>1
  <2>. QED
    BY <1>4, <2>2
<1>6. L \in [1..n -> S]
  BY <1>4, <1>5
<1>7. ASSUME NEW x \in S, NEW y \in S, rank[x] = rank[y] PROVE x = y
  <2>1. ~(rank[x] < rank[y]) /\ ~(rank[y] < rank[x])
    BY <1>7
  <2>. QED
    BY <1>2, <2>1 DEF Orders
<1>8. ASSUME NEW x \in S PROVE \E k \in 1..n : L[k] = x
  <2>1. rank[x] + 1 \in 1..n /\ (rank[x] + 1) - 1 = rank[x]
    OBVIOUS
  <2>2. L[rank[x] + 1] \in S /\ rank[L[rank[x] + 1]] = rank[x]
    BY <1>5, <2>1
  <2>3. L[rank[x] + 1] = x
    BY <1>7, <2>2
  <2>. QED
    BY <2>1, <2>3
<1>9. ASSUME NEW i \in 1..n, NEW j \in 1..n, i < j
      PROVE  <<L[i], L[j]>> \in before
  <2>1. rank[L[i]] = i - 1 /\ rank[L[j]] = j - 1 /\ L[i] \in S /\ L[j] \in S
    BY <1>5
  <2>2. L[i] # L[j] /\ ~(rank[L[j]] < rank[L[i]])
    BY <1>9, <2>1
  <2>. QED
    BY <1>2, <2>1, <2>2 DEF Orders
<1>. QED
  BY <1>1, <1>3, <1>6, <1>8, <1>9

\* p is what a sequence s has at some indices, and nothing else.
ElementsAt(s, indices, p) ==
    /\ Cardinality(indices) \in Nat
    /\ DOMAIN p = 1..Cardinality(indices)
    /\ \A k \in DOMAIN p : \E i \in indices : p[k] = s[i]
    /\ \A i \in indices : \E k \in DOMAIN p : p[k] = s[i]

\* Picking some indices of a sequence keeps what is there and nothing else.
THEOREM PickedElements ==
    ASSUME NEW s, NEW indices, IsFiniteSet(indices), indices \subseteq Int
    PROVE  ElementsAt(s, indices, Picked(s, indices))
<1> DEFINE up == {p \in indices \X indices : p[1] < p[2]}
           at == Listed(indices, up)
           n == Cardinality(indices)
<1>1. Orders(indices, up)
  <2>1. \A x, y \in indices : <<x, y>> \in up <=> x < y
    OBVIOUS
  <2>2. \A x \in indices : x \in Int
    OBVIOUS
  <2> HIDE DEF up
  <2>. QED
    BY <2>1, <2>2 DEF Orders
<1>2. /\ n \in Nat /\ at \in [1..n -> indices]
      /\ \A i \in indices : \E k \in 1..n : at[k] = i
  <2> HIDE DEF up
  <2>. QED BY <1>1, ListedInOrder
<1>3. Picked(s, indices) = [k \in DOMAIN at |-> s[at[k]]]
  BY DEF Picked
<1> HIDE DEF at, n
<1>4. DOMAIN Picked(s, indices) = 1..n /\ \A k \in 1..n : Picked(s, indices)[k] = s[at[k]]
  BY <1>2, <1>3
<1>. QED
  <2>1. \A k \in 1..n : at[k] \in indices /\ Picked(s, indices)[k] = s[at[k]]
    BY <1>2, <1>4
  <2>2. \A i \in indices : \E k \in 1..n : Picked(s, indices)[k] = s[i]
    BY <1>2, <2>1
  <2>3. \A k \in 1..n : \E i \in indices : Picked(s, indices)[k] = s[i]
    BY <2>1
  <2>. QED
    BY <1>2, <1>4, <2>2, <2>3 DEF n, ElementsAt

\* Each index is picked once.
THEOREM PickedApart ==
    ASSUME NEW s, NEW indices, IsFiniteSet(indices), indices \subseteq Int
    PROVE  \A k, l \in DOMAIN Picked(s, indices) : k # l =>
             \E i, j \in indices : i # j /\ Picked(s, indices)[k] = s[i] /\ Picked(s, indices)[l] = s[j]
<1> DEFINE up == {p \in indices \X indices : p[1] < p[2]}
           at == Listed(indices, up)
           n == Cardinality(indices)
<1>1. \A x, y \in indices : <<x, y>> \in up <=> x < y
  OBVIOUS
<1>2. Orders(indices, up)
  <2>1. \A x \in indices : x \in Int
    OBVIOUS
  <2> HIDE DEF up
  <2>. QED
    BY <1>1, <2>1 DEF Orders
<1>3. /\ n \in Nat /\ at \in [1..n -> indices]
      /\ \A i, j \in 1..n : i < j => <<at[i], at[j]>> \in up
  <2> HIDE DEF up
  <2>. QED BY <1>2, ListedInOrder
<1>4. Picked(s, indices) = [k \in DOMAIN at |-> s[at[k]]]
  BY DEF Picked
<1> HIDE DEF at, n
<1>5. \A i, j \in 1..n : i < j => at[i] < at[j]
  <2> HIDE DEF up
  <2>. QED BY <1>1, <1>3
<1>6. \A i, j \in 1..n : i # j => at[i] # at[j]
  <2>1. \A i \in 1..n : at[i] \in Int
    BY <1>3
  <2>2. \A i, j \in 1..n : i # j => i < j \/ j < i
    BY <1>3
  <2>. QED
    BY <1>5, <2>1, <2>2
<1>7. DOMAIN Picked(s, indices) = 1..n /\ \A k \in 1..n : Picked(s, indices)[k] = s[at[k]]
  BY <1>3, <1>4
<1> SUFFICES ASSUME NEW k \in 1..n, NEW l \in 1..n, k # l
             PROVE  \E i, j \in indices : i # j /\ Picked(s, indices)[k] = s[i] /\ Picked(s, indices)[l] = s[j]
  BY <1>7
<1>8. at[k] \in indices /\ at[l] \in indices /\ at[k] # at[l]
  BY <1>3, <1>6
<1>. QED
  BY <1>7, <1>8
=============================================================================
