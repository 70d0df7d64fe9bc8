-------------------------- MODULE MinorSumTheorems --------------------------
(***************************************************************************)
(* What SumMinor returns for every finite table: the laws of SUM that the  *)
(* proofs about the ledger use.                                            *)
(***************************************************************************)
EXTENDS MinorSums, FiniteSetTheorems, TLAPS

\* The units of a finite table of natural numbers are finitely many.
LEMMA UnitsFinite ==
    ASSUME NEW S, IsFiniteSet(S), NEW f \in [S -> Nat]
    PROVE  IsFiniteSet(Units(f))
<1> DEFINE g == [s \in S |-> {s} \X (1 .. f[s])]
           T == {{s} \X (1 .. f[s]) : s \in S}
<1>1. g \in Surjection(S, T)
  BY DEF Surjection
<1>2. IsFiniteSet(T)
  BY <1>1, FS_Surjection, Zenon
<1>3. ASSUME NEW U \in T PROVE IsFiniteSet(U)
  <2>1. PICK s \in S : U = {s} \X (1 .. f[s])
    BY <1>3
  <2>2. IsFiniteSet({s})
    BY FS_Singleton
  <2>3. f[s] \in Int
    OBVIOUS
  <2>4. IsFiniteSet(1 .. f[s])
    BY <2>3, FS_Interval
  <2> QED
    BY <2>1, <2>2, <2>4, FS_Product
<1>4. Units(f) = UNION T
  BY DEF Units
<1> QED
  BY <1>2, <1>3, <1>4, FS_UNION

\* A sum is a natural number.
LEMMA SumMinorType ==
    ASSUME NEW S, IsFiniteSet(S), NEW f \in [S -> Nat]
    PROVE  SumMinor(f) \in Nat
BY UnitsFinite, FS_CardinalityType DEF SumMinor

\* A table of zeros, an empty one in particular, sums to 0.
LEMMA SumMinorZero ==
    ASSUME NEW S, NEW f \in [S -> Nat], \A s \in S : f[s] = 0
    PROVE  SumMinor(f) = 0
<1>1. Units(f) = {}
  BY DEF Units
<1> QED
  BY <1>1, FS_EmptySet DEF SumMinor

\* A new row adds its value.
LEMMA SumMinorAdd ==
    ASSUME NEW S, IsFiniteSet(S), NEW f \in [S -> Nat],
           NEW x, x \notin S, NEW n \in Nat,
           NEW g \in [S \cup {x} -> Nat],
           g[x] = n, \A s \in S : g[s] = f[s]
    PROVE  SumMinor(g) = SumMinor(f) + n
<1> DEFINE new == {x} \X (1 .. n)
<1>1. Units(g) = Units(f) \cup new
  BY DEF Units
<1>2. Units(f) \cap new = {}
  BY DEF Units
<1>3. IsFiniteSet(new) /\ Cardinality(new) = n
  <2>1. IsFiniteSet({x}) /\ Cardinality({x}) = 1
    BY FS_Singleton
  <2>2. IsFiniteSet(1 .. n) /\ Cardinality(1 .. n) = n
    BY FS_Interval
  <2>3. IsFiniteSet(new) /\ Cardinality(new) = Cardinality({x}) * Cardinality(1 .. n)
    BY <2>1, <2>2, FS_Product, Zenon
  <2> QED
    BY <2>1, <2>2, <2>3
<1>4. IsFiniteSet(Units(f))
  BY UnitsFinite
<1>5. Cardinality(Units(f) \cup new)
        = Cardinality(Units(f)) + Cardinality(new) - Cardinality(Units(f) \cap new)
  BY <1>3, <1>4, FS_Union
<1>6. Cardinality(Units(f) \cap new) = 0
  BY <1>2, FS_EmptySet
<1>7. Cardinality(Units(f)) \in Nat
  BY <1>4, FS_CardinalityType
<1> QED
  BY <1>1, <1>3, <1>5, <1>6, <1>7 DEF SumMinor

\* Changing one row changes the sum by the same difference.
LEMMA SumMinorUpdate ==
    ASSUME NEW S, IsFiniteSet(S), NEW f \in [S -> Nat], NEW g \in [S -> Nat],
           NEW x \in S, \A s \in S \ {x} : g[s] = f[s]
    PROVE  SumMinor(g) + f[x] = SumMinor(f) + g[x]
<1> DEFINE R == S \ {x}
           h == [s \in R |-> f[s]]
<1>1. IsFiniteSet(R)
  BY FS_Difference
<1>2. S = R \cup {x} /\ x \notin R
  OBVIOUS
<1>3. h \in [R -> Nat]
  OBVIOUS
<1>4. f \in [R \cup {x} -> Nat] /\ g \in [R \cup {x} -> Nat]
  BY <1>2
<1>5. (\A s \in R : f[s] = h[s]) /\ (\A s \in R : g[s] = h[s])
  OBVIOUS
<1>6. f[x] \in Nat /\ g[x] \in Nat
  OBVIOUS
<1> HIDE DEF R, h
<1>7. SumMinor(f) = SumMinor(h) + f[x]
  BY <1>1, <1>2, <1>3, <1>4, <1>5, <1>6, SumMinorAdd
<1>8. SumMinor(g) = SumMinor(h) + g[x]
  BY <1>1, <1>2, <1>3, <1>4, <1>5, <1>6, SumMinorAdd
<1>9. SumMinor(h) \in Nat
  BY <1>1, <1>3, SumMinorType
<1> QED
  BY <1>6, <1>7, <1>8, <1>9

\* A sum of smaller rows is smaller, and equal only if every row is equal.
LEMMA SumMinorMonotone ==
    ASSUME NEW S, IsFiniteSet(S), NEW f \in [S -> Nat], NEW g \in [S -> Nat],
           \A s \in S : f[s] <= g[s]
    PROVE  /\ SumMinor(f) <= SumMinor(g)
           /\ SumMinor(f) = SumMinor(g) => \A s \in S : f[s] = g[s]
<1>1. Units(f) \in SUBSET Units(g)
  BY DEF Units
<1>2. IsFiniteSet(Units(g))
  BY UnitsFinite
<1>3. SumMinor(f) <= SumMinor(g)
  BY <1>1, <1>2, FS_Subset DEF SumMinor
<1>4. ASSUME SumMinor(f) = SumMinor(g), NEW s \in S
      PROVE  f[s] = g[s]
  <2>1. Units(f) = Units(g)
    BY <1>1, <1>2, <1>4, FS_Subset DEF SumMinor
  <2>2. CASE f[s] < g[s]
    <3>1. <<s, g[s]>> \in Units(g)
      BY <2>2 DEF Units
    <3>2. <<s, g[s]>> \notin Units(f)
      BY <2>2 DEF Units
    <3> QED
      BY <2>1, <3>1, <3>2
  <2> QED
    BY <2>2
<1> QED
  BY <1>3, <1>4

\* Every row is at most the sum.
LEMMA SumMinorCovers ==
    ASSUME NEW S, IsFiniteSet(S), NEW f \in [S -> Nat], NEW x \in S
    PROVE  f[x] <= SumMinor(f)
<1> DEFINE g == [f EXCEPT ![x] = 0]
<1>1. g \in [S -> Nat] /\ g[x] = 0 /\ \A s \in S \ {x} : g[s] = f[s]
  OBVIOUS
<1> HIDE DEF g
<1>2. SumMinor(g) + f[x] = SumMinor(f) + g[x]
  BY <1>1, SumMinorUpdate
<1>3. SumMinor(g) \in Nat /\ SumMinor(f) \in Nat
  BY <1>1, SumMinorType
<1> QED
  BY <1>1, <1>2, <1>3
=============================================================================
