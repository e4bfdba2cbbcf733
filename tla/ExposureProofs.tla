---------------------------- MODULE ExposureProofs ----------------------------
(***************************************************************************)
(* Proofs about the two modules that keep positions: ReduceOnly, for any   *)
(* operations, threads, instances, adapter answers and positions, and      *)
(* RiskGate, for any symbols, signals, sizes and limits.                   *)
(*                                                                         *)
(* Three parts: induction and sums; ReduceOnly; RiskGate.  Induction over  *)
(* the naturals and over finite sets is stated with sets in place of       *)
(* predicates, which the provers can instantiate.                          *)
(***************************************************************************)
EXTENDS ReduceOnly, RiskGate, FiniteSetTheorems, NaturalsInduction, WellFoundedInduction, TLAPS

\* Any nonempty set of naturals has a least element.
LEMMA LeastNatural ==
    ASSUME NEW S \in SUBSET Nat, S # {}
    PROVE  \E m \in S : \A n \in S : m <= n
<1> DEFINE R == OpToRel(<, Nat)
<1>1. IsWellFoundedOn(R, Nat)
  BY NatLessThanWellFounded, Zenon
<1>2. \A i, j \in Nat : i < j => <<i, j>> \in R
  BY DEF OpToRel
<1> HIDE DEF R
<1>3. PICK m \in S : \A n \in S : ~(<<n, m>> \in R)
  BY <1>1, WFMin
<1>4. m \in Nat /\ \A n \in S : n \in Nat
  OBVIOUS
<1>5. \A n \in S : ~(n < m)
  BY <1>2, <1>3, <1>4
<1>6. QED
  BY <1>4, <1>5

\* Induction over the naturals.
LEMMA Induction ==
    ASSUME NEW S, 0 \in S, \A n \in Nat : n \in S => n + 1 \in S
    PROVE  Nat \subseteq S
<1>1. SUFFICES ASSUME Nat \ S # {} PROVE FALSE
  OBVIOUS
<1>2. PICK m \in Nat \ S : \A n \in Nat \ S : m <= n
  BY <1>1, LeastNatural
<1>3. m # 0 /\ m - 1 \in Nat /\ m - 1 \in S
  BY <1>2
<1>4. QED
  BY <1>2, <1>3

-----------------------------------------------------------------------------
(* The defining equation of a sum.                                          *)

Pick(s) == CHOOSE x \in s : TRUE
SumOf(f, g, D) == [s \in D |-> IF s = {} THEN 0 ELSE f[Pick(s)] + g[s \ {Pick(s)}]]

IsSum(g, f, S) == g = SumOf(f, g, SUBSET S)

LEMMA PickIn == ASSUME NEW s, s # {} PROVE Pick(s) \in s
BY DEF Pick

LEMMA SumExists ==
    ASSUME NEW S, IsFiniteSet(S), NEW f
    PROVE  \E g : g = SumOf(f, g, SUBSET S)
<1> DEFINE D(n) == {s \in SUBSET S : Cardinality(s) <= n}
           G == {n \in Nat : \E g : g = SumOf(f, g, D(n))}
<1>1. \A T \in SUBSET S : IsFiniteSet(T) /\ Cardinality(T) \in Nat /\ Cardinality(T) <= Cardinality(S)
  BY FS_Subset, FS_CardinalityType
<1>2. 0 \in G
  <2>1. D(0) = {{}}
    BY <1>1, FS_EmptySet
  <2> DEFINE g == [s \in D(0) |-> 0]
  <2>2. g = SumOf(f, g, D(0))
    BY <2>1 DEF SumOf
  <2>3. QED
    BY <2>2
<1>3. ASSUME NEW n \in Nat, n \in G PROVE n + 1 \in G
  <2>1. PICK g : g = SumOf(f, g, D(n))
    BY <1>3
  <2> DEFINE h == SumOf(f, g, D(n + 1))
  <2>2. \A s \in D(n + 1) : s # {} => s \ {Pick(s)} \in D(n)
    <3>1. TAKE s \in D(n + 1)
    <3>2. HAVE s # {}
    <3>3. Pick(s) \in s
      BY <3>2, PickIn
    <3>4. Cardinality(s \ {Pick(s)}) = Cardinality(s) - 1
      BY <1>1, <3>3, FS_RemoveElement
    <3>5. QED
      BY <1>1, <3>4
  <2>3. \A s \in D(n) : s \in D(n + 1) /\ h[s] = g[s]
    <3>1. TAKE s \in D(n)
    <3>2. s \in D(n + 1)
      BY <1>1
    <3>3. g[s] = IF s = {} THEN 0 ELSE f[Pick(s)] + g[s \ {Pick(s)}]
      BY <2>1 DEF SumOf
    <3>4. h[s] = IF s = {} THEN 0 ELSE f[Pick(s)] + g[s \ {Pick(s)}]
      BY <3>2 DEF SumOf
    <3>5. QED
      BY <3>2, <3>3, <3>4
  <2>4. h = SumOf(f, h, D(n + 1))
    BY <2>2, <2>3 DEF SumOf
  <2>5. QED
    BY <2>4
<1>4. Cardinality(S) \in G
  <2> HIDE DEF G
  <2>1. QED
    BY <1>1, <1>2, <1>3, Induction
<1>5. D(Cardinality(S)) = SUBSET S
  BY <1>1
<1>6. QED
  BY <1>4, <1>5

SumFun(f, S) == CHOOSE g : g = SumOf(f, g, SUBSET S)

LEMMA SumByFun == \A f, S : SumFunctionOnSet(f, S) = SumFun(f, S)[S]
BY DEF SumFunctionOnSet, FoldFunctionOnSet, MapThenFoldSet, SumFun, SumOf, Pick

\* Induction over the subsets of a finite set.
LEMMA SubsetInduction ==
    ASSUME NEW S, IsFiniteSet(S), NEW C,
           \A T \in SUBSET S : (\A x \in T : T \ {x} \in C) => T \in C
    PROVE  \A T \in SUBSET S : T \in C
<1> DEFINE G == {n \in Nat : \A T \in SUBSET S : Cardinality(T) = n => T \in C}
<1>1. \A T \in SUBSET S : IsFiniteSet(T) /\ Cardinality(T) \in Nat
  BY FS_Subset, FS_CardinalityType
<1>2. 0 \in G
  BY <1>1, FS_EmptySet
<1>3. ASSUME NEW n \in Nat, n \in G PROVE n + 1 \in G
  <2>1. SUFFICES ASSUME NEW T \in SUBSET S, Cardinality(T) = n + 1 PROVE T \in C
    OBVIOUS
  <2>2. SUFFICES ASSUME NEW x \in T PROVE T \ {x} \in C
    OBVIOUS
  <2>3. Cardinality(T \ {x}) = Cardinality(T) - 1
    BY <1>1, <2>2, FS_RemoveElement
  <2>4. Cardinality(T \ {x}) = n
    <3> HIDE DEF G
    <3>1. QED
      BY <2>1, <2>3
  <2>5. QED
    BY <2>4, <1>3
<1> HIDE DEF G
<1>4. Nat \subseteq G
  BY <1>2, <1>3, Induction
<1>5. QED
  BY <1>1, <1>4 DEF G

\* Two functions that satisfy the equation agree where both are defined.
LEMMA SumUnique ==
    ASSUME NEW S, IsFiniteSet(S), NEW T \in SUBSET S, NEW f, NEW g, NEW h,
           IsSum(g, f, S), IsSum(h, f, T)
    PROVE  \A s \in SUBSET T : g[s] = h[s]
<1> DEFINE C == {s \in SUBSET T : g[s] = h[s]}
<1>1. IsFiniteSet(T)
  BY FS_Subset
<1>2. ASSUME NEW s \in SUBSET T, \A x \in s : s \ {x} \in C PROVE s \in C
  <2>1. g[s] = IF s = {} THEN 0 ELSE f[Pick(s)] + g[s \ {Pick(s)}]
    BY DEF SumOf, IsSum
  <2>2. h[s] = IF s = {} THEN 0 ELSE f[Pick(s)] + h[s \ {Pick(s)}]
    BY DEF SumOf, IsSum
  <2>3. s # {} => s \ {Pick(s)} \in C
    BY <1>2, PickIn
  <2>4. QED
    BY <2>1, <2>2, <2>3
<1>3. \A s \in SUBSET T : s \in C
  <2> HIDE DEF C
  <2>1. QED
    BY <1>1, <1>2, SubsetInduction
<1>4. QED
  BY <1>3

\* The sum over nothing is 0; any other is an element and the rest.
LEMMA SumUnfold ==
    ASSUME NEW S, IsFiniteSet(S), NEW f
    PROVE  /\ S = {} => SumFunctionOnSet(f, S) = 0
           /\ S # {} => SumFunctionOnSet(f, S) = f[Pick(S)] + SumFunctionOnSet(f, S \ {Pick(S)})
<1>1. PICK T : T = S \ {Pick(S)}
  OBVIOUS
<1>2. IsFiniteSet(T) /\ T \in SUBSET S
  BY <1>1, FS_Subset
<1>3. PICK g : g = SumFun(f, S)
  OBVIOUS
<1>4. PICK h : h = SumFun(f, T)
  OBVIOUS
<1>5. IsSum(g, f, S)
  BY <1>3, SumExists DEF SumFun, IsSum
<1>6. IsSum(h, f, T)
  BY <1>2, <1>4, SumExists DEF SumFun, IsSum
<1>7. \A s \in SUBSET T : g[s] = h[s]
  BY <1>2, <1>5, <1>6, SumUnique
<1>8. g[S] = IF S = {} THEN 0 ELSE f[Pick(S)] + g[T]
  BY <1>1, <1>5 DEF SumOf, IsSum
<1>9. QED
  BY <1>1, <1>3, <1>4, <1>7, <1>8, SumByFun

LEMMA SumEmpty == \A f : SumFunctionOnSet(f, {}) = 0
BY SumUnfold, FS_EmptySet

LEMMA SumType ==
    ASSUME NEW S, IsFiniteSet(S), NEW f, \A x \in S : f[x] \in Int
    PROVE  SumFunctionOnSet(f, S) \in Int
<1> DEFINE C == {T \in SUBSET S : SumFunctionOnSet(f, T) \in Int}
<1>1. ASSUME NEW T \in SUBSET S, \A x \in T : T \ {x} \in C PROVE T \in C
  <2>1. IsFiniteSet(T)
    BY FS_Subset
  <2>2. CASE T = {}
    BY <2>1, <2>2, SumUnfold
  <2>3. CASE T # {}
    <3>1. Pick(T) \in T
      BY <2>3, PickIn
    <3>2. f[Pick(T)] \in Int /\ SumFunctionOnSet(f, T \ {Pick(T)}) \in Int
      BY <1>1, <3>1
    <3>3. SumFunctionOnSet(f, T) = f[Pick(T)] + SumFunctionOnSet(f, T \ {Pick(T)})
      BY <2>1, <2>3, SumUnfold
    <3>4. QED
      BY <3>2, <3>3
  <2>4. QED
    BY <2>2, <2>3
<1>2. \A T \in SUBSET S : T \in C
  <2> HIDE DEF C
  <2>1. QED
    BY <1>1, SubsetInduction
<1>3. QED
  BY <1>2

\* Only the values on the set count.
LEMMA SumSame ==
    ASSUME NEW S, IsFiniteSet(S), NEW f, NEW g, \A x \in S : f[x] = g[x]
    PROVE  SumFunctionOnSet(f, S) = SumFunctionOnSet(g, S)
<1> DEFINE C == {T \in SUBSET S : SumFunctionOnSet(f, T) = SumFunctionOnSet(g, T)}
<1>1. ASSUME NEW T \in SUBSET S, \A x \in T : T \ {x} \in C PROVE T \in C
  <2>1. IsFiniteSet(T)
    BY FS_Subset
  <2>2. CASE T = {}
    BY <2>1, <2>2, SumUnfold
  <2>3. CASE T # {}
    <3>1. Pick(T) \in T
      BY <2>3, PickIn
    <3>2. f[Pick(T)] = g[Pick(T)] /\ T \ {Pick(T)} \in C
      BY <1>1, <3>1
    <3>3. SumFunctionOnSet(f, T) = f[Pick(T)] + SumFunctionOnSet(f, T \ {Pick(T)})
      BY <2>1, <2>3, SumUnfold
    <3>4. SumFunctionOnSet(g, T) = g[Pick(T)] + SumFunctionOnSet(g, T \ {Pick(T)})
      BY <2>1, <2>3, SumUnfold
    <3>5. QED
      BY <3>2, <3>3, <3>4
  <2>4. QED
    BY <2>2, <2>3
<1>2. \A T \in SUBSET S : T \in C
  <2> HIDE DEF C
  <2>1. QED
    BY <1>1, SubsetInduction
<1>3. QED
  BY <1>2

\* Any element may be taken out first.
LEMMA SumRemove ==
    ASSUME NEW S, IsFiniteSet(S), NEW f, \A x \in S : f[x] \in Int, NEW e \in S
    PROVE  SumFunctionOnSet(f, S) = f[e] + SumFunctionOnSet(f, S \ {e})
<1> DEFINE M(T) == SumFunctionOnSet(f, T)
           C == {T \in SUBSET S : \A x \in T : M(T) = f[x] + M(T \ {x})}
<1>0. \A T \in SUBSET S : IsFiniteSet(T) /\ M(T) \in Int
  BY FS_Subset, SumType
<1>1. ASSUME NEW T \in SUBSET S, \A x \in T : T \ {x} \in C PROVE T \in C
  <2>1. SUFFICES ASSUME NEW x \in T PROVE M(T) = f[x] + M(T \ {x})
    OBVIOUS
  <2> DEFINE y == Pick(T)
  <2>2. y \in T
    BY <2>1, PickIn
  <2>3. M(T) = f[y] + M(T \ {y})
    BY <1>0, <2>1, SumUnfold
  <2> HIDE DEF y
  <2>4. CASE x = y
    BY <2>3, <2>4
  <2>5. CASE x # y
    <3>1. M(T \ {y}) = f[x] + M((T \ {y}) \ {x})
      BY <1>1, <2>2, <2>5
    <3>2. M(T \ {x}) = f[y] + M((T \ {x}) \ {y})
      BY <1>1, <2>2, <2>5
    <3>3. M((T \ {x}) \ {y}) = M((T \ {y}) \ {x})
      <4>1. (T \ {x}) \ {y} = (T \ {y}) \ {x}
        OBVIOUS
      <4> HIDE DEF M
      <4>2. QED
        BY <4>1, Zenon
    <3>4. f[x] \in Int /\ f[y] \in Int /\ M((T \ {x}) \ {y}) \in Int
      BY <1>0, <2>2
    <3> DEFINE k == M((T \ {x}) \ {y})
               l == M((T \ {y}) \ {x})
    <3>5. f[y] + (f[x] + k) = f[x] + (f[y] + k)
      BY <3>4
    <3>6. k = l
      BY <3>3
    <3> HIDE DEF k, l
    <3>7. M(T) = f[y] + (f[x] + l) /\ M(T \ {x}) = f[y] + k
      BY <2>3, <3>1, <3>2 DEF k, l
    <3>8. QED
      BY <3>5, <3>6, <3>7
  <2>6. QED
    BY <2>4, <2>5
<1>2. \A T \in SUBSET S : T \in C
  <2> HIDE DEF C
  <2>1. QED
    BY <1>1, SubsetInduction
<1>3. QED
  BY <1>2

\* One element changed: the sum moves by as much.
LEMMA SumChange ==
    ASSUME NEW S, IsFiniteSet(S), NEW f, NEW g, NEW e \in S,
           \A x \in S : f[x] \in Int /\ g[x] \in Int,
           \A x \in S \ {e} : f[x] = g[x]
    PROVE  SumFunctionOnSet(g, S) = SumFunctionOnSet(f, S) + g[e] - f[e]
<1>1. IsFiniteSet(S \ {e})
  BY FS_Subset
<1>2. SumFunctionOnSet(f, S) = f[e] + SumFunctionOnSet(f, S \ {e})
  BY SumRemove
<1>3. SumFunctionOnSet(g, S) = g[e] + SumFunctionOnSet(g, S \ {e})
  BY SumRemove
<1>4. SumFunctionOnSet(f, S \ {e}) = SumFunctionOnSet(g, S \ {e})
  BY <1>1, SumSame
<1>5. SumFunctionOnSet(f, S \ {e}) \in Int
  BY <1>1, SumType
<1>6. QED
  BY <1>2, <1>3, <1>4, <1>5

LEMMA SumZero ==
    ASSUME NEW S, IsFiniteSet(S), NEW f, \A x \in S : f[x] = 0
    PROVE  SumFunctionOnSet(f, S) = 0
<1> DEFINE C == {T \in SUBSET S : SumFunctionOnSet(f, T) = 0}
<1>1. ASSUME NEW T \in SUBSET S, \A x \in T : T \ {x} \in C PROVE T \in C
  <2>1. IsFiniteSet(T)
    BY FS_Subset
  <2>2. T # {} => Pick(T) \in T
    BY PickIn
  <2>3. T # {} => f[Pick(T)] = 0 /\ SumFunctionOnSet(f, T \ {Pick(T)}) = 0
    BY <1>1, <2>2
  <2>4. T = {} => SumFunctionOnSet(f, T) = 0
    BY SumEmpty
  <2>5. T # {} => SumFunctionOnSet(f, T) = 0
    BY <2>1, <2>3, SumUnfold
  <2>6. QED
    BY <2>4, <2>5
<1>2. \A T \in SUBSET S : T \in C
  <2> HIDE DEF C
  <2>1. QED
    BY <1>1, SubsetInduction
<1>3. QED
  BY <1>2

-----------------------------------------------------------------------------
(* Sums over the indices of a sequence, and of magnitudes.                  *)

\* One more term at the end.
LEMMA SumLast ==
    ASSUME NEW n \in Nat, NEW f, NEW g, \A i \in 1..n : f[i] \in Int /\ g[i] = f[i],
           g[n + 1] \in Int
    PROVE  SumFunctionOnSet(g, 1..(n + 1)) = SumFunctionOnSet(f, 1..n) + g[n + 1]
<1>1. IsFiniteSet(1..n) /\ IsFiniteSet(1..(n + 1))
  BY FS_Interval
<1>2. (1..(n + 1)) \ {n + 1} = 1..n
  OBVIOUS
<1>3. \A i \in 1..(n + 1) : g[i] \in Int
  <2>1. TAKE i \in 1..(n + 1)
  <2>2. i \in 1..n \/ i = n + 1
    OBVIOUS
  <2>3. QED
    BY <2>2
<1>4. n + 1 \in 1..(n + 1)
  OBVIOUS
<1>5. SumFunctionOnSet(g, 1..(n + 1)) = g[n + 1] + SumFunctionOnSet(g, (1..(n + 1)) \ {n + 1})
  BY <1>1, <1>3, <1>4, SumRemove
<1>6. SumFunctionOnSet(g, 1..n) = SumFunctionOnSet(f, 1..n) /\ SumFunctionOnSet(f, 1..n) \in Int
  BY <1>1, SumSame, SumType
<1>7. SumFunctionOnSet(g, 1..(n + 1)) = g[n + 1] + SumFunctionOnSet(f, 1..n)
  BY <1>2, <1>5, <1>6
<1>8. QED
  BY <1>6, <1>7

\* The first term taken off, and the rest moved up.
LEMMA SumFirst ==
    ASSUME NEW m \in Nat, NEW f, NEW g, \A i \in 1..(m + 1) : f[i] \in Int,
           \A i \in 1..m : g[i] = f[i + 1]
    PROVE  SumFunctionOnSet(f, 1..(m + 1)) = f[1] + SumFunctionOnSet(g, 1..m)
<1> DEFINE F(n) == SumFunctionOnSet(f, 1..n)
           G(n) == SumFunctionOnSet(g, 1..n)
           C == {n \in Nat : n <= m => F(n + 1) = f[1] + G(n)}
<1>1. 0 \in C
  <2>1. F(1) = F(0) + f[1]
    <3>1. \A i \in 1..0 : f[i] \in Int /\ f[i] = f[i]
      OBVIOUS
    <3>2. f[0 + 1] \in Int
      OBVIOUS
    <3>3. SumFunctionOnSet(f, 1..(0 + 1)) = SumFunctionOnSet(f, 1..0) + f[0 + 1]
      BY <3>1, <3>2, SumLast
    <3>4. QED
      BY <3>3
  <2>2. F(0) = 0 /\ G(0) = 0
    <3>1. 1..0 = {}
      OBVIOUS
    <3>2. QED
      BY <3>1, SumEmpty
  <2>3. f[1] \in Int
    OBVIOUS
  <2>4. F(0 + 1) = f[1] + G(0)
    BY <2>1, <2>2, <2>3
  <2>5. QED
    BY <2>4
<1>2. ASSUME NEW n \in Nat, n \in C PROVE n + 1 \in C
  <2>1. SUFFICES ASSUME n + 1 <= m PROVE F((n + 1) + 1) = f[1] + G(n + 1)
    OBVIOUS
  <2>2. \A i \in 1..(n + 1) : f[i] \in Int /\ f[i] = f[i]
    BY <2>1
  <2>3. f[(n + 1) + 1] \in Int
    BY <2>1
  <2>4. n + 1 \in Nat
    OBVIOUS
  <2>5. F((n + 1) + 1) = F(n + 1) + f[(n + 1) + 1]
    BY <2>2, <2>3, <2>4, SumLast
  <2>6. \A i \in 1..n : g[i] \in Int /\ g[i] = g[i]
    BY <2>1
  <2>7. g[n + 1] = f[(n + 1) + 1]
    BY <2>1
  <2>8. G(n + 1) = G(n) + g[n + 1]
    BY <2>3, <2>6, <2>7, SumLast
  <2>9. F(n + 1) = f[1] + G(n)
    BY <1>2, <2>1
  <2>10. IsFiniteSet(1..n)
    BY FS_Interval
  <2>11. G(n) \in Int /\ f[1] \in Int
    BY <2>1, <2>6, <2>10, SumType
  <2>12. F((n + 1) + 1) = (f[1] + G(n)) + g[n + 1] /\ G(n + 1) = G(n) + g[n + 1]
    BY <2>5, <2>7, <2>8, <2>9
  <2> HIDE DEF F, G
  <2>13. QED
    BY <2>3, <2>7, <2>11, <2>12
<1> HIDE DEF C
<1>3. m \in C
  BY <1>1, <1>2, Induction
<1>4. QED
  BY <1>3 DEF C

\* Termwise comparison.
LEMMA SumLeq ==
    ASSUME NEW S, IsFiniteSet(S), NEW f, NEW g,
           \A x \in S : f[x] \in Int /\ g[x] \in Int /\ f[x] <= g[x]
    PROVE  SumFunctionOnSet(f, S) <= SumFunctionOnSet(g, S)
<1> DEFINE F(T) == SumFunctionOnSet(f, T)
           G(T) == SumFunctionOnSet(g, T)
           C == {T \in SUBSET S : F(T) <= G(T)}
<1>0. \A T \in SUBSET S : IsFiniteSet(T) /\ F(T) \in Int /\ G(T) \in Int
  BY FS_Subset, SumType
<1>1. ASSUME NEW T \in SUBSET S, \A x \in T : T \ {x} \in C PROVE T \in C
  <2>1. CASE T = {}
    BY <2>1, SumEmpty
  <2>2. CASE T # {}
    <3>1. PICK x : x \in T
      BY <2>2
    <3>2. F(T) = f[x] + F(T \ {x}) /\ G(T) = g[x] + G(T \ {x})
      BY <1>0, <3>1, SumRemove
    <3>3. F(T \ {x}) <= G(T \ {x})
      BY <1>1, <3>1
    <3>4. F(T \ {x}) \in Int /\ G(T \ {x}) \in Int /\ f[x] \in Int /\ g[x] \in Int /\ f[x] <= g[x]
      BY <1>0, <3>1
    <3> HIDE DEF F, G
    <3>5. F(T) <= G(T)
      BY <3>2, <3>3, <3>4
    <3>6. QED
      BY <3>5
  <2>3. QED
    BY <2>1, <2>2
<1>2. \A T \in SUBSET S : T \in C
  <2> HIDE DEF C
  <2>1. QED
    BY <1>1, SubsetInduction
<1>3. QED
  BY <1>2

\* The sum of termwise sums.
LEMMA SumPlus ==
    ASSUME NEW S, IsFiniteSet(S), NEW f, NEW g, NEW h,
           \A x \in S : f[x] \in Int /\ g[x] \in Int /\ h[x] = f[x] + g[x]
    PROVE  SumFunctionOnSet(h, S) = SumFunctionOnSet(f, S) + SumFunctionOnSet(g, S)
<1> DEFINE F(T) == SumFunctionOnSet(f, T)
           G(T) == SumFunctionOnSet(g, T)
           H(T) == SumFunctionOnSet(h, T)
           C == {T \in SUBSET S : H(T) = F(T) + G(T)}
<1>0. \A T \in SUBSET S : IsFiniteSet(T) /\ F(T) \in Int /\ G(T) \in Int
  BY FS_Subset, SumType
<1>1. ASSUME NEW T \in SUBSET S, \A x \in T : T \ {x} \in C PROVE T \in C
  <2>1. CASE T = {}
    BY <2>1, SumEmpty
  <2>2. CASE T # {}
    <3>1. PICK x : x \in T
      BY <2>2
    <3>2. F(T) = f[x] + F(T \ {x}) /\ G(T) = g[x] + G(T \ {x})
      BY <1>0, <3>1, SumRemove
    <3>3. H(T) = h[x] + H(T \ {x})
      <4>1. \A z \in T : h[z] \in Int
        OBVIOUS
      <4>2. QED
        BY <1>0, <3>1, <4>1, SumRemove
    <3>4. H(T \ {x}) = F(T \ {x}) + G(T \ {x})
      BY <1>1, <3>1
    <3>5. F(T \ {x}) \in Int /\ G(T \ {x}) \in Int /\ f[x] \in Int /\ g[x] \in Int /\ h[x] = f[x] + g[x]
      BY <1>0, <3>1
    <3> HIDE DEF F, G, H
    <3>6. H(T) = F(T) + G(T)
      BY <3>2, <3>3, <3>4, <3>5
    <3>7. QED
      BY <3>6
  <2>3. QED
    BY <2>1, <2>2
<1>2. \A T \in SUBSET S : T \in C
  <2> HIDE DEF C
  <2>1. QED
    BY <1>1, SubsetInduction
<1>3. QED
  BY <1>2

\* A finite set of naturals has a greatest element.
LEMMA GreatestNatural ==
    ASSUME NEW S \in SUBSET Nat, IsFiniteSet(S), S # {}
    PROVE  \E m \in S : \A n \in S : m >= n
<1> DEFINE C == {T \in SUBSET S : T # {} => \E m \in T : \A n \in T : m >= n}
<1>1. ASSUME NEW T \in SUBSET S, \A x \in T : T \ {x} \in C PROVE T \in C
  <2>1. SUFFICES ASSUME T # {} PROVE \E m \in T : \A n \in T : m >= n
    OBVIOUS
  <2>2. PICK x : x \in T
    BY <2>1
  <2>3. CASE T \ {x} = {}
    BY <2>2, <2>3
  <2>4. CASE T \ {x} # {}
    <3>1. PICK m \in T \ {x} : \A n \in T \ {x} : m >= n
      BY <1>1, <2>2, <2>4
    <3>2. CASE x >= m
      BY <2>2, <3>1, <3>2
    <3>3. CASE ~(x >= m)
      BY <2>2, <3>1, <3>3
    <3>4. QED
      BY <3>2, <3>3
  <2>5. QED
    BY <2>3, <2>4
<1>2. \A T \in SUBSET S : T \in C
  <2> HIDE DEF C
  <2>1. QED
    BY <1>1, SubsetInduction
<1>3. QED
  BY <1>2

-----------------------------------------------------------------------------
(* The weight of a sequence: the sum of the weights of its elements.        *)

Weigh(w, q) == SumFunctionOnSet([i \in DOMAIN q |-> w[q[i]]], DOMAIN q)

LEMMA WeighType ==
    ASSUME NEW S, NEW w \in [S -> Int], NEW q \in Seq(S)
    PROVE  Weigh(w, q) \in Int
<1> DEFINE f == [i \in DOMAIN q |-> w[q[i]]]
<1>1. \A i \in DOMAIN q : f[i] \in Int
  OBVIOUS
<1>2. IsFiniteSet(DOMAIN q)
  <2>1. DOMAIN q = 1..Len(q) /\ Len(q) \in Nat
    OBVIOUS
  <2>2. QED
    BY <2>1, FS_Interval
<1> HIDE DEF f
<1>3. SumFunctionOnSet(f, DOMAIN q) \in Int
  BY <1>1, <1>2, SumType
<1>4. QED
  BY <1>3 DEF f, Weigh

LEMMA WeighEmpty == \A w : Weigh(w, <<>>) = 0
<1>1. DOMAIN << >> = {}
  OBVIOUS
<1>2. QED
  BY <1>1, SumEmpty DEF Weigh

LEMMA WeighSame ==
    ASSUME NEW S, NEW q \in Seq(S), NEW v, NEW w, \A i \in DOMAIN q : v[q[i]] = w[q[i]]
    PROVE  Weigh(v, q) = Weigh(w, q)
BY DEF Weigh

LEMMA WeighAppend ==
    ASSUME NEW S, NEW w \in [S -> Int], NEW q \in Seq(S), NEW e \in S
    PROVE  Weigh(w, Append(q, e)) = Weigh(w, q) + w[e]
<1> DEFINE p == Append(q, e)
           f == [i \in DOMAIN q |-> w[q[i]]]
           g == [i \in DOMAIN p |-> w[p[i]]]
           n == Len(q)
<1>1. n \in Nat /\ DOMAIN q = 1..n /\ DOMAIN p = 1..(n + 1)
  OBVIOUS
<1>2. \A i \in 1..n : f[i] \in Int /\ g[i] = f[i]
  BY <1>1
<1>3. g[n + 1] = w[e] /\ g[n + 1] \in Int
  BY <1>1
<1>4. Weigh(w, p) = SumFunctionOnSet(g, 1..(n + 1)) /\ Weigh(w, q) = SumFunctionOnSet(f, 1..n)
  BY <1>1 DEF Weigh
<1> HIDE DEF p, f, g, n
<1>5. SumFunctionOnSet(g, 1..(n + 1)) = SumFunctionOnSet(f, 1..n) + g[n + 1]
  BY <1>1, <1>2, <1>3, SumLast
<1>6. QED
  BY <1>3, <1>4, <1>5 DEF p

LEMMA WeighTail ==
    ASSUME NEW S, NEW w \in [S -> Int], NEW q \in Seq(S), q # <<>>
    PROVE  Weigh(w, q) = w[Head(q)] + Weigh(w, Tail(q))
<1> DEFINE p == Tail(q)
           f == [i \in DOMAIN q |-> w[q[i]]]
           g == [i \in DOMAIN p |-> w[p[i]]]
           m == Len(q) - 1
<1>1. m \in Nat /\ DOMAIN q = 1..(m + 1) /\ DOMAIN p = 1..m
  OBVIOUS
<1>2. \A i \in 1..(m + 1) : f[i] \in Int
  BY <1>1
<1>3. \A i \in 1..m : g[i] = f[i + 1]
  BY <1>1
<1>4. f[1] = w[Head(q)]
  OBVIOUS
<1>5. Weigh(w, q) = SumFunctionOnSet(f, 1..(m + 1)) /\ Weigh(w, p) = SumFunctionOnSet(g, 1..m)
  BY <1>1 DEF Weigh
<1> HIDE DEF p, f, g, m
<1>6. SumFunctionOnSet(f, 1..(m + 1)) = f[1] + SumFunctionOnSet(g, 1..m)
  BY <1>1, <1>2, <1>3, SumFirst
<1>7. QED
  BY <1>4, <1>5, <1>6 DEF p

LEMMA WeighLeq ==
    ASSUME NEW S, NEW v \in [S -> Int], NEW w \in [S -> Int], NEW q \in Seq(S),
           \A i \in DOMAIN q : v[q[i]] <= w[q[i]]
    PROVE  Weigh(v, q) <= Weigh(w, q)
<1> DEFINE f == [i \in DOMAIN q |-> v[q[i]]]
           g == [i \in DOMAIN q |-> w[q[i]]]
<1>1. \A i \in DOMAIN q : f[i] \in Int /\ g[i] \in Int /\ f[i] <= g[i]
  OBVIOUS
<1>2. IsFiniteSet(DOMAIN q)
  <2>1. DOMAIN q = 1..Len(q) /\ Len(q) \in Nat
    OBVIOUS
  <2>2. QED
    BY <2>1, FS_Interval
<1> HIDE DEF f, g
<1>3. SumFunctionOnSet(f, DOMAIN q) <= SumFunctionOnSet(g, DOMAIN q)
  BY <1>1, <1>2, SumLeq
<1>4. QED
  BY <1>3 DEF f, g, Weigh

\* Weights that are nowhere negative add up to nothing negative.
LEMMA WeighNat ==
    ASSUME NEW S, NEW w \in [S -> Int], NEW q \in Seq(S), \A i \in DOMAIN q : w[q[i]] >= 0
    PROVE  Weigh(w, q) >= 0
<1> DEFINE z == [e \in S |-> 0]
<1>1. z \in [S -> Int] /\ \A i \in DOMAIN q : z[q[i]] <= w[q[i]]
  OBVIOUS
<1>2. Weigh(z, q) = 0
  <2> DEFINE f == [i \in DOMAIN q |-> z[q[i]]]
  <2>1. \A i \in DOMAIN q : f[i] = 0
    OBVIOUS
  <2>2. IsFiniteSet(DOMAIN q)
    <3>1. DOMAIN q = 1..Len(q) /\ Len(q) \in Nat
      OBVIOUS
    <3>2. QED
      BY <3>1, FS_Interval
  <2> HIDE DEF f
  <2>3. SumFunctionOnSet(f, DOMAIN q) = 0
    BY <2>1, <2>2, SumZero
  <2>4. QED
    BY <2>3 DEF f, Weigh
<1> HIDE DEF z
<1>3. Weigh(z, q) <= Weigh(w, q) /\ Weigh(w, q) \in Int
  BY <1>1, WeighLeq, WeighType
<1>4. QED
  BY <1>2, <1>3

-------------------------------------------------------------------------------
(* ReduceOnly.                                                              *)

\* Who is at work has an attempt in hand.
RiskBusy == \A t \in RiskThreads : rpc[t] # "idle" => job[t] \in Attempts
ExecBusy == \A e \in Executors : epc[e] # "idle" => work[e] \in Attempts
Busy == RiskBusy /\ ExecBusy

\* An instance past its bind owns the attempt: its row is bound and nobody
\* else works on it; before its adapter call nothing was submitted.
Owning == {"recheck", "submit", "finalize"}
Owns(e, a) == epc[e] \in Owning /\ work[e] = a
OwnedIsBound ==
    \A e \in Executors, a \in Attempts : Owns(e, a) =>
        row[a].status = "PREPARED" /\ row[a].reason = "ADAPTER_BOUND"
SoleOwner == \A e, f \in Executors, a \in Attempts : Owns(e, a) /\ Owns(f, a) => e = f
NotYetHanded ==
    \A e \in Executors, a \in Attempts :
        Owns(e, a) /\ epc[e] # "finalize" => handed[a] = 0
HandedIsBound ==
    \A a \in Attempts : handed[a] # 0 => row[a].status # "none" /\ ~Bindable(row[a])
Ownership == OwnedIsBound /\ SoleOwner /\ NotYetHanded /\ HandedIsBound
SubmitInv == TypeOK /\ Busy /\ OneActiveClaim /\ Ownership /\ AtMostOneSubmission

\* What the operators return.
LEMMA KeyTypes ==
    ASSUME NEW a \in Attempts
    PROVE  a[1] \in Ops /\ a[2] \in 1..MaxAttempts /\ QtyOf[a[1]] \in Nat
           /\ SideOf[a[1]] \in {"BUY", "SELL"}
BY ReduceOnlyAssumption DEF Attempts

LEMMA QuantityType ==
    ASSUME NEW p \in Int, NEW q \in Nat
    PROVE  SubmittedQuantity(p, q) \in Nat
BY DEF SubmittedQuantity, Least, Abs

Reasons == {"none", "READY", "DISPATCH_CLAIMED", "ADAPTER_BOUND",
            "REJECTED", "BLOCKED", "FILLED"}

LEMMA RowType ==
    ASSUME NEW s \in {"none", "PREPARED", "BLOCKED", "REJECTED", "FILLED", "PARTIALLY_FILLED"},
           NEW r \in Reasons, NEW b \in Int, NEW q \in Nat, NEW f \in Nat
    PROVE  /\ Row(s, r, b, q, f) \in Rows
           /\ Row(s, r, b, q, f).status = s /\ Row(s, r, b, q, f).reason = r
BY DEF Row, Rows, Success, Reasons

LEMMA ClaimType ==
    ASSUME position \in Int, NEW a \in Attempts,
           NEW r \in {"READY", "DISPATCH_CLAIMED", "ADAPTER_BOUND"}
    PROVE  /\ Claim(a, r) \in Rows
           /\ Claim(a, r).status = "PREPARED" /\ Claim(a, r).reason = r
<1> DEFINE q == SubmittedQuantity(position, QtyOf[a[1]])
<1>1. q \in Nat /\ position \in Int
  BY KeyTypes, QuantityType
<1>2. r \in Reasons
  BY DEF Reasons
<1> HIDE DEF q
<1>3. QED
  BY <1>1, <1>2, RowType DEF Claim, q

LEMMA NoRowType == NoRow \in Rows /\ NoRow.status = "none"
BY RowType DEF NoRow, Reasons

Outcomes == [status : {"BLOCKED", "REJECTED", "FILLED", "PARTIALLY_FILLED"},
             reason : {"REJECTED", "BLOCKED", "FILLED"}, filled : Nat, after : Int]

\* apply_reduce_only_result never enlarges or flips a position, whatever the
\* adapter answered.
LEMMA ApplyNeverIncreases ==
    ASSUME NEW p \in Int, NEW side \in {"BUY", "SELL"}, NEW q \in Nat,
           NEW x \in AnswerTypes
    PROVE  LET o == ApplyResult(p, side, q, x) IN
           o \in Outcomes /\ Abs(o.after) <= Abs(p) /\ p * o.after >= 0
<1>1. x.filled \in Nat
  BY DEF AnswerTypes
<1>2. p * p >= 0 /\ Abs(p) <= Abs(p)
  BY DEF Abs
<1> DEFINE after == IF side = "BUY" THEN p + x.filled ELSE p - x.filled
<1>3. CASE x.status = "REJECTED"
  BY <1>2, <1>3 DEF ApplyResult, Outcome, Outcomes
<1>4. CASE /\ x.status \in {"FILLED", "PARTIALLY_FILLED"}
           /\ FillPasses(p, side, q, x.filled)
  <2>1. after \in Int /\ Abs(after) <= Abs(p) /\ p * after >= 0
    BY <1>1, <1>4 DEF FillPasses
  <2>2. ApplyResult(p, side, q, x) =
          Outcome(IF x.filled < q THEN "PARTIALLY_FILLED" ELSE "FILLED", "FILLED", x.filled, after)
    BY <1>4 DEF ApplyResult
  <2> HIDE DEF after
  <2>3. QED
    BY <1>1, <2>1, <2>2 DEF Outcome, Outcomes
<1>5. CASE /\ x.status # "REJECTED"
           /\ ~(x.status \in {"FILLED", "PARTIALLY_FILLED"}
                /\ FillPasses(p, side, q, x.filled))
  <2>1. ApplyResult(p, side, q, x) = Outcome("BLOCKED", "BLOCKED", 0, p)
    BY <1>5 DEF ApplyResult
  <2>2. QED
    BY <1>2, <2>1 DEF Outcome, Outcomes
<1>6. QED
  BY <1>3, <1>4, <1>5

LEMMA AnswersType ==
    ASSUME NEW q \in Nat, NEW x \in Answers(q) PROVE x \in AnswerTypes
BY DEF Answers, AnswerTypes

\* The type invariant, part by part.
\* Risk and the channel.
LEMMA RiskTypeStep ==
    ASSUME TypeOK, Busy, [Next]_vars
    PROVE  RiskTypes' /\ RiskBusy'
<1> USE DEF TypeOK, Busy, RiskBusy, ExecBusy, RiskTypes, riskVars, execVars, tradeVars, venueVars
<1>1. ASSUME NEW t \in RiskThreads, NEW k \in Ops, Trigger(t, k)
      PROVE  RiskTypes' /\ RiskBusy'
  <2>1. PICK n \in Decided(k) : RiskGoto(t, "claim", <<k, n>>)
    BY <1>1 DEF Trigger
  <2>2. <<k, n>> \in Attempts
    BY DEF Decided, Attempts
  <2>3. QED
    BY <1>1, <2>1, <2>2 DEF Trigger, RiskGoto
<1>2. ASSUME NEW t \in RiskThreads, ClaimDispatch(t)
      PROVE  RiskTypes' /\ RiskBusy'
  BY <1>2 DEF ClaimDispatch, RiskGoto
<1>3. ASSUME NEW t \in RiskThreads, Send(t) PROVE RiskTypes' /\ RiskBusy'
  BY <1>3 DEF Send, RiskGoto
<1>4. ASSUME NEW t \in RiskThreads, RiskCrash(t) PROVE RiskTypes' /\ RiskBusy'
  BY <1>4 DEF RiskCrash, RiskGoto
<1>5. ASSUME NEW e \in Executors, NEW a \in Attempts, Receive(e, a)
      PROVE  RiskTypes' /\ RiskBusy'
  BY <1>5 DEF Receive, ExecGoto
<1>6. ASSUME NEW e \in Executors, Bind(e) PROVE RiskTypes' /\ RiskBusy'
  BY <1>6 DEF Bind, ExecGoto, ExecDone
<1>7. ASSUME NEW e \in Executors, Recheck(e) PROVE RiskTypes' /\ RiskBusy'
  BY <1>7 DEF Recheck, ExecGoto, ExecDone
<1>8. ASSUME NEW e \in Executors, Submit(e) PROVE RiskTypes' /\ RiskBusy'
  BY <1>8 DEF Submit, ExecGoto, ExecDone
<1>9. ASSUME NEW e \in Executors, Finalize(e) PROVE RiskTypes' /\ RiskBusy'
  BY <1>9 DEF Finalize, ExecDone, ExecGoto
<1>10. ASSUME NEW e \in Executors, ExecCrash(e) PROVE RiskTypes' /\ RiskBusy'
  BY <1>10 DEF ExecCrash, ExecDone, ExecGoto
<1>11. ASSUME NEW k \in Ops, PublishDirect(k) PROVE RiskTypes' /\ RiskBusy'
  <2>1. <<k, 1>> \in Attempts
    BY ReduceOnlyAssumption DEF Attempts
  <2>2. QED
    BY <1>11, <2>1 DEF PublishDirect
<1>12. CASE ToggleGate
  BY <1>12 DEF ToggleGate
<1>13. ASSUME NEW q \in Trades, TradeRead(q) PROVE RiskTypes' /\ RiskBusy'
  BY <1>13 DEF TradeRead
<1>14. CASE TradeWrite
  BY <1>14 DEF TradeWrite
<1>15. CASE UNCHANGED vars
  BY <1>15 DEF vars
<1>16. QED
  BY <1>1, <1>2, <1>3, <1>4, <1>5, <1>6, <1>7, <1>8, <1>9, <1>10, <1>11,
     <1>12, <1>13, <1>14, <1>15 DEF Next, RiskStep, ExecStep

\* Execution.
LEMMA ExecTypeStep ==
    ASSUME TypeOK, Busy, [Next]_vars
    PROVE  ExecTypes' /\ ExecBusy'
<1> USE DEF TypeOK, Busy, RiskBusy, ExecBusy, ExecTypes, riskVars, execVars, tradeVars, venueVars
<1>0. ASSUME NEW e \in Executors, ExecDone(e) PROVE ExecTypes' /\ ExecBusy'
  BY <1>0 DEF ExecDone, ExecGoto, NoAnswer, AnswerTypes
<1>1. ASSUME NEW t \in RiskThreads, NEW k \in Ops, Trigger(t, k)
      PROVE  ExecTypes' /\ ExecBusy'
  BY <1>1 DEF Trigger, RiskGoto
<1>2. ASSUME NEW t \in RiskThreads, ClaimDispatch(t)
      PROVE  ExecTypes' /\ ExecBusy'
  BY <1>2 DEF ClaimDispatch, RiskGoto
<1>3. ASSUME NEW t \in RiskThreads, Send(t) PROVE ExecTypes' /\ ExecBusy'
  BY <1>3 DEF Send, RiskGoto
<1>4. ASSUME NEW t \in RiskThreads, RiskCrash(t) PROVE ExecTypes' /\ ExecBusy'
  BY <1>4 DEF RiskCrash, RiskGoto
<1>5. ASSUME NEW e \in Executors, NEW a \in Attempts, Receive(e, a)
      PROVE  ExecTypes' /\ ExecBusy'
  BY <1>5 DEF Receive, ExecGoto, RiskTypes
<1>6. ASSUME NEW e \in Executors, Bind(e) PROVE ExecTypes' /\ ExecBusy'
  <2>1. work[e] \in Attempts
    BY <1>6 DEF Bind
  <2>2. ExecDone(e) \/ (ExecGoto(e, "recheck", work[e]) /\ UNCHANGED answer)
    BY <1>6 DEF Bind
  <2>3. CASE ExecGoto(e, "recheck", work[e]) /\ UNCHANGED answer
    BY <2>1, <2>3 DEF ExecGoto
  <2>4. QED
    BY <1>0, <2>2, <2>3
<1>7. ASSUME NEW e \in Executors, Recheck(e) PROVE ExecTypes' /\ ExecBusy'
  <2>1. work[e] \in Attempts
    BY <1>7 DEF Recheck
  <2>2. ExecDone(e) \/ (ExecGoto(e, "submit", work[e]) /\ UNCHANGED answer)
    BY <1>7 DEF Recheck
  <2>3. CASE ExecGoto(e, "submit", work[e]) /\ UNCHANGED answer
    BY <2>1, <2>3 DEF ExecGoto
  <2>4. QED
    BY <1>0, <2>2, <2>3
<1>8. ASSUME NEW e \in Executors, Submit(e) PROVE ExecTypes' /\ ExecBusy'
  <2>1. CASE ExecDone(e)
    BY <1>0, <2>1
  <2>2. ASSUME NEW x \in Answers(row[work[e]].submitted),
               answer' = [answer EXCEPT ![e] = x], ExecGoto(e, "finalize", work[e])
        PROVE  ExecTypes' /\ ExecBusy'
    <3>1. row[work[e]].submitted \in Nat
      BY <1>8 DEF Submit, TableTypes, Rows
    <3>2. x \in AnswerTypes
      BY <2>2, <3>1, AnswersType
    <3>3. QED
      BY <1>8, <2>2, <3>2 DEF Submit, ExecGoto
  <2>3. QED
    BY <1>8, <2>1, <2>2 DEF Submit
<1>9. ASSUME NEW e \in Executors, Finalize(e) PROVE ExecTypes' /\ ExecBusy'
  BY <1>0, <1>9 DEF Finalize
<1>10. ASSUME NEW e \in Executors, ExecCrash(e) PROVE ExecTypes' /\ ExecBusy'
  BY <1>0, <1>10 DEF ExecCrash
<1>11. ASSUME NEW k \in Ops, PublishDirect(k) PROVE ExecTypes' /\ ExecBusy'
  BY <1>11 DEF PublishDirect
<1>12. CASE ToggleGate
  BY <1>12 DEF ToggleGate
<1>13. ASSUME NEW q \in Trades, TradeRead(q) PROVE ExecTypes' /\ ExecBusy'
  BY <1>13 DEF TradeRead
<1>14. CASE TradeWrite
  BY <1>14 DEF TradeWrite
<1>15. CASE UNCHANGED vars
  BY <1>15 DEF vars
<1>16. QED
  BY <1>1, <1>2, <1>3, <1>4, <1>5, <1>6, <1>7, <1>8, <1>9, <1>10, <1>11,
     <1>12, <1>13, <1>14, <1>15 DEF Next, RiskStep, ExecStep

\* db_writer and the flags.
LEMMA WriterTypeStep ==
    ASSUME TypeOK, [Next]_vars
    PROVE  WriterTypes' /\ FlagTypes'
<1> USE DEF TypeOK, WriterTypes, FlagTypes, riskVars, execVars, tradeVars, venueVars
<1>1. ASSUME NEW t \in RiskThreads, NEW k \in Ops, Trigger(t, k)
      PROVE  WriterTypes' /\ FlagTypes'
  BY <1>1 DEF Trigger, RiskGoto
<1>2. ASSUME NEW t \in RiskThreads, ClaimDispatch(t)
      PROVE  WriterTypes' /\ FlagTypes'
  BY <1>2 DEF ClaimDispatch, RiskGoto
<1>3. ASSUME NEW t \in RiskThreads, Send(t) PROVE WriterTypes' /\ FlagTypes'
  BY <1>3 DEF Send, RiskGoto
<1>4. ASSUME NEW t \in RiskThreads, RiskCrash(t)
      PROVE  WriterTypes' /\ FlagTypes'
  BY <1>4 DEF RiskCrash, RiskGoto
<1>5. ASSUME NEW e \in Executors, NEW a \in Attempts, Receive(e, a)
      PROVE  WriterTypes' /\ FlagTypes'
  BY <1>5 DEF Receive, ExecGoto
<1>6. ASSUME NEW e \in Executors, Bind(e) PROVE WriterTypes' /\ FlagTypes'
  BY <1>6 DEF Bind, ExecGoto, ExecDone
<1>7. ASSUME NEW e \in Executors, Recheck(e) PROVE WriterTypes' /\ FlagTypes'
  BY <1>7 DEF Recheck, ExecGoto, ExecDone
<1>8. ASSUME NEW e \in Executors, Submit(e) PROVE WriterTypes' /\ FlagTypes'
  BY <1>8 DEF Submit, ExecGoto, ExecDone
<1>9. ASSUME NEW e \in Executors, Finalize(e) PROVE WriterTypes' /\ FlagTypes'
  <2>1. WriterTypes'
    BY <1>9 DEF Finalize
  <2>2. FlagTypes'
    BY <1>9 DEF Finalize
  <2>3. QED
    BY <2>1, <2>2
<1>10. ASSUME NEW e \in Executors, ExecCrash(e)
       PROVE  WriterTypes' /\ FlagTypes'
  BY <1>10 DEF ExecCrash, ExecDone, ExecGoto
<1>11. ASSUME NEW k \in Ops, PublishDirect(k) PROVE WriterTypes' /\ FlagTypes'
  BY <1>11 DEF PublishDirect
<1>12. CASE ToggleGate
  <2>1. WriterTypes'
    BY <1>12 DEF ToggleGate
  <2>2. FlagTypes'
    BY <1>12 DEF ToggleGate
  <2>3. QED
    BY <2>1, <2>2
<1>13. ASSUME NEW q \in Trades, TradeRead(q) PROVE WriterTypes' /\ FlagTypes'
  <2>1. q \in Int /\ MaxTrades \in Nat
    BY ReduceOnlyAssumption
  <2>2. WriterTypes'
    BY <1>13, <2>1 DEF TradeRead, TableTypes
  <2>3. FlagTypes'
    BY <1>13 DEF TradeRead
  <2>4. QED
    BY <2>2, <2>3
<1>14. CASE TradeWrite
  BY <1>14 DEF TradeWrite
<1>15. CASE UNCHANGED vars
  BY <1>15 DEF vars
<1>16. QED
  BY <1>1, <1>2, <1>3, <1>4, <1>5, <1>6, <1>7, <1>8, <1>9, <1>10, <1>11,
     <1>12, <1>13, <1>14, <1>15 DEF Next, RiskStep, ExecStep

\* What was submitted, filled and is held.
LEMMA HistoryTypeStep ==
    ASSUME TypeOK, Busy, [Next]_vars
    PROVE  HistoryTypes'
<1> USE DEF TypeOK, Busy, RiskBusy, ExecBusy, HistoryTypes, riskVars, execVars, tradeVars, venueVars
<1>1. ASSUME NEW t \in RiskThreads, NEW k \in Ops, Trigger(t, k)
      PROVE  HistoryTypes'
  BY <1>1 DEF Trigger, RiskGoto
<1>2. ASSUME NEW t \in RiskThreads, ClaimDispatch(t) PROVE HistoryTypes'
  BY <1>2 DEF ClaimDispatch, RiskGoto
<1>3. ASSUME NEW t \in RiskThreads, Send(t) PROVE HistoryTypes'
  BY <1>3 DEF Send, RiskGoto
<1>4. ASSUME NEW t \in RiskThreads, RiskCrash(t) PROVE HistoryTypes'
  BY <1>4 DEF RiskCrash, RiskGoto
<1>5. ASSUME NEW e \in Executors, NEW a \in Attempts, Receive(e, a)
      PROVE  HistoryTypes'
  BY <1>5 DEF Receive, ExecGoto
<1>6. ASSUME NEW e \in Executors, Bind(e) PROVE HistoryTypes'
  BY <1>6 DEF Bind, ExecGoto, ExecDone
<1>7. ASSUME NEW e \in Executors, Recheck(e) PROVE HistoryTypes'
  BY <1>7 DEF Recheck, ExecGoto, ExecDone
<1>8. ASSUME NEW e \in Executors, Submit(e) PROVE HistoryTypes'
  <2>1. row[work[e]].submitted \in Nat /\ work[e] \in Attempts
    BY <1>8 DEF Submit, TableTypes, Rows
  <2>2. \A x \in Answers(row[work[e]].submitted) : x.filled \in Nat
    BY <2>1, AnswersType DEF AnswerTypes
  <2>3. QED
    BY <1>8, <2>1, <2>2 DEF Submit, SignedFill
<1>9. ASSUME NEW e \in Executors, Finalize(e) PROVE HistoryTypes'
  BY <1>9 DEF Finalize, ExecDone, ExecGoto
<1>10. ASSUME NEW e \in Executors, ExecCrash(e) PROVE HistoryTypes'
  BY <1>10 DEF ExecCrash, ExecDone, ExecGoto
<1>11. ASSUME NEW k \in Ops, PublishDirect(k) PROVE HistoryTypes'
  BY <1>11 DEF PublishDirect
<1>12. CASE ToggleGate
  BY <1>12 DEF ToggleGate
<1>13. ASSUME NEW q \in Trades, TradeRead(q) PROVE HistoryTypes'
  BY <1>13, ReduceOnlyAssumption DEF TradeRead
<1>14. CASE TradeWrite
  BY <1>14 DEF TradeWrite
<1>15. CASE UNCHANGED vars
  BY <1>15 DEF vars
<1>16. QED
  BY <1>1, <1>2, <1>3, <1>4, <1>5, <1>6, <1>7, <1>8, <1>9, <1>10, <1>11,
     <1>12, <1>13, <1>14, <1>15 DEF Next, RiskStep, ExecStep

\* A finalisation books one outcome, which neither enlarges nor flips the
\* position, or nothing.
LEMMA FinalOutcome ==
    ASSUME TypeOK, Busy, NEW e \in Executors, Finalize(e)
    PROVE  \E o \in Outcomes :
             \/ /\ row' = [row EXCEPT ![work[e]].status = o.status, ![work[e]].reason = o.reason,
                                     ![work[e]].filled = o.filled]
                /\ row[work[e]].status = "PREPARED"
                /\ position' = o.after
                /\ Abs(o.after) <= Abs(position) /\ position * o.after >= 0
             \/ UNCHANGED <<row, position>>
<1> DEFINE a == work[e]
           o == IF PositionUnmoved(a)
                THEN ApplyResult(row[a].before, SideOf[a[1]], row[a].submitted, answer[e])
                ELSE Outcome("BLOCKED", "BLOCKED", 0, position)
<1>1. a \in Attempts /\ position \in Int /\ row[a].before \in Int /\ row[a].submitted \in Nat
      /\ answer[e] \in AnswerTypes
  BY DEF TypeOK, TableTypes, ExecTypes, Busy, RiskBusy, ExecBusy, Finalize, Rows
<1>2. SideOf[a[1]] \in {"BUY", "SELL"}
  BY <1>1, KeyTypes
<1>3. CASE PositionUnmoved(a)
  <2>1. position = row[a].before
    BY <1>3 DEF PositionUnmoved
  <2>2. o = ApplyResult(position, SideOf[a[1]], row[a].submitted, answer[e])
    BY <1>3, <2>1
  <2>3. o \in Outcomes /\ Abs(o.after) <= Abs(position) /\ position * o.after >= 0
    BY <1>1, <1>2, <2>2, ApplyNeverIncreases
  <2>4. QED
    BY <2>3 DEF Finalize
<1>4. CASE ~PositionUnmoved(a)
  <2>1. o = Outcome("BLOCKED", "BLOCKED", 0, position)
    BY <1>4
  <2>2. position * position >= 0 /\ Abs(position) <= Abs(position)
    BY <1>1 DEF Abs
  <2>3. o \in Outcomes /\ Abs(o.after) <= Abs(position) /\ position * o.after >= 0
    BY <1>1, <2>1, <2>2 DEF Outcome, Outcomes
  <2>4. QED
    BY <2>3 DEF Finalize
<1>5. QED
  BY <1>3, <1>4

\* The tables.
LEMMA TableTypeStep ==
    ASSUME TypeOK, Busy, [Next]_vars
    PROVE  TableTypes'
<1> USE DEF TypeOK, Busy, RiskBusy, ExecBusy, TableTypes, riskVars, execVars, tradeVars, venueVars
<1>1. ASSUME NEW t \in RiskThreads, NEW k \in Ops, Trigger(t, k)
      PROVE  TableTypes'
  BY <1>1 DEF Trigger, RiskGoto
<1>2. ASSUME NEW t \in RiskThreads, ClaimDispatch(t) PROVE TableTypes'
  <2>1. job[t] \in Attempts
    BY <1>2 DEF ClaimDispatch
  <2>2. Claim(job[t], "DISPATCH_CLAIMED") \in Rows
    BY <2>1, ClaimType
  <2>3. [row[job[t]] EXCEPT !.reason = "DISPATCH_CLAIMED"] \in Rows
    BY <2>1 DEF Rows
  <2>4. QED
    BY <1>2, <2>1, <2>2, <2>3 DEF ClaimDispatch
<1>3. ASSUME NEW t \in RiskThreads, Send(t) PROVE TableTypes'
  BY <1>3 DEF Send, RiskGoto
<1>4. ASSUME NEW t \in RiskThreads, RiskCrash(t) PROVE TableTypes'
  BY <1>4 DEF RiskCrash, RiskGoto
<1>5. ASSUME NEW e \in Executors, NEW a \in Attempts, Receive(e, a)
      PROVE  TableTypes'
  BY <1>5 DEF Receive, ExecGoto
<1>6. ASSUME NEW e \in Executors, Bind(e) PROVE TableTypes'
  <2>1. work[e] \in Attempts
    BY <1>6 DEF Bind
  <2>2. Claim(work[e], "ADAPTER_BOUND") \in Rows
    BY <2>1, ClaimType
  <2>3. [row[work[e]] EXCEPT !.reason = "ADAPTER_BOUND"] \in Rows
    BY <2>1 DEF Rows
  <2>4. Row("BLOCKED", "BLOCKED", position, 0, 0) \in Rows
    BY RowType DEF Reasons
  <2>5. QED
    BY <1>6, <2>1, <2>2, <2>3, <2>4 DEF Bind
<1>7. ASSUME NEW e \in Executors, Recheck(e) PROVE TableTypes'
  BY <1>7 DEF Recheck, ExecGoto, ExecDone
<1>8. ASSUME NEW e \in Executors, Submit(e) PROVE TableTypes'
  BY <1>8 DEF Submit, ExecGoto, ExecDone
<1>9. ASSUME NEW e \in Executors, Finalize(e) PROVE TableTypes'
  <2>1. PICK o \in Outcomes :
          \/ /\ row' = [row EXCEPT ![work[e]].status = o.status, ![work[e]].reason = o.reason,
                                  ![work[e]].filled = o.filled]
             /\ position' = o.after
          \/ UNCHANGED <<row, position>>
    BY <1>9, FinalOutcome
  <2>2. o.status \in {"BLOCKED", "REJECTED", "FILLED", "PARTIALLY_FILLED"} /\ o.filled \in Nat
        /\ o.reason \in {"REJECTED", "BLOCKED", "FILLED"} /\ o.after \in Int
    BY DEF Outcomes
  <2>3. work[e] \in Attempts
    BY <1>9 DEF Finalize
  <2>4. [row[work[e]] EXCEPT !.status = o.status, !.reason = o.reason, !.filled = o.filled] \in Rows
    BY <2>2, <2>3 DEF Rows, Success
  <2>5. QED
    BY <2>1, <2>2, <2>3, <2>4
<1>10. ASSUME NEW e \in Executors, ExecCrash(e) PROVE TableTypes'
  BY <1>10 DEF ExecCrash, ExecDone, ExecGoto
<1>11. ASSUME NEW k \in Ops, PublishDirect(k) PROVE TableTypes'
  BY <1>11 DEF PublishDirect
<1>12. CASE ToggleGate
  BY <1>12 DEF ToggleGate
<1>13. ASSUME NEW q \in Trades, TradeRead(q) PROVE TableTypes'
  BY <1>13 DEF TradeRead
<1>14. CASE TradeWrite
  BY <1>14 DEF TradeWrite, NewPosition, Sign, Abs, WriterTypes
<1>15. CASE UNCHANGED vars
  BY <1>15 DEF vars
<1>16. QED
  BY <1>1, <1>2, <1>3, <1>4, <1>5, <1>6, <1>7, <1>8, <1>9, <1>10, <1>11,
     <1>12, <1>13, <1>14, <1>15 DEF Next, RiskStep, ExecStep

LEMMA TypeStep ==
    ASSUME TypeOK, Busy, [Next]_vars PROVE TypeOK' /\ Busy'
BY RiskTypeStep, ExecTypeStep, WriterTypeStep, HistoryTypeStep, TableTypeStep
   DEF TypeOK, Busy, RiskBusy, ExecBusy

LEMMA InitType == ASSUME Init PROVE TypeOK /\ Busy
<1>1. position \in Int
  BY ReduceOnlyAssumption DEF Init
<1>2. \A a \in Attempts : row[a] \in Rows
  <2> SUFFICES ASSUME NEW a \in Attempts PROVE row[a] \in Rows
    OBVIOUS
  <2>1. Claim(a, "READY") \in Rows
    BY <1>1, ClaimType
  <2>2. QED
    BY <2>1, NoRowType DEF Init
<1>3. TableTypes
  BY <1>1, <1>2 DEF Init, TableTypes
<1>4. RiskTypes /\ WriterTypes /\ Busy
  BY ReduceOnlyAssumption DEF Init, RiskTypes, WriterTypes, Busy, RiskBusy, ExecBusy
<1>5. ExecTypes /\ HistoryTypes
  BY <1>1 DEF Init, ExecTypes, HistoryTypes, NoAnswer, AnswerTypes
<1>6. FlagTypes
  BY DEF Init, FlagTypes
<1>7. QED
  BY <1>3, <1>4, <1>5, <1>6 DEF TypeOK

\* Tables, channel and services keep their types for every number of attempts,
\* threads and instances and every answer of the adapter.
THEOREM TypeCorrect == Spec => []TypeOK
<1>1. Init => TypeOK /\ Busy
  BY InitType
<1>2. TypeOK /\ Busy /\ [Next]_vars => (TypeOK /\ Busy)'
  BY TypeStep
<1>3. QED
  BY <1>1, <1>2, PTL DEF Spec

\* How one transaction may change the row of an attempt: claim it while no
\* claim is active, block it, pass an unbound claim on, or finalise a claim.
Move(a, r) ==
    \/ row[a].status = "none" /\ r.status = "PREPARED" /\ Prepared = {}
    \/ row[a].status = "none" /\ r.status = "BLOCKED"
    \/ Bindable(row[a]) /\ r.status = "PREPARED"
    \/ row[a].status = "PREPARED" /\ r.status \notin {"none", "PREPARED"}
RowMoves ==
    \/ row' = row
    \/ \E a \in Attempts, r \in Rows : Move(a, r) /\ row' = [row EXCEPT ![a] = r]

\* Every step moves at most one row, and only so.
LEMMA RowStep ==
    ASSUME TypeOK, Busy, [Next]_vars
    PROVE  RowMoves
<1> USE DEF RowMoves, riskVars, execVars, tradeVars, venueVars
<1>1. ASSUME NEW t \in RiskThreads, NEW k \in Ops, Trigger(t, k)
      PROVE  RowMoves
  BY <1>1 DEF Trigger, RiskGoto
<1>2. ASSUME NEW t \in RiskThreads, ClaimDispatch(t) PROVE RowMoves
  <2>1. job[t] \in Attempts /\ row[job[t]] \in Rows /\ row \in [Attempts -> Rows] /\ position \in Int
    BY <1>2 DEF ClaimDispatch, Busy, RiskBusy, ExecBusy, TypeOK, TableTypes
  <2>2. CASE /\ row[job[t]].status = "none" /\ MayClaim(job[t])
             /\ row' = [row EXCEPT ![job[t]] = Claim(job[t], "DISPATCH_CLAIMED")]
    <3>1. Claim(job[t], "DISPATCH_CLAIMED") \in Rows /\ Claim(job[t], "DISPATCH_CLAIMED").status = "PREPARED"
      BY <2>1, ClaimType
    <3>2. Prepared = {}
      BY <2>2 DEF MayClaim, Allowed
    <3>3. QED
      BY <2>1, <2>2, <3>1, <3>2 DEF Move
  <2>3. CASE /\ DispatchClaimable(row[job[t]])
             /\ row' = [row EXCEPT ![job[t]].reason = "DISPATCH_CLAIMED"]
    <3> DEFINE r == [row[job[t]] EXCEPT !.reason = "DISPATCH_CLAIMED"]
    <3>1. r \in Rows /\ r.status = "PREPARED" /\ Bindable(row[job[t]])
      BY <2>1, <2>3 DEF Rows, DispatchClaimable, Bindable
    <3>2. row' = [row EXCEPT ![job[t]] = r]
      BY <2>1, <2>3
    <3>3. QED
      BY <2>1, <3>1, <3>2 DEF Move
  <2>4. QED
    BY <1>2, <2>2, <2>3 DEF ClaimDispatch
<1>3. ASSUME NEW t \in RiskThreads, Send(t) PROVE RowMoves
  BY <1>3 DEF Send, RiskGoto
<1>4. ASSUME NEW t \in RiskThreads, RiskCrash(t) PROVE RowMoves
  BY <1>4 DEF RiskCrash, RiskGoto
<1>5. ASSUME NEW e \in Executors, NEW a \in Attempts, Receive(e, a)
      PROVE  RowMoves
  BY <1>5 DEF Receive, ExecGoto
<1>6. ASSUME NEW e \in Executors, Bind(e) PROVE RowMoves
  <2>1. work[e] \in Attempts /\ row[work[e]] \in Rows /\ row \in [Attempts -> Rows] /\ position \in Int
    BY <1>6 DEF Bind, Busy, RiskBusy, ExecBusy, TypeOK, TableTypes
  <2>2. CASE /\ row[work[e]].status = "none" /\ MayClaim(work[e])
             /\ row' = [row EXCEPT ![work[e]] = Claim(work[e], "ADAPTER_BOUND")]
    <3>1. Claim(work[e], "ADAPTER_BOUND") \in Rows /\ Claim(work[e], "ADAPTER_BOUND").status = "PREPARED"
      BY <2>1, ClaimType
    <3>2. Prepared = {}
      BY <2>2 DEF MayClaim, Allowed
    <3>3. QED
      BY <2>1, <2>2, <3>1, <3>2 DEF Move
  <2>3. CASE /\ Bindable(row[work[e]])
             /\ row' = [row EXCEPT ![work[e]].reason = "ADAPTER_BOUND"]
    <3> DEFINE r == [row[work[e]] EXCEPT !.reason = "ADAPTER_BOUND"]
    <3>1. r \in Rows /\ r.status = "PREPARED"
      BY <2>1, <2>3 DEF Rows, Bindable
    <3>2. row' = [row EXCEPT ![work[e]] = r]
      BY <2>1, <2>3
    <3>3. QED
      BY <2>1, <2>3, <3>1, <3>2 DEF Move
  <2>4. CASE /\ row[work[e]].status = "none"
             /\ row' = [row EXCEPT ![work[e]] = Row("BLOCKED", "BLOCKED", position, 0, 0)]
    <3> DEFINE r == Row("BLOCKED", "BLOCKED", position, 0, 0)
    <3>1. r \in Rows /\ r.status = "BLOCKED"
      BY <2>1, RowType DEF Reasons
    <3> HIDE DEF r
    <3>2. QED
      BY <2>1, <2>4, <3>1 DEF Move, r
  <2>5. QED
    BY <1>6, <2>2, <2>3, <2>4 DEF Bind
<1>7. ASSUME NEW e \in Executors, Recheck(e) PROVE RowMoves
  BY <1>7 DEF Recheck, ExecGoto, ExecDone
<1>8. ASSUME NEW e \in Executors, Submit(e) PROVE RowMoves
  BY <1>8 DEF Submit, ExecGoto, ExecDone
<1>9. ASSUME NEW e \in Executors, Finalize(e) PROVE RowMoves
  <2>1. work[e] \in Attempts /\ row[work[e]] \in Rows /\ row \in [Attempts -> Rows]
    BY <1>9 DEF Finalize, Busy, RiskBusy, ExecBusy, TypeOK, TableTypes
  <2>2. PICK o \in Outcomes :
          \/ /\ row' = [row EXCEPT ![work[e]].status = o.status, ![work[e]].reason = o.reason,
                                  ![work[e]].filled = o.filled]
             /\ row[work[e]].status = "PREPARED"
          \/ UNCHANGED <<row, position>>
    BY <1>9, FinalOutcome
  <2>3. CASE row' = row
    BY <2>3
  <2>4. CASE row' # row
    <3> DEFINE r == [row[work[e]] EXCEPT !.status = o.status, !.reason = o.reason, !.filled = o.filled]
    <3>1. r \in Rows /\ r.status \notin {"none", "PREPARED"}
      BY <2>1 DEF Rows, Outcomes, Success
    <3>2. row' = [row EXCEPT ![work[e]] = r] /\ row[work[e]].status = "PREPARED"
      BY <2>1, <2>2, <2>4
    <3>3. QED
      BY <2>1, <3>1, <3>2 DEF Move
  <2>5. QED
    BY <2>3, <2>4
<1>10. ASSUME NEW e \in Executors, ExecCrash(e) PROVE RowMoves
  BY <1>10 DEF ExecCrash, ExecDone, ExecGoto
<1>11. ASSUME NEW k \in Ops, PublishDirect(k) PROVE RowMoves
  BY <1>11 DEF PublishDirect
<1>12. CASE ToggleGate
  BY <1>12 DEF ToggleGate
<1>13. ASSUME NEW q \in Trades, TradeRead(q) PROVE RowMoves
  BY <1>13 DEF TradeRead
<1>14. CASE TradeWrite
  BY <1>14 DEF TradeWrite
<1>15. CASE UNCHANGED vars
  BY <1>15 DEF vars
<1>16. QED
  BY <1>1, <1>2, <1>3, <1>4, <1>5, <1>6, <1>7, <1>8, <1>9, <1>10, <1>11,
     <1>12, <1>13, <1>14, <1>15 DEF Next, RiskStep, ExecStep

\* From the moves: one active claim, and finalised rows stay.
LEMMA ClaimStep ==
    ASSUME TypeOK, OneActiveClaim, RowMoves
    PROVE  /\ OneActiveClaim'
           /\ \A a \in Attempts : row[a].status \notin {"none", "PREPARED"} => row'[a] = row[a]
<1>1. CASE row' = row
  BY <1>1 DEF OneActiveClaim, Prepared
<1>2. ASSUME NEW a \in Attempts, NEW r \in Rows, Move(a, r), row' = [row EXCEPT ![a] = r]
      PROVE  /\ OneActiveClaim'
             /\ \A b \in Attempts : row[b].status \notin {"none", "PREPARED"} => row'[b] = row[b]
  <2>1. row'[a] = r /\ \A b \in Attempts : b # a => row'[b] = row[b]
    BY <1>2 DEF TypeOK, TableTypes
  <2>2. row[a].status \in {"none", "PREPARED"}
    BY <1>2 DEF Move, Bindable
  <2>3. \A b \in Attempts : (b \in Prepared)' => b = a \/ b \in Prepared
    BY <2>1 DEF Prepared
  <2>4. \/ r.status # "PREPARED" \/ Prepared = {} \/ a \in Prepared
    BY <1>2 DEF Move, Bindable, Prepared
  <2>5. r.status # "PREPARED" => (a \notin Prepared)'
    BY <2>1 DEF Prepared
  <2>6. Prepared' \subseteq Attempts
    BY DEF Prepared
  <2>7. OneActiveClaim'
    BY <2>3, <2>4, <2>5, <2>6 DEF OneActiveClaim
  <2>8. QED
    BY <2>1, <2>2, <2>7
<1>3. QED
  BY <1>1, <1>2 DEF RowMoves

LEMMA ClaimInit == ASSUME Init PROVE OneActiveClaim
<1>1. SUFFICES ASSUME NEW a \in Prepared, NEW b \in Prepared PROVE a = b
  BY DEF OneActiveClaim
<1>2. \A c \in Prepared : c \in Attempts /\ c[2] = 1 /\ c[1] \in Legacy
  BY NoRowType DEF Init, Prepared, LegacyClaim
<1>3. a[1] = b[1] /\ a[2] = b[2]
  BY <1>2, ReduceOnlyAssumption
<1>4. QED
  BY <1>2, <1>3 DEF Attempts

\* The symbol never carries two active claims (prepare_reduce_only counts the
\* PREPARED rows under the lock of the positions row).
THEOREM ClaimsExclusive == Spec => []OneActiveClaim
<1>1. Init => TypeOK /\ Busy /\ OneActiveClaim
  BY InitType, ClaimInit
<1>2. TypeOK /\ Busy /\ OneActiveClaim /\ [Next]_vars => (TypeOK /\ Busy /\ OneActiveClaim)'
  BY TypeStep, RowStep, ClaimStep
<1>3. QED
  BY <1>1, <1>2, PTL DEF Spec

\* A row that has left PREPARED never changes again: no late answer, duplicate
\* order or second instance applies it twice (finalize_reduce_only).
THEOREM FinalisedForGood == Spec => FinalisedStays
<1>1. Init => TypeOK /\ Busy /\ OneActiveClaim
  BY InitType, ClaimInit
<1>2. TypeOK /\ Busy /\ OneActiveClaim /\ [Next]_vars =>
        /\ (TypeOK /\ Busy /\ OneActiveClaim)'
        /\ [\A a \in Attempts :
              row[a].status \notin {"none", "PREPARED"} => row'[a] = row[a]]_vars
  BY TypeStep, RowStep, ClaimStep
<1>3. QED
  BY <1>1, <1>2, PTL DEF Spec, FinalisedStays

\* An unmoved position neither grows nor flips.
LEMMA Unmoved ==
    ASSUME NEW p \in Int, NEW q \in Int, q = p \/ (Abs(q) <= Abs(p) /\ p * q >= 0)
    PROVE  Abs(q) <= Abs(p) /\ q * p >= 0
<1>1. p * p >= 0 /\ p * q = q * p
  OBVIOUS
<1>2. Abs(p) <= Abs(p)
  BY DEF Abs
<1>3. QED
  BY <1>1, <1>2

\* No step but db_writer's write enlarges or flips the position.
LEMMA PositionStep ==
    ASSUME TypeOK, Busy, [Next]_vars, trade' = trade
    PROVE  Abs(position') <= Abs(position) /\ position' * position >= 0
<1>1. position \in Int /\ position' \in Int
  BY TypeStep DEF TypeOK, TableTypes
<1>2. CASE position' = position
  BY <1>1, <1>2, Unmoved
<1>3. ASSUME NEW e \in Executors, Finalize(e)
      PROVE  Abs(position') <= Abs(position) /\ position' * position >= 0
  <2>1. position' = position \/
        (Abs(position') <= Abs(position) /\ position * position' >= 0)
    BY <1>3, FinalOutcome
  <2>2. QED
    BY <1>1, <2>1, Unmoved
<1>4. ASSUME TradeWrite PROVE FALSE
  BY <1>4 DEF TradeWrite
<1>5. ASSUME NEW t \in RiskThreads, RiskStep(t) \/ RiskCrash(t)
      PROVE  position' = position
  BY <1>5 DEF RiskStep, Trigger, ClaimDispatch, Send, RiskCrash
<1>6. ASSUME NEW e \in Executors,
             (\E a \in Attempts : Receive(e, a)) \/ Bind(e) \/ Recheck(e) \/ Submit(e) \/ ExecCrash(e)
      PROVE  position' = position
  BY <1>6 DEF Receive, Bind, Recheck, Submit, ExecCrash
<1>7. ASSUME (\E k \in Ops : PublishDirect(k)) \/ ToggleGate \/ (\E q \in Trades : TradeRead(q))
             \/ UNCHANGED vars
      PROVE  position' = position
  BY <1>7 DEF PublishDirect, ToggleGate, TradeRead, vars
<1>8. QED
  BY <1>2, <1>3, <1>4, <1>5, <1>6, <1>7 DEF Next, ExecStep

\* The reduce-only contract: nothing but db_writer's own booking of an ordinary
\* fill enlarges or flips the position, whatever the adapter answers and
\* however stale the claim is (finalize_reduce_only).
THEOREM NeverIncreases == Spec => ReduceOnlyNeverIncreases
<1>1. Init => TypeOK /\ Busy
  BY InitType
<1>2. TypeOK /\ Busy /\ [Next]_vars =>
        /\ (TypeOK /\ Busy)'
        /\ [trade' = trade =>
               Abs(position') <= Abs(position) /\ position' * position >= 0]_vars
  BY TypeStep, PositionStep
<1>3. QED
  BY <1>1, <1>2, PTL DEF Spec, ReduceOnlyNeverIncreases

\* What a winning bind and a finalisation leave in the table.
LEMMA BindResult ==
    ASSUME TypeOK, Busy, NEW e \in Executors, Bind(e), ExecGoto(e, "recheck", work[e])
    PROVE  /\ row[work[e]].status = "none" \/ Bindable(row[work[e]])
           /\ \A b \in Attempts : b # work[e] => row'[b] = row[b]
           /\ row'[work[e]].status = "PREPARED" /\ row'[work[e]].reason = "ADAPTER_BOUND"
<1>1. work[e] \in Attempts /\ row \in [Attempts -> Rows] /\ row[work[e]] \in Rows /\ position \in Int
  BY DEF Bind, Busy, RiskBusy, ExecBusy, TypeOK, TableTypes
<1>2. epc'[e] = "recheck"
  BY DEF ExecGoto, TypeOK, ExecTypes
<1>3. ~ExecDone(e)
  BY <1>2 DEF ExecDone, ExecGoto, TypeOK, ExecTypes
<1>4. CASE /\ row[work[e]].status = "none"
           /\ row' = [row EXCEPT ![work[e]] = Claim(work[e], "ADAPTER_BOUND")]
  BY <1>1, <1>4, ClaimType
<1>5. CASE Bindable(row[work[e]]) /\ row' = [row EXCEPT ![work[e]].reason = "ADAPTER_BOUND"]
  BY <1>1, <1>5 DEF Bindable, Rows
<1>6. QED
  BY <1>3, <1>4, <1>5 DEF Bind

LEMMA FinalRow ==
    ASSUME TypeOK, Busy, NEW e \in Executors, Finalize(e)
    PROVE  /\ \A b \in Attempts : b # work[e] => row'[b] = row[b]
           /\ row'[work[e]] = row[work[e]] \/ row'[work[e]].status \notin {"none", "PREPARED"}
<1>1. work[e] \in Attempts /\ row \in [Attempts -> Rows] /\ row[work[e]] \in Rows
  BY DEF Finalize, Busy, RiskBusy, ExecBusy, TypeOK, TableTypes
<1>2. PICK o \in Outcomes :
        \/ row' = [row EXCEPT ![work[e]].status = o.status, ![work[e]].reason = o.reason,
                              ![work[e]].filled = o.filled]
        \/ UNCHANGED <<row, position>>
  BY FinalOutcome
<1>3. o.status \notin {"none", "PREPARED"}
  BY DEF Outcomes
<1>4. QED
  BY <1>1, <1>2, <1>3 DEF Rows

\* Ownership of a bound attempt, by action.
LEMMA OwnerStep ==
    ASSUME SubmitInv, [Next]_vars
    PROVE  Ownership' /\ AtMostOneSubmission'
<1> USE DEF SubmitInv, Ownership, OwnedIsBound, SoleOwner, NotYetHanded,
            HandedIsBound, AtMostOneSubmission, Owns, Owning, riskVars, execVars, tradeVars, venueVars
<1>1. ASSUME NEW t \in RiskThreads, NEW k \in Ops, Trigger(t, k)
      PROVE  Ownership' /\ AtMostOneSubmission'
  BY <1>1 DEF Trigger, RiskGoto
<1>2. ASSUME NEW t \in RiskThreads, ClaimDispatch(t)
      PROVE  Ownership' /\ AtMostOneSubmission'
  <2>1. job[t] \in Attempts /\ UNCHANGED <<epc, work, handed>>
    BY <1>2 DEF ClaimDispatch, Busy, RiskBusy, ExecBusy
  <2>2. \/ row' = row
        \/ /\ row[job[t]].status = "none" \/ Bindable(row[job[t]])
           /\ row[job[t]].reason # "ADAPTER_BOUND" \/ row[job[t]].status = "none"
           /\ \A b \in Attempts : b # job[t] => row'[b] = row[b]
    BY <1>2, <2>1 DEF ClaimDispatch, DispatchClaimable, Bindable, TypeOK, TableTypes
  <2>3. QED
    BY <2>1, <2>2
<1>3. ASSUME NEW t \in RiskThreads, Send(t)
      PROVE  Ownership' /\ AtMostOneSubmission'
  BY <1>3 DEF Send, RiskGoto
<1>4. ASSUME NEW t \in RiskThreads, RiskCrash(t)
      PROVE  Ownership' /\ AtMostOneSubmission'
  BY <1>4 DEF RiskCrash, RiskGoto
<1>5. ASSUME NEW e \in Executors, NEW a \in Attempts, Receive(e, a)
      PROVE  Ownership' /\ AtMostOneSubmission'
  BY <1>5 DEF Receive, ExecGoto, TypeOK, ExecTypes, RiskTypes
<1>6. ASSUME NEW e \in Executors, Bind(e)
      PROVE  Ownership' /\ AtMostOneSubmission'
  <2>1. work[e] \in Attempts /\ handed' = handed /\ epc[e] = "bind"
    BY <1>6 DEF Bind, Busy, RiskBusy, ExecBusy
  <2>2. CASE ExecDone(e) /\ row' = row
    BY <1>6, <2>1, <2>2 DEF ExecDone, ExecGoto, TypeOK, ExecTypes
  <2>3. CASE /\ ExecDone(e) /\ row[work[e]].status = "none"
             /\ row' = [row EXCEPT ![work[e]] = Row("BLOCKED", "BLOCKED", position, 0, 0)]
    BY <1>6, <2>1, <2>3 DEF ExecDone, ExecGoto, TypeOK, ExecTypes, TableTypes
  <2>4. CASE ExecGoto(e, "recheck", work[e])
    <3>1. /\ row[work[e]].status = "none" \/ Bindable(row[work[e]])
          /\ \A b \in Attempts : b # work[e] => row'[b] = row[b]
          /\ row'[work[e]].status = "PREPARED" /\ row'[work[e]].reason = "ADAPTER_BOUND"
      BY <1>6, <2>1, <2>4, BindResult
    <3>2. handed[work[e]] = 0 /\ \A f \in Executors : ~Owns(f, work[e])
      BY <2>1, <3>1 DEF Bindable
    <3>3. /\ \A f \in Executors : f # e => epc'[f] = epc[f] /\ work'[f] = work[f]
          /\ epc'[e] = "recheck" /\ work'[e] = work[e]
      BY <2>4 DEF ExecGoto, TypeOK, ExecTypes
    <3>4. OwnedIsBound' /\ SoleOwner'
      BY <2>1, <3>1, <3>2, <3>3
    <3>5. NotYetHanded' /\ HandedIsBound' /\ AtMostOneSubmission'
      BY <2>1, <3>1, <3>2, <3>3
    <3>6. QED
      BY <3>4, <3>5
  <2>5. QED
    BY <1>6, <2>2, <2>3, <2>4 DEF Bind
<1>7. ASSUME NEW e \in Executors, Recheck(e)
      PROVE  Ownership' /\ AtMostOneSubmission'
  BY <1>7 DEF Recheck, ExecGoto, ExecDone, TypeOK, ExecTypes
<1>8. ASSUME NEW e \in Executors, Submit(e)
      PROVE  Ownership' /\ AtMostOneSubmission'
  <2>1. work[e] \in Attempts /\ row' = row /\ epc[e] = "submit"
    BY <1>8 DEF Submit, Busy, RiskBusy, ExecBusy
  <2>2. Owns(e, work[e]) /\ handed[work[e]] = 0
    BY <2>1
  <2>3. \A f \in Executors : f # e => epc'[f] = epc[f] /\ work'[f] = work[f]
    BY <1>8 DEF Submit, ExecDone, ExecGoto, TypeOK, ExecTypes
  <2>4. CASE ExecDone(e) /\ handed' = handed
    BY <2>1, <2>3, <2>4 DEF ExecDone, ExecGoto, TypeOK, ExecTypes
  <2>5. CASE ExecGoto(e, "finalize", work[e]) /\ handed' = [handed EXCEPT ![work[e]] = handed[work[e]] + 1]
    <3>0. handed'[work[e]] = 1 /\ \A b \in Attempts : b # work[e] => handed'[b] = handed[b]
      BY <2>1, <2>2, <2>5 DEF TypeOK, HistoryTypes
    <3>1. epc'[e] = "finalize" /\ work'[e] = work[e]
      BY <2>5 DEF ExecGoto, TypeOK, ExecTypes
    <3>2. OwnedIsBound' /\ SoleOwner' /\ NotYetHanded' /\ AtMostOneSubmission'
      BY <2>1, <2>2, <2>3, <3>0, <3>1
    <3>3. HandedIsBound'
      BY <2>1, <2>2, <3>0 DEF Bindable
    <3>4. QED
      BY <3>2, <3>3
  <2>6. \/ ExecDone(e) /\ handed' = handed
        \/ ExecGoto(e, "finalize", work[e]) /\ handed' = [handed EXCEPT ![work[e]] = handed[work[e]] + 1]
    BY <1>8 DEF Submit
  <2>7. QED
    BY <2>4, <2>5, <2>6
<1>9. ASSUME NEW e \in Executors, Finalize(e)
      PROVE  Ownership' /\ AtMostOneSubmission'
  <2>1. work[e] \in Attempts /\ handed' = handed /\ Owns(e, work[e])
    BY <1>9 DEF Finalize, Busy, RiskBusy, ExecBusy
  <2>2. /\ epc'[e] = "idle"
        /\ \A f \in Executors : f # e => epc'[f] = epc[f] /\ work'[f] = work[f]
    BY <1>9 DEF Finalize, ExecDone, ExecGoto, TypeOK, ExecTypes
  <2>3. /\ \A b \in Attempts : b # work[e] => row'[b] = row[b]
        /\ row'[work[e]] = row[work[e]] \/ row'[work[e]].status \notin {"none", "PREPARED"}
    BY <1>9, <2>1, FinalRow
  <2>4. OwnedIsBound' /\ SoleOwner' /\ NotYetHanded' /\ AtMostOneSubmission'
    BY <2>1, <2>2, <2>3
  <2>5. HandedIsBound'
    BY <2>1, <2>3 DEF Bindable
  <2>6. QED
    BY <2>4, <2>5
<1>10. ASSUME NEW e \in Executors, ExecCrash(e)
       PROVE  Ownership' /\ AtMostOneSubmission'
  BY <1>10 DEF ExecCrash, ExecDone, ExecGoto, TypeOK, ExecTypes
<1>11. ASSUME NEW k \in Ops, PublishDirect(k)
       PROVE  Ownership' /\ AtMostOneSubmission'
  BY <1>11 DEF PublishDirect
<1>12. CASE ToggleGate
  BY <1>12 DEF ToggleGate
<1>13. ASSUME NEW q \in Trades, TradeRead(q)
       PROVE  Ownership' /\ AtMostOneSubmission'
  BY <1>13 DEF TradeRead
<1>14. CASE TradeWrite
  BY <1>14 DEF TradeWrite
<1>15. CASE UNCHANGED vars
  BY <1>15 DEF vars
<1>16. QED
  BY <1>1, <1>2, <1>3, <1>4, <1>5, <1>6, <1>7, <1>8, <1>9, <1>10, <1>11,
     <1>12, <1>13, <1>14, <1>15 DEF Next, RiskStep, ExecStep

LEMMA SubmitInit == Init => SubmitInv
<1> SUFFICES ASSUME Init PROVE SubmitInv
  OBVIOUS
<1>1. TypeOK /\ Busy /\ OneActiveClaim
  BY InitType, ClaimInit
<1>2. Ownership /\ AtMostOneSubmission
  BY DEF Init, Ownership, OwnedIsBound, SoleOwner, NotYetHanded, HandedIsBound,
         AtMostOneSubmission, Owns, Owning
<1>3. QED
  BY <1>1, <1>2 DEF SubmitInv

LEMMA SubmitStep == SubmitInv /\ [Next]_vars => SubmitInv'
BY TypeStep, RowStep, ClaimStep, OwnerStep DEF SubmitInv

\* "Höchstens eine Adapter-Submission pro Attempt-order_id": whatever is
\* delivered twice, to whichever instance, before or after a crash
\* (_bind_prepared_for_adapter).
THEOREM SubmittedOnce == Spec => []AtMostOneSubmission
<1>1. SubmitInv => AtMostOneSubmission
  BY DEF SubmitInv
<1>2. QED
  BY SubmitInit, SubmitStep, <1>1, PTL DEF Spec

-----------------------------------------------------------------------------
(* The lineage of attempts.                                                 *)

\* The attempts before a were rejected with nothing filled.
Behind(a) == \A m \in 1..(a[2] - 1) : Retryable(row[<<a[1], m>>])

\* Only an owner's submission fills, its answer says how much, and a row that
\* may be retried has nothing filled at the venue.
FreshUnfilled == \A a \in Attempts : handed[a] = 0 => filled[a] = 0
Reported ==
    \A e \in Executors, a \in Attempts :
        Owns(e, a) /\ epc[e] = "finalize" => filled[a] = answer[e].filled
RetryUnfilled == \A a \in Attempts : Retryable(row[a]) => filled[a] = 0
Fills == FreshUnfilled /\ Reported /\ RetryUnfilled

\* Wherever an attempt is (in a thread of risk, on the wire, at an instance of
\* execution, in the table) the attempts before it are spent.
DecidedBehind == \A t \in RiskThreads : rpc[t] # "idle" => Behind(job[t])
WiredBehind == \A e \in Executors : \A a \in wire[e] : Behind(a)
WorkedBehind == \A e \in Executors : epc[e] # "idle" => Behind(work[e])
RowBehind == \A a \in Attempts : row[a].status # "none" => Behind(a)
Lined == DecidedBehind /\ WiredBehind /\ WorkedBehind /\ RowBehind

LineageInv == SubmitInv /\ Fills /\ Lined

\* Spent attempts stay spent: a rejected row is never touched again.
LEMMA BehindStays ==
    ASSUME SubmitInv, [Next]_vars, NEW a \in Attempts, Behind(a)
    PROVE  Behind(a)'
<1>1. \A b \in Attempts : row[b].status \notin {"none", "PREPARED"} => row'[b] = row[b]
  BY RowStep, ClaimStep DEF SubmitInv
<1>2. \A m \in 1..(a[2] - 1) : <<a[1], m>> \in Attempts
  BY KeyTypes, ReduceOnlyAssumption DEF Attempts
<1>3. QED
  BY <1>1, <1>2 DEF Behind, Retryable

\* A finalisation leaves a retryable row only for an answer without a fill.
LEMMA FinalRejected ==
    ASSUME TypeOK, Busy, NEW e \in Executors, Finalize(e),
           Retryable(row'[work[e]]), ~Retryable(row[work[e]])
    PROVE  answer[e].filled = 0
<1> DEFINE a == work[e]
           o == IF PositionUnmoved(a)
                THEN ApplyResult(row[a].before, SideOf[a[1]], row[a].submitted, answer[e])
                ELSE Outcome("BLOCKED", "BLOCKED", 0, position)
<1>1. a \in Attempts /\ row \in [Attempts -> Rows] /\ row[a] \in Rows
  BY DEF Finalize, Busy, ExecBusy, TypeOK, TableTypes
<1>2. row' = [row EXCEPT ![a].status = o.status, ![a].reason = o.reason, ![a].filled = o.filled]
  BY DEF Finalize
<1> HIDE DEF o
<1>3. o.reason = "REJECTED" /\ o.status = "REJECTED"
  BY <1>1, <1>2 DEF Retryable, Rows
<1>4. CASE PositionUnmoved(a)
  BY <1>3, <1>4 DEF o, ApplyResult, Outcome
<1>5. CASE ~PositionUnmoved(a)
  BY <1>3, <1>5 DEF o, Outcome
<1>6. QED
  BY <1>4, <1>5

\* The account of fills, by action.
LEMMA FillStep ==
    ASSUME SubmitInv, Fills, [Next]_vars
    PROVE  Fills'
<1> USE DEF Fills, FreshUnfilled, Reported, RetryUnfilled, Owns, riskVars, execVars,
            tradeVars, venueVars
<1>t. TypeOK /\ Busy /\ Ownership
  BY DEF SubmitInv
<1>0. CASE UNCHANGED <<row, epc, work, answer, handed, filled>>
  BY <1>0
<1>1. ASSUME NEW t \in RiskThreads, ClaimDispatch(t) PROVE Fills'
  <2>1. job[t] \in Attempts /\ UNCHANGED <<epc, work, answer, handed, filled>>
    BY <1>1 DEF ClaimDispatch, SubmitInv, Busy, RiskBusy
  <2>2. \A b \in Attempts : row'[b] = row[b] \/ row'[b].status = "PREPARED"
    BY <1>1, <1>t, <2>1, ClaimType DEF ClaimDispatch, DispatchClaimable, TypeOK, TableTypes, Rows
  <2>3. QED
    BY <2>1, <2>2 DEF Retryable
<1>2. ASSUME NEW e \in Executors, NEW a \in Attempts, Receive(e, a) PROVE Fills'
  BY <1>2, <1>t DEF Receive, ExecGoto, TypeOK, ExecTypes
<1>3. ASSUME NEW e \in Executors, Bind(e) PROVE Fills'
  <2>1. work[e] \in Attempts /\ UNCHANGED <<handed, filled>>
    BY <1>3, <1>t DEF Bind, Busy, ExecBusy
  <2>2. /\ epc'[e] # "finalize"
        /\ \A f \in Executors : f # e => epc'[f] = epc[f] /\ work'[f] = work[f] /\ answer'[f] = answer[f]
    BY <1>3, <1>t DEF Bind, ExecGoto, ExecDone, TypeOK, ExecTypes
  <2>3. \A b \in Attempts : row'[b] = row[b] \/ row'[b].status \in {"PREPARED", "BLOCKED"}
    <3>1. position \in Int /\ row \in [Attempts -> Rows] /\ row[work[e]] \in Rows
      BY <1>t, <2>1 DEF TypeOK, TableTypes
    <3>2. CASE row' = [row EXCEPT ![work[e]] = Claim(work[e], "ADAPTER_BOUND")]
      BY <2>1, <3>1, <3>2, ClaimType
    <3>3. CASE Bindable(row[work[e]]) /\ row' = [row EXCEPT ![work[e]].reason = "ADAPTER_BOUND"]
      BY <2>1, <3>1, <3>3 DEF Bindable, Rows
    <3>4. CASE row' = [row EXCEPT ![work[e]] = Row("BLOCKED", "BLOCKED", position, 0, 0)]
      BY <2>1, <3>1, <3>4 DEF Row
    <3>5. QED
      BY <1>3, <3>2, <3>3, <3>4 DEF Bind
  <2>4. QED
    BY <2>1, <2>2, <2>3 DEF Retryable
<1>4. ASSUME NEW e \in Executors, Recheck(e) PROVE Fills'
  BY <1>4, <1>t DEF Recheck, ExecGoto, ExecDone, TypeOK, ExecTypes
<1>5. ASSUME NEW e \in Executors, Submit(e) PROVE Fills'
  <2>1. work[e] \in Attempts /\ row' = row /\ epc[e] = "submit"
    BY <1>5, <1>t DEF Submit, Busy, ExecBusy
  <2>2. Owns(e, work[e]) /\ handed[work[e]] = 0 /\ filled[work[e]] = 0
    BY <1>t, <2>1 DEF Ownership, NotYetHanded, Owning
  <2>3. row[work[e]].status = "PREPARED" /\ \A f \in Executors : Owns(f, work[e]) => f = e
    BY <1>t, <2>1, <2>2 DEF Ownership, OwnedIsBound, SoleOwner
  <2>4. \A f \in Executors : f # e => epc'[f] = epc[f] /\ work'[f] = work[f] /\ answer'[f] = answer[f]
    BY <1>5, <1>t DEF Submit, ExecDone, ExecGoto, TypeOK, ExecTypes
  <2>5. CASE ExecDone(e) /\ UNCHANGED <<handed, filled>>
    BY <1>t, <2>1, <2>4, <2>5 DEF ExecDone, ExecGoto, TypeOK, ExecTypes
  <2>6. ASSUME NEW x \in Answers(row[work[e]].submitted),
               answer' = [answer EXCEPT ![e] = x],
               handed' = [handed EXCEPT ![work[e]] = @ + 1],
               filled' = [filled EXCEPT ![work[e]] = @ + x.filled],
               ExecGoto(e, "finalize", work[e])
        PROVE  Fills'
    <3>1. x.filled \in Nat
      BY <1>t, <2>1, AnswersType DEF TypeOK, TableTypes, Rows, AnswerTypes
    <3>2. /\ handed'[work[e]] = 1 /\ filled'[work[e]] = x.filled
          /\ \A b \in Attempts : b # work[e] => handed'[b] = handed[b] /\ filled'[b] = filled[b]
      BY <1>t, <2>1, <2>2, <2>6, <3>1 DEF TypeOK, HistoryTypes
    <3>3. answer'[e] = x /\ work'[e] = work[e]
      BY <1>t, <2>6 DEF ExecGoto, TypeOK, ExecTypes
    <3>4. FreshUnfilled'
      BY <3>2
    <3>5. Reported'
      BY <2>3, <2>4, <3>2, <3>3 DEF Owning
    <3>6. RetryUnfilled'
      BY <2>1, <2>3, <3>2 DEF Retryable
    <3>7. QED
      BY <3>4, <3>5, <3>6
  <2>7. QED
    BY <1>5, <2>5, <2>6 DEF Submit
<1>6. ASSUME NEW e \in Executors, Finalize(e) PROVE Fills'
  <2>1. work[e] \in Attempts /\ UNCHANGED <<handed, filled>> /\ epc[e] = "finalize"
    BY <1>6, <1>t DEF Finalize, Busy, ExecBusy
  <2>2. /\ epc'[e] = "idle"
        /\ \A f \in Executors : f # e => epc'[f] = epc[f] /\ work'[f] = work[f] /\ answer'[f] = answer[f]
    BY <1>6, <1>t DEF Finalize, ExecDone, ExecGoto, TypeOK, ExecTypes
  <2>3. \A b \in Attempts : b # work[e] => row'[b] = row[b]
    BY <1>6, <1>t, FinalRow
  <2>4. filled[work[e]] = answer[e].filled
    BY <2>1 DEF Owning
  <2>5. Retryable(row'[work[e]]) => filled[work[e]] = 0
    BY <1>6, <1>t, <2>1, <2>4, FinalRejected
  <2>6. QED
    BY <2>1, <2>2, <2>3, <2>5 DEF Owning
<1>7. ASSUME NEW e \in Executors, ExecCrash(e) PROVE Fills'
  BY <1>7, <1>t DEF ExecCrash, ExecDone, ExecGoto, TypeOK, ExecTypes
<1>8. CASE (\E t \in RiskThreads : (\E k \in Ops : Trigger(t, k)) \/ Send(t) \/ RiskCrash(t))
           \/ (\E k \in Ops : PublishDirect(k)) \/ ToggleGate
           \/ (\E q \in Trades : TradeRead(q)) \/ TradeWrite \/ UNCHANGED vars
  BY <1>8, <1>0 DEF Trigger, Send, RiskCrash, PublishDirect, ToggleGate, TradeRead,
     TradeWrite, vars
<1>9. QED
  BY <1>1, <1>2, <1>3, <1>4, <1>5, <1>6, <1>7, <1>8 DEF Next, RiskStep, ExecStep

\* The lineage, by action: a decision is taken on spent attempts, and claim,
\* message and bind carry it on.
LEMMA LinedStep ==
    ASSUME SubmitInv, Lined, [Next]_vars
    PROVE  Lined'
<1> USE DEF Lined, DecidedBehind, WiredBehind, WorkedBehind, RowBehind, riskVars,
            execVars, tradeVars, venueVars
<1>t. TypeOK /\ Busy
  BY DEF SubmitInv
<1>b. \A a \in Attempts : Behind(a) => Behind(a)'
  BY BehindStays
<1>w. /\ wire \in [Executors -> SUBSET Attempts]
      /\ \A t \in RiskThreads : rpc[t] # "idle" => job[t] \in Attempts
      /\ \A e \in Executors : epc[e] # "idle" => work[e] \in Attempts
  BY <1>t DEF TypeOK, RiskTypes, Busy, RiskBusy, ExecBusy
<1>0. CASE /\ \A t \in RiskThreads : rpc'[t] = "idle" \/ (rpc[t] # "idle" /\ job'[t] = job[t])
           /\ \A e \in Executors : wire'[e] \subseteq wire[e]
           /\ \A e \in Executors : epc'[e] = "idle" \/ (epc[e] # "idle" /\ work'[e] = work[e])
           /\ \A a \in Attempts : row[a].status = "none" => row'[a].status = "none"
  BY <1>0, <1>b, <1>w
<1>1. ASSUME NEW t \in RiskThreads, NEW k \in Ops, Trigger(t, k) PROVE Lined'
  <2>1. PICK n \in Decided(k) : RiskGoto(t, "claim", <<k, n>>)
    BY <1>1 DEF Trigger
  <2>2. UNCHANGED <<row, wire, epc, work>>
    BY <1>1 DEF Trigger
  <2>3. /\ rpc'[t] = "claim" /\ job'[t] = <<k, n>>
        /\ \A u \in RiskThreads : u # t => rpc'[u] = rpc[u] /\ job'[u] = job[u]
    BY <1>t, <2>1 DEF RiskGoto, TypeOK, RiskTypes
  <2>4. Behind(<<k, n>>)'
    BY <2>2 DEF Decided, Behind
  <2>5. QED
    BY <1>b, <1>w, <2>2, <2>3, <2>4
<1>2. ASSUME NEW t \in RiskThreads, ClaimDispatch(t) PROVE Lined'
  <2>1. job[t] \in Attempts /\ rpc[t] # "idle" /\ UNCHANGED <<wire, epc, work>>
    BY <1>2, <1>w DEF ClaimDispatch
  <2>2. /\ \A u \in RiskThreads : rpc'[u] = "idle" \/ (rpc[u] # "idle" /\ job'[u] = job[u])
        /\ \A b \in Attempts : b # job[t] => row'[b] = row[b]
    BY <1>2, <1>t, <2>1 DEF ClaimDispatch, RiskGoto, TypeOK, RiskTypes, TableTypes
  <2>3. QED
    BY <1>b, <1>w, <2>1, <2>2
<1>3. ASSUME NEW t \in RiskThreads, Send(t) PROVE Lined'
  <2>1. job[t] \in Attempts /\ Behind(job[t]) /\ UNCHANGED <<row, epc, work>>
    BY <1>3, <1>w DEF Send
  <2>2. /\ \A u \in RiskThreads : rpc'[u] = "idle" \/ (rpc[u] # "idle" /\ job'[u] = job[u])
        /\ \A e \in Executors : wire'[e] \subseteq wire[e] \cup {job[t]}
    BY <1>3, <1>t DEF Send, RiskGoto, TypeOK, RiskTypes
  <2>3. QED
    BY <1>b, <1>w, <2>1, <2>2
<1>4. ASSUME NEW t \in RiskThreads, RiskCrash(t) PROVE Lined'
  BY <1>4, <1>0, <1>t DEF RiskCrash, RiskGoto, TypeOK, RiskTypes
<1>5. ASSUME NEW e \in Executors, NEW a \in Attempts, Receive(e, a) PROVE Lined'
  <2>1. a \in wire[e] /\ Behind(a) /\ UNCHANGED <<row, rpc, job>>
    BY <1>5 DEF Receive
  <2>2. /\ \A f \in Executors : wire'[f] \subseteq wire[f]
        /\ \A f \in Executors : \/ epc'[f] = epc[f] /\ work'[f] = work[f]
                                \/ work'[f] = a
    BY <1>5, <1>t DEF Receive, ExecGoto, TypeOK, ExecTypes, RiskTypes
  <2>3. QED
    BY <1>b, <1>w, <2>1, <2>2
<1>6. ASSUME NEW e \in Executors, Bind(e) PROVE Lined'
  <2>1. work[e] \in Attempts /\ epc[e] # "idle" /\ UNCHANGED <<rpc, job, wire>>
    BY <1>6, <1>w DEF Bind
  <2>2. \A f \in Executors : epc'[f] = "idle" \/ (epc[f] # "idle" /\ work'[f] = work[f])
    BY <1>6, <1>t DEF Bind, ExecGoto, ExecDone, TypeOK, ExecTypes
  <2>3. \A b \in Attempts : b # work[e] => row'[b] = row[b]
    BY <1>6, <1>t, <2>1 DEF Bind, TypeOK, TableTypes
  <2>4. QED
    BY <1>b, <1>w, <2>1, <2>2, <2>3
<1>7. ASSUME NEW e \in Executors, Recheck(e) PROVE Lined'
  BY <1>7, <1>0, <1>t DEF Recheck, ExecGoto, ExecDone, TypeOK, ExecTypes
<1>8. ASSUME NEW e \in Executors, Submit(e) PROVE Lined'
  BY <1>8, <1>0, <1>t DEF Submit, ExecGoto, ExecDone, TypeOK, ExecTypes
<1>9. ASSUME NEW e \in Executors, Finalize(e) PROVE Lined'
  <2>1. work[e] \in Attempts /\ epc[e] # "idle" /\ UNCHANGED <<rpc, job, wire>>
    BY <1>9, <1>w DEF Finalize
  <2>2. \A f \in Executors : epc'[f] = "idle" \/ (epc[f] # "idle" /\ work'[f] = work[f])
    BY <1>9, <1>t DEF Finalize, ExecGoto, ExecDone, TypeOK, ExecTypes
  <2>3. \A b \in Attempts : b # work[e] => row'[b] = row[b]
    BY <1>9, <1>t, FinalRow
  <2>4. QED
    BY <1>b, <1>w, <2>1, <2>2, <2>3
<1>10. ASSUME NEW e \in Executors, ExecCrash(e) PROVE Lined'
  BY <1>10, <1>0, <1>t DEF ExecCrash, ExecGoto, ExecDone, TypeOK, ExecTypes, RiskTypes
<1>11. ASSUME NEW k \in Ops, PublishDirect(k) PROVE Lined'
  <2>1. UNCHANGED <<row, rpc, job, epc, work>>
    BY <1>11 DEF PublishDirect
  <2>2. \A e \in Executors : wire'[e] = wire[e] \cup {<<k, 1>>}
    BY <1>11 DEF PublishDirect
  <2>3. Behind(<<k, 1>>)'
    BY DEF Behind
  <2>4. QED
    BY <1>b, <1>w, <2>1, <2>2, <2>3
<1>12. CASE ToggleGate \/ (\E q \in Trades : TradeRead(q)) \/ TradeWrite \/ UNCHANGED vars
  BY <1>12, <1>0 DEF ToggleGate, TradeRead, TradeWrite, vars
<1>13. QED
  BY <1>1, <1>2, <1>3, <1>4, <1>5, <1>6, <1>7, <1>8, <1>9, <1>10, <1>11, <1>12
     DEF Next, RiskStep, ExecStep

LEMMA LineageInit == Init => LineageInv
<1> SUFFICES ASSUME Init PROVE LineageInv
  OBVIOUS
<1>1. SubmitInv
  BY SubmitInit
<1>2. \A a \in Attempts : row[a].status # "none" => a[2] = 1
  BY NoRowType DEF Init
<1>3. \A a \in Attempts : a[2] = 1 => Behind(a)
  BY DEF Behind
<1>4. \A a \in Attempts : filled[a] = 0 /\ \A e \in Executors : ~Owns(e, a)
  BY DEF Init, Owns, Owning
<1>5. Lined
  BY <1>2, <1>3 DEF Init, Lined, DecidedBehind, WiredBehind, WorkedBehind, RowBehind
<1>6. Fills
  BY <1>4 DEF Fills, FreshUnfilled, Reported, RetryUnfilled
<1>7. QED
  BY <1>1, <1>5, <1>6 DEF LineageInv

\* A logical unwind succeeds at most once: a later attempt exists only behind
\* attempts the adapter rejected with nothing filled, for any number of
\* attempts, threads of risk and instances of execution, although risk decides
\* in one transaction and claims in another (_decide_reduce_only_attempt,
\* is_retryable_reduce_only_terminal).
THEOREM LineageKept == Spec => []AttemptLineage
<1>1. LineageInv /\ [Next]_vars => LineageInv'
  BY SubmitStep, FillStep, LinedStep DEF LineageInv
<1>2. LineageInv => AttemptLineage
  <2> SUFFICES ASSUME LineageInv, NEW k \in Ops, NEW n \in 2..MaxAttempts,
                      row[<<k, n>>].status # "none", NEW m \in 1..(n - 1)
               PROVE  row[<<k, m>>].status = "REJECTED" /\ filled[<<k, m>>] = 0
    BY DEF AttemptLineage
  <2>1. <<k, n>> \in Attempts /\ <<k, m>> \in Attempts
    BY ReduceOnlyAssumption DEF Attempts
  <2>2. Retryable(row[<<k, m>>])
    BY <2>1 DEF LineageInv, Lined, RowBehind, Behind
  <2>3. QED
    BY <2>1, <2>2 DEF LineageInv, Fills, RetryUnfilled, Retryable
<1>3. QED
  BY LineageInit, <1>1, <1>2, PTL DEF Spec

-----------------------------------------------------------------------------
(* The books.                                                               *)

\* db_writer writes what it read, unless the position moved in between, and
\* what it writes adds the fill, unless it clamps.
ReadIsFresh == trade # 0 /\ ~raced => seen = position
ReadIsExact == trade # 0 /\ ~clamped => NewPosition(seen, trade) = seen + trade
Writer == ReadIsFresh /\ ReadIsExact

BooksInv == SubmitInv /\ Fills /\ Writer /\ BooksExact

LEMMA FiniteAttempts == IsFiniteSet(Attempts)
<1>1. IsFiniteSet(Ops) /\ 1 \in Int /\ MaxAttempts \in Int
  BY ReduceOnlyAssumption
<1>2. IsFiniteSet(1..MaxAttempts)
  BY <1>1, FS_Interval
<1>3. QED
  BY <1>1, <1>2, FS_Product DEF Attempts

LEMMA SignedFillType ==
    ASSUME NEW a \in Attempts, NEW m \in Nat, NEW n \in Nat
    PROVE  /\ SignedFill(a, m) \in Int
           /\ SignedFill(a, m + n) = SignedFill(a, m) + SignedFill(a, n)
BY KeyTypes DEF SignedFill

LEMMA UnbookedTypes ==
    ASSUME TypeOK
    PROVE  Unbooked \in Int /\ \A a \in Attempts : UnbookedFill[a] \in Int
<1>1. \A a \in Attempts : UnbookedFill[a] \in Int
  BY SignedFillType DEF UnbookedFill, TypeOK, HistoryTypes
<1>2. QED
  BY <1>1, FiniteAttempts, SumType DEF Unbooked

\* Only what changes for one attempt changes the sum.
LEMMA UnbookedMoves ==
    ASSUME TypeOK, TypeOK', NEW a \in Attempts,
           \A b \in Attempts : b # a => UnbookedFill'[b] = UnbookedFill[b]
    PROVE  Unbooked' = Unbooked + UnbookedFill'[a] - UnbookedFill[a]
<1>1. \A b \in Attempts : UnbookedFill[b] \in Int
  BY UnbookedTypes
<1>2. \A b \in Attempts : UnbookedFill'[b] \in Int
  BY SignedFillType DEF UnbookedFill, TypeOK, HistoryTypes
<1>3. \A f, g :
        /\ \A b \in Attempts : f[b] \in Int /\ g[b] \in Int
        /\ \A b \in Attempts \ {a} : f[b] = g[b]
        => SumFunctionOnSet(g, Attempts) = SumFunctionOnSet(f, Attempts) + g[a] - f[a]
  BY FiniteAttempts, SumChange
<1>4. QED
  BY <1>1, <1>2, <1>3 DEF Unbooked

LEMMA UnbookedStays ==
    ASSUME TypeOK, \A b \in Attempts : UnbookedFill'[b] = UnbookedFill[b]
    PROVE  Unbooked' = Unbooked
<1>1. UnbookedFill' = UnbookedFill
  BY DEF UnbookedFill
<1>2. QED
  BY <1>1 DEF Unbooked

\* A finalisation books the whole fill into the position, or leaves it
\* unbooked and the position alone.
LEMMA FinalBooks ==
    ASSUME SubmitInv, Fills, NEW e \in Executors, Finalize(e)
    PROVE  \/ UNCHANGED <<row, position, raced>>
           \/ /\ row[work[e]].status \notin Success
              /\ position \in Int /\ position' \in Int
              /\ raced' = (raced \/ (trade # 0 /\ position' # position))
              /\ \/ /\ row'[work[e]].status \in Success
                    /\ position' = position + SignedFill(work[e], filled[work[e]])
                 \/ row'[work[e]].status \notin Success /\ position' = position
<1> DEFINE a == work[e]
           o == IF PositionUnmoved(a)
                THEN ApplyResult(row[a].before, SideOf[a[1]], row[a].submitted, answer[e])
                ELSE Outcome("BLOCKED", "BLOCKED", 0, position)
<1>1. a \in Attempts /\ row \in [Attempts -> Rows] /\ row[a] \in Rows /\ position \in Int
      /\ epc[e] = "finalize" /\ answer[e] \in AnswerTypes
  BY DEF Finalize, SubmitInv, Busy, ExecBusy, TypeOK, TableTypes, ExecTypes
<1>2. filled[a] = answer[e].filled /\ filled[a] \in Nat
  BY <1>1 DEF Fills, Reported, Owns, Owning, SubmitInv, TypeOK, HistoryTypes
<1>3. SUFFICES ASSUME row[a].status = "PREPARED",
                      row' = [row EXCEPT ![a].status = o.status, ![a].reason = o.reason,
                                         ![a].filled = o.filled],
                      position' = o.after,
                      raced' = (raced \/ (trade # 0 /\ o.after # position))
               PROVE  \/ /\ row'[a].status \in Success
                         /\ position' = position + SignedFill(a, filled[a])
                      \/ row'[a].status \notin Success /\ position' = position
  <2>1. CASE UNCHANGED <<row, position, raced>>
    BY <2>1
  <2>2. CASE /\ row[a].status = "PREPARED" /\ position # 0
             /\ row' = [row EXCEPT ![a].status = o.status, ![a].reason = o.reason,
                                   ![a].filled = o.filled]
             /\ position' = o.after
             /\ raced' = (raced \/ (trade # 0 /\ o.after # position))
    <3>1. \/ /\ row'[a].status \in Success
             /\ position' = position + SignedFill(a, filled[a])
          \/ row'[a].status \notin Success /\ position' = position
      BY <1>3, <2>2
    <3>2. position' \in Int
      BY <1>1, <1>2, <3>1, SignedFillType
    <3> HIDE DEF o
    <3>3. QED
      BY <1>1, <2>2, <3>1, <3>2 DEF Success
  <2>3. QED
    BY <2>1, <2>2 DEF Finalize
<1>4. row'[a].status = o.status
  <2> HIDE DEF o
  <2>1. QED
    BY <1>1, <1>3 DEF Rows
<1>5. CASE ~PositionUnmoved(a)
  BY <1>3, <1>4, <1>5 DEF Outcome, Success
<1>6. CASE PositionUnmoved(a)
  <2>1. position = row[a].before
    BY <1>6 DEF PositionUnmoved
  <2>2. o = ApplyResult(position, SideOf[a[1]], row[a].submitted, answer[e])
    BY <1>6, <2>1
  <2>3. \/ o.status \in Success /\ o.after = position + SignedFill(a, answer[e].filled)
        \/ o.status \notin Success /\ o.after = position
    BY <1>1, <2>2 DEF ApplyResult, Outcome, Success, SignedFill, AnswerTypes
  <2> HIDE DEF o
  <2>4. QED
    BY <1>2, <1>3, <1>4, <2>3
<1>7. QED
  BY <1>5, <1>6

\* db_writer's read, by action.
LEMMA WriterStep ==
    ASSUME SubmitInv, Fills, Writer, [Next]_vars
    PROVE  Writer'
<1> USE DEF Writer, ReadIsFresh, ReadIsExact, riskVars, execVars, tradeVars, venueVars
<1>0. CASE UNCHANGED <<position, trade, seen, raced, clamped>>
  BY <1>0
<1>1. ASSUME NEW e \in Executors, Finalize(e) PROVE Writer'
  <2>1. UNCHANGED <<trade, seen, clamped>>
    BY <1>1 DEF Finalize
  <2>2. \/ position' = position /\ raced' = raced
        \/ raced' = (raced \/ (trade # 0 /\ position' # position))
    BY <1>1, FinalBooks
  <2>3. QED
    BY <2>1, <2>2
<1>2. ASSUME NEW q \in Trades, TradeRead(q) PROVE Writer'
  <2>1. trade' = q /\ seen' = position /\ position' = position
        /\ clamped' = (clamped \/ NewPosition(position, q) # position + q)
    BY <1>2 DEF TradeRead
  <2>2. QED
    BY <2>1
<1>3. CASE TradeWrite
  BY <1>3 DEF TradeWrite
<1>4. CASE (\E t \in RiskThreads : RiskStep(t) \/ RiskCrash(t)) \/ (\E k \in Ops : PublishDirect(k))
           \/ ToggleGate \/ UNCHANGED vars
  BY <1>4, <1>0 DEF RiskStep, Trigger, ClaimDispatch, Send, RiskCrash, PublishDirect, ToggleGate, vars
<1>5. ASSUME NEW e \in Executors,
             (\E a \in Attempts : Receive(e, a)) \/ Bind(e) \/ Recheck(e) \/ Submit(e) \/ ExecCrash(e)
      PROVE  Writer'
  BY <1>5, <1>0 DEF Receive, Bind, Recheck, Submit, ExecCrash
<1>6. QED
  BY <1>1, <1>2, <1>3, <1>4, <1>5 DEF Next, ExecStep

\* The books, by action.
LEMMA BooksStep ==
    ASSUME BooksInv, [Next]_vars
    PROVE  BooksExact'
<1> USE DEF BooksExact, riskVars, execVars, tradeVars, venueVars
<1>t. TypeOK /\ Busy /\ Ownership /\ SubmitInv /\ Fills /\ Writer
  BY DEF BooksInv, SubmitInv
<1>u. TypeOK'
  BY <1>t, TypeStep
<1>v. position \in Int /\ trade \in Int /\ seen \in Int /\ holdings \in Int /\ Unbooked \in Int
      /\ row \in [Attempts -> Rows] /\ filled \in [Attempts -> Nat]
  BY <1>t, UnbookedTypes DEF TypeOK, TableTypes, WriterTypes, HistoryTypes
<1>0. CASE /\ UNCHANGED <<position, trade, raced, clamped, holdings, filled>>
           /\ \A b \in Attempts :
                \/ row'[b] = row[b]
                \/ row'[b].status \notin Success /\ row[b].status \notin Success
  <2>1. \A b \in Attempts : UnbookedFill'[b] = UnbookedFill[b]
    BY <1>0 DEF UnbookedFill, SignedFill
  <2>2. QED
    BY <1>0, <1>t, <2>1, UnbookedStays DEF BooksInv, Exact
<1>1. ASSUME NEW t \in RiskThreads, ClaimDispatch(t) PROVE BooksExact'
  <2>1. job[t] \in Attempts
    BY <1>1, <1>t DEF ClaimDispatch, Busy, RiskBusy
  <2>2. \A b \in Attempts : \/ row'[b] = row[b]
                            \/ row[b].status \in {"none", "PREPARED"} /\ row'[b].status = "PREPARED"
    BY <1>1, <1>v, <2>1, ClaimType DEF ClaimDispatch, DispatchClaimable, Rows
  <2>3. QED
    BY <1>0, <1>1, <2>2 DEF ClaimDispatch, Success
<1>2. ASSUME NEW e \in Executors, Bind(e) PROVE BooksExact'
  <2>1. work[e] \in Attempts
    BY <1>2, <1>t DEF Bind, Busy, ExecBusy
  <2>2. \A b \in Attempts : \/ row'[b] = row[b]
                            \/ /\ row[b].status \in {"none", "PREPARED"}
                               /\ row'[b].status \in {"PREPARED", "BLOCKED"}
    <3>1. row[work[e]] \in Rows
      BY <1>v, <2>1
    <3>2. CASE /\ row[work[e]].status = "none"
               /\ row' = [row EXCEPT ![work[e]] = Claim(work[e], "ADAPTER_BOUND")]
      BY <1>v, <2>1, <3>1, <3>2, ClaimType
    <3>3. CASE Bindable(row[work[e]]) /\ row' = [row EXCEPT ![work[e]].reason = "ADAPTER_BOUND"]
      BY <1>v, <2>1, <3>1, <3>3 DEF Bindable, Rows
    <3>4. CASE /\ row[work[e]].status = "none"
               /\ row' = [row EXCEPT ![work[e]] = Row("BLOCKED", "BLOCKED", position, 0, 0)]
      BY <1>v, <2>1, <3>1, <3>4 DEF Row
    <3>5. QED
      BY <1>2, <3>2, <3>3, <3>4 DEF Bind
  <2>3. QED
    BY <1>0, <1>2, <2>2 DEF Bind, Success
<1>3. ASSUME NEW e \in Executors, Submit(e) PROVE BooksExact'
  <2>1. work[e] \in Attempts /\ row' = row /\ epc[e] = "submit"
        /\ UNCHANGED <<position, trade, raced, clamped>>
    BY <1>3, <1>t DEF Submit, Busy, ExecBusy
  <2>2. row[work[e]].status = "PREPARED"
    BY <1>t, <2>1 DEF Ownership, OwnedIsBound, Owns, Owning
  <2>3. CASE UNCHANGED <<filled, holdings>>
    BY <1>0, <2>1, <2>3
  <2>4. ASSUME NEW x \in Answers(row[work[e]].submitted),
               filled' = [filled EXCEPT ![work[e]] = @ + x.filled],
               holdings' = holdings + SignedFill(work[e], x.filled)
        PROVE  BooksExact'
    <3>1. x.filled \in Nat
      BY <1>v, <2>1, AnswersType DEF Rows, AnswerTypes
    <3>2. /\ filled'[work[e]] = filled[work[e]] + x.filled
          /\ \A b \in Attempts : b # work[e] => filled'[b] = filled[b]
      BY <1>v, <2>1, <2>4
    <3>3. SignedFill(work[e], filled[work[e]] + x.filled)
            = SignedFill(work[e], filled[work[e]]) + SignedFill(work[e], x.filled)
      BY <1>v, <2>1, <3>1, SignedFillType
    <3>4. SignedFill(work[e], x.filled) \in Int /\ SignedFill(work[e], filled[work[e]]) \in Int
      BY <1>v, <2>1, <3>1, SignedFillType
    <3>5. /\ UnbookedFill[work[e]] = SignedFill(work[e], filled[work[e]])
          /\ UnbookedFill'[work[e]] = SignedFill(work[e], filled[work[e]] + x.filled)
          /\ \A b \in Attempts : b # work[e] => UnbookedFill'[b] = UnbookedFill[b]
      BY <2>1, <2>2, <3>2 DEF UnbookedFill, SignedFill, Success
    <3>6. Unbooked' = Unbooked + UnbookedFill'[work[e]] - UnbookedFill[work[e]]
      BY <1>t, <1>u, <2>1, <3>5, UnbookedMoves
    <3>7. Unbooked' = Unbooked + SignedFill(work[e], x.filled)
      BY <1>v, <3>3, <3>4, <3>5, <3>6
    <3>8. QED
      BY <1>v, <2>1, <2>4, <3>4, <3>7 DEF BooksInv, Exact
  <2>5. QED
    BY <1>3, <2>3, <2>4 DEF Submit
<1>4. ASSUME NEW e \in Executors, Finalize(e) PROVE BooksExact'
  <2>1. work[e] \in Attempts /\ UNCHANGED <<trade, clamped, holdings, filled>>
    BY <1>4, <1>t DEF Finalize, Busy, ExecBusy
  <2>2. \A b \in Attempts : b # work[e] => row'[b] = row[b]
    BY <1>4, <1>t, FinalRow
  <2>3. CASE UNCHANGED <<row, position, raced>>
    BY <1>0, <2>1, <2>3
  <2>4. CASE row[work[e]].status \notin Success /\ row'[work[e]].status \notin Success
             /\ position' = position /\ raced' = (raced \/ (trade # 0 /\ position' # position))
    <3>1. raced \in BOOLEAN
      BY <1>t DEF TypeOK, FlagTypes
    <3>2. raced' = raced
      BY <2>4, <3>1
    <3>3. \A b \in Attempts :
            \/ row'[b] = row[b]
            \/ row'[b].status \notin Success /\ row[b].status \notin Success
      BY <2>2, <2>4
    <3>4. QED
      BY <1>0, <2>1, <2>4, <3>2, <3>3
  <2>5. CASE /\ row[work[e]].status \notin Success /\ row'[work[e]].status \in Success
             /\ raced' = (raced \/ (trade # 0 /\ position' # position))
             /\ position' = position + SignedFill(work[e], filled[work[e]])
    <3>1. /\ UnbookedFill[work[e]] = SignedFill(work[e], filled[work[e]])
          /\ UnbookedFill'[work[e]] = 0
          /\ \A b \in Attempts : b # work[e] => UnbookedFill'[b] = UnbookedFill[b]
      BY <2>1, <2>2, <2>5 DEF UnbookedFill, SignedFill
    <3>2. Unbooked' = Unbooked + UnbookedFill'[work[e]] - UnbookedFill[work[e]]
      BY <1>t, <1>u, <2>1, <3>1, UnbookedMoves
    <3>3. SignedFill(work[e], filled[work[e]]) \in Int
      BY <1>v, <2>1, SignedFillType
    <3>4. Unbooked' = Unbooked - SignedFill(work[e], filled[work[e]])
      BY <1>v, <3>1, <3>2, <3>3
    <3>5. ~raced' => ~raced
      BY <2>5
    <3>6. QED
      BY <1>v, <2>1, <2>5, <3>3, <3>4, <3>5 DEF BooksInv, Exact
  <2>6. QED
    BY <1>4, <1>t, <2>3, <2>4, <2>5, FinalBooks
<1>5. ASSUME NEW q \in Trades, TradeRead(q) PROVE BooksExact'
  <2>1. /\ trade = 0 /\ trade' = q /\ holdings' = holdings + q /\ UNCHANGED <<position, row, filled, raced>>
        /\ clamped' = (clamped \/ NewPosition(position, q) # position + q)
    BY <1>5 DEF TradeRead
  <2>2. Unbooked' = Unbooked
    BY <1>t, <2>1, UnbookedStays DEF UnbookedFill, SignedFill
  <2>3. q \in Int
    BY ReduceOnlyAssumption
  <2>4. QED
    <3>1. ~clamped' => ~clamped
      BY <2>1
    <3>2. QED
      BY <1>v, <2>1, <2>2, <2>3, <3>1 DEF BooksInv, Exact
<1>6. CASE TradeWrite
  <2>1. /\ trade # 0 /\ trade' = 0 /\ UNCHANGED <<holdings, row, filled, raced, clamped>>
        /\ position' = IF seen = 0 THEN NewPosition(position, trade)
                       ELSE IF position = 0 THEN 0 ELSE NewPosition(seen, trade)
    BY <1>6 DEF TradeWrite
  <2>2. Unbooked' = Unbooked
    BY <1>t, <2>1, UnbookedStays DEF UnbookedFill, SignedFill
  <2>3. ~raced /\ ~clamped => position' = position + trade
    BY <1>t, <1>v, <2>1 DEF Writer, ReadIsFresh, ReadIsExact
  <2>4. QED
    BY <1>v, <2>1, <2>2, <2>3 DEF BooksInv, Exact
<1>7. CASE (\E t \in RiskThreads : (\E k \in Ops : Trigger(t, k)) \/ Send(t) \/ RiskCrash(t))
           \/ (\E k \in Ops : PublishDirect(k)) \/ ToggleGate \/ UNCHANGED vars
  BY <1>7, <1>0 DEF Trigger, Send, RiskCrash, PublishDirect, ToggleGate, vars
<1>8. ASSUME NEW e \in Executors, (\E a \in Attempts : Receive(e, a)) \/ Recheck(e) \/ ExecCrash(e)
      PROVE  BooksExact'
  BY <1>8, <1>0 DEF Receive, Recheck, ExecCrash
<1>9. QED
  BY <1>1, <1>2, <1>3, <1>4, <1>5, <1>6, <1>7, <1>8 DEF Next, RiskStep, ExecStep

LEMMA BooksInit == Init => BooksInv
<1> SUFFICES ASSUME Init PROVE BooksInv
  OBVIOUS
<1>1. SubmitInv /\ Fills
  BY LineageInit DEF LineageInv
<1>2. Writer
  BY DEF Init, Writer, ReadIsFresh, ReadIsExact
<1>3. \A a \in Attempts : UnbookedFill[a] = 0
  <2>1. \A a \in Attempts : filled[a] = 0
    BY DEF Init
  <2>2. \A a \in Attempts : SignedFill(a, filled[a]) = 0
    <3>1. \A a \in Attempts :
            SignedFill(a, 0) \in Int /\ SignedFill(a, 0 + 0) = SignedFill(a, 0) + SignedFill(a, 0)
      BY SignedFillType
    <3>2. QED
      BY <2>1, <3>1
  <2>3. QED
    BY <2>1, <2>2 DEF UnbookedFill
<1>4. Unbooked = 0
  <2>1. \A f : (\A a \in Attempts : f[a] = 0) => SumFunctionOnSet(f, Attempts) = 0
    BY FiniteAttempts, SumZero
  <2>2. QED
    BY <1>3, <2>1 DEF Unbooked
<1>5. BooksExact
  BY <1>1, <1>4 DEF BooksExact, Exact, Init, SubmitInv, TypeOK, TableTypes
<1>6. QED
  BY <1>1, <1>2, <1>5 DEF BooksInv

\* Every fill is booked once and by one owner: as long as db_writer books the
\* ordinary fills exactly and no finalisation falls between its read and its
\* write, the positions row, the fill in its hands and the fills no row has
\* booked add up to what is held, for any number of operations, attempts and
\* instances (finalize_reduce_only, update_position_from_trade).
THEOREM BooksAddUp == Spec => []BooksExact
<1>1. BooksInv /\ [Next]_vars => BooksInv'
  BY SubmitStep, FillStep, WriterStep, BooksStep DEF BooksInv
<1>2. BooksInv => BooksExact
  BY DEF BooksInv
<1>3. QED
  BY BooksInit, <1>1, <1>2, PTL DEF Spec

-------------------------------------------------------------------------------
(* RiskGate.                                                                *)

\* The largest order.
Top == Max(Sizes \cup {1})

\* Records: an order being decided on, an order sent, a result or fill.
Drafts == [sig : Signals, ts : Seconds, qty : 0..Top, reduce : BOOLEAN]
Sent == [sig : Signals, ts : Seconds, qty : 1..Top, reduce : BOOLEAN]
Reports == [sig : Signals, ts : Seconds,
            status : {"FILLED", "PARTIALLY_FILLED", "REJECTED", "SUBMITTED"}, filled : 0..Top]
Results == {a \in Reports : a.status \notin FillStatuses => a.filled = 0}

StateTypes ==
    /\ positions \in [Symbols -> Int] /\ total_exposure = Gross(positions)
    /\ pending_exposure \in Nat /\ pending_position_qty \in [Symbols -> Int]
    /\ pending_reservations \in [Clients -> Nat]
    /\ pending_qty_reservations \in [Clients -> Int]
MainTypes ==
    /\ mpc \in {"idle", "size", "gate", "decide", "reserve", "reserveQty", "send"}
    /\ mread \in Int
    /\ mpc # "idle" => order \in Drafts
    /\ mpc \notin {"idle", "size"} => order \in Sent
    /\ mpc \in {"gate", "decide"} => ~order.reduce
ListenerTypes ==
    /\ lpc \in {"idle", "store", "qty", "storeQty", "book"} /\ rread \in Int
    /\ lpc # "idle" => result \in Results
    /\ lpc = "store" => rread \in Nat
WireTypes ==
    /\ inbox \subseteq Signals
    /\ orders \in Seq(Sent) /\ results \in Seq(Results) /\ fills \in Seq(Reports)
    /\ booked \in Nat
    /\ "resting" \notin odd => \A i \in DOMAIN fills : fills[i].status # "SUBMITTED"
\* A process that is not up holds nothing.
DownTypes ==
    /\ running \in {"up", "down", "subscribed"}
    /\ running # "up" => /\ mpc = "idle" /\ lpc = "idle" /\ pending_exposure = 0
                         /\ pending_position_qty = Flat
                         /\ \A c \in Clients : pending_reservations[c] = 0
GateTypeOK == StateTypes /\ MainTypes /\ ListenerTypes /\ WireTypes /\ DownTypes

Reserving == mpc \in {"reserveQty", "send"}
Sane == running = "up" /\ odd \cap {"shared", "restart"} = {}

OrdersReserved ==
    \A i \in DOMAIN orders : pending_reservations[ClientOf(orders[i])] = orders[i].qty
ResultsReserved ==
    \A i \in DOMAIN results : /\ pending_reservations[ClientOf(results[i])] >= results[i].filled
                              /\ pending_reservations[ClientOf(results[i])] > 0
HandReserved == Reserving => pending_reservations[ClientOf(order)] = order.qty
ReleasedGone == lpc # "idle" => pending_reservations[ClientOf(result)] = 0
\* No two orders under way have the same client id.
Distinct ==
    /\ \A i, j \in DOMAIN orders : i # j => ClientOf(orders[i]) # ClientOf(orders[j])
    /\ \A i, j \in DOMAIN results : i # j => ClientOf(results[i]) # ClientOf(results[j])
    /\ \A i \in DOMAIN orders, j \in DOMAIN results : ClientOf(orders[i]) # ClientOf(results[j])
HandDistinct ==
    Reserving => /\ \A i \in DOMAIN orders : ClientOf(orders[i]) # ClientOf(order)
                 /\ \A i \in DOMAIN results : ClientOf(results[i]) # ClientOf(order)
Reserved == OrdersReserved /\ ResultsReserved /\ HandReserved /\ ReleasedGone /\ Distinct /\ HandDistinct
ReservedInv == Sane => Reserved

\* What is reserved for what is under way.
OrderQty == [o \in Sent |-> o.qty]
ReservedOf(r) == [a \in Results |-> r[ClientOf(a)]]
OnWay == Weigh(OrderQty, orders)
Answered == Weigh(ReservedOf(pending_reservations), results)
InHand == IF Reserving THEN order.qty ELSE 0
UnderWay == OnWay + Answered + InHand
Pending == IF lpc = "store" THEN rread ELSE pending_exposure

\* The fills that the listener will hear of, and those it never will.
PartOf(y) == [a \in Results |-> Part(a, y)]
FilledOf == [a \in Results |-> a.filled]
Queued == [y \in Symbols |-> Weigh(PartOf(y), results)]
Coming == [y \in Symbols |-> Queued[y] + (IF lpc # "idle" THEN Part(result, y) ELSE 0)]
Missing == [y \in Symbols |-> venue[y] - positions[y] - Coming[y]]

Lossy == running = "up" /\ odd \subseteq {"unsent", "lost"}
Accounted ==
    Lossy => /\ UnderWay + Gross(Missing) <= Pending
             /\ lpc = "store" => rread <= pending_exposure

Clean == running = "up" /\ odd = {}
Balanced == Clean => Pending = UnderWay /\ Missing = Flat

CommittedNext ==
    Committed + (IF mpc \in {"reserve", "reserveQty", "send"} /\ ~order.reduce THEN order.qty ELSE 0)
OvershootInv == odd \subseteq {"unsent", "lost"} => CommittedNext < MaxExposure + Top

\* Quantities.
QtyReserved ==
    /\ \A i \in DOMAIN orders : pending_qty_reservations[ClientOf(orders[i])]
                                  = Signed(orders[i].sig, orders[i].qty)
    /\ mpc = "send" => pending_qty_reservations[ClientOf(order)] = Signed(order.sig, order.qty)
SignedOf(y) == [o \in Sent |-> IF SymbolOf[o.sig] = y THEN Signed(o.sig, o.qty) ELSE 0]
QtyReservedOf(r, y) == [a \in Results |-> IF SymbolOf[a.sig] = y THEN r[ClientOf(a)] ELSE 0]
QtyOnWay(y) == Weigh(SignedOf(y), orders)
QtyAnswered(y) == Weigh(QtyReservedOf(pending_qty_reservations, y), results)
QtyInHand(y) ==
    (IF mpc = "send" /\ SymbolOf[order.sig] = y THEN Signed(order.sig, order.qty) ELSE 0)
    + (IF lpc \in {"store", "qty"} /\ SymbolOf[result.sig] = y
       THEN pending_qty_reservations[ClientOf(result)] ELSE 0)
QtyPending(y) == IF lpc = "storeQty" /\ SymbolOf[result.sig] = y THEN rread ELSE pending_position_qty[y]
QtyBalanced ==
    \A y \in Symbols : QtyPending(y) = QtyOnWay(y) + QtyAnswered(y) + QtyInHand(y)
NoStray ==
    \A c \in Clients : pending_reservations[c] # 0 =>
        \/ \E i \in DOMAIN orders : ClientOf(orders[i]) = c
        \/ \E i \in DOMAIN results : ClientOf(results[i]) = c
        \/ Reserving /\ ClientOf(order) = c
CleanInv == Clean => QtyReserved /\ QtyBalanced /\ NoStray

-----------------------------------------------------------------------------
LEMMA TopBounds ==
    Top \in Nat /\ Top >= 1 /\ \A q \in Sizes : q \in Nat /\ q <= Top
<1> DEFINE S == Sizes \cup {1}
<1>1. S \in SUBSET Nat /\ S # {} /\ IsFiniteSet(S)
  BY RiskGateAssumption, FS_AddElement
<1>2. \E m \in S : \A n \in S : m >= n
  BY <1>1, GreatestNatural
<1>3. Top \in S /\ \A n \in S : Top >= n
  BY <1>2 DEF Top, Max
<1>4. QED
  BY <1>1, <1>3

LEMMA ClientType ==
    ASSUME NEW o, o.sig \in Signals, o.ts \in Seconds
    PROVE  ClientOf(o) \in Clients /\ SymbolOf[o.sig] \in Symbols
BY RiskGateAssumption DEF ClientOf, Clients

LEMMA MagnitudeType ==
    ASSUME NEW n \in Int
    PROVE  Magnitude(n) \in Nat /\ Magnitude(n) \in Int
BY DEF Magnitude

LEMMA SignedType ==
    ASSUME NEW s \in Signals, NEW q \in Int
    PROVE  /\ Signed(s, q) \in Int /\ Magnitude(Signed(s, q)) = Magnitude(q)
           /\ q # 0 => Signed(s, q) # 0
BY RiskGateAssumption DEF Signed, Magnitude

LEMMA PartType ==
    ASSUME NEW a \in Reports, NEW y \in Symbols
    PROVE  Part(a, y) \in Int
BY SignedType, TopBounds DEF Part, Reports

LEMMA GrossType ==
    ASSUME NEW p, \A y \in Symbols : p[y] \in Int
    PROVE  Gross(p) \in Int /\ Gross(p) >= 0
<1> DEFINE f == [y \in Symbols |-> Magnitude(p[y])]
           z == [y \in Symbols |-> 0]
<1>1. \A y \in Symbols : f[y] \in Int /\ z[y] \in Int /\ z[y] <= f[y] /\ z[y] = 0
  BY MagnitudeType
<1>2. IsFiniteSet(Symbols)
  BY RiskGateAssumption
<1> HIDE DEF f, z
<1>3. SumFunctionOnSet(f, Symbols) \in Int
  BY <1>1, <1>2, SumType
<1>4. SumFunctionOnSet(z, Symbols) <= SumFunctionOnSet(f, Symbols)
  BY <1>1, <1>2, SumLeq
<1>5. SumFunctionOnSet(z, Symbols) = 0
  BY <1>1, <1>2, SumZero
<1>6. QED
  BY <1>3, <1>4, <1>5 DEF f, Gross

LEMMA GrossFlat ==
    ASSUME NEW p, \A y \in Symbols : p[y] = 0
    PROVE  Gross(p) = 0
<1> DEFINE f == [y \in Symbols |-> Magnitude(p[y])]
<1>1. \A y \in Symbols : f[y] = 0
  BY DEF Magnitude
<1>2. IsFiniteSet(Symbols)
  BY RiskGateAssumption
<1> HIDE DEF f
<1>3. SumFunctionOnSet(f, Symbols) = 0
  BY <1>1, <1>2, SumZero
<1>4. QED
  BY <1>3 DEF f, Gross

LEMMA GrossSame ==
    ASSUME NEW p, NEW q, \A y \in Symbols : p[y] = q[y]
    PROVE  Gross(p) = Gross(q)
BY DEF Gross

\* One position moved.
LEMMA GrossMove ==
    ASSUME NEW p, NEW q, NEW x \in Symbols,
           \A y \in Symbols : p[y] \in Int /\ q[y] \in Int,
           \A y \in Symbols : y # x => q[y] = p[y]
    PROVE  Gross(q) = Gross(p) + Magnitude(q[x]) - Magnitude(p[x])
<1> DEFINE f == [y \in Symbols |-> Magnitude(p[y])]
           g == [y \in Symbols |-> Magnitude(q[y])]
<1>1. \A y \in Symbols : f[y] \in Int /\ g[y] \in Int
  BY MagnitudeType
<1>2. \A y \in Symbols \ {x} : f[y] = g[y]
  OBVIOUS
<1>3. IsFiniteSet(Symbols)
  BY RiskGateAssumption
<1>4. f[x] = Magnitude(p[x]) /\ g[x] = Magnitude(q[x])
  OBVIOUS
<1> HIDE DEF f, g
<1>5. SumFunctionOnSet(g, Symbols) = SumFunctionOnSet(f, Symbols) + g[x] - f[x]
  BY <1>1, <1>2, <1>3, SumChange
<1>6. QED
  BY <1>4, <1>5 DEF f, g, Gross

\* The triangle inequality.
LEMMA GrossSum ==
    ASSUME NEW p, NEW q, NEW r,
           \A y \in Symbols : p[y] \in Int /\ q[y] \in Int /\ r[y] = p[y] + q[y]
    PROVE  Gross(r) <= Gross(p) + Gross(q)
<1> DEFINE f == [y \in Symbols |-> Magnitude(p[y])]
           g == [y \in Symbols |-> Magnitude(q[y])]
           h == [y \in Symbols |-> Magnitude(r[y])]
           k == [y \in Symbols |-> f[y] + g[y]]
<1>1. \A y \in Symbols : f[y] \in Int /\ g[y] \in Int /\ h[y] \in Int /\ k[y] \in Int
  BY MagnitudeType
<1>2. \A y \in Symbols : h[y] <= k[y]
  BY DEF Magnitude
<1>3. \A y \in Symbols : k[y] = f[y] + g[y]
  OBVIOUS
<1>4. IsFiniteSet(Symbols)
  BY RiskGateAssumption
<1> HIDE DEF f, g, h, k
<1>5. SumFunctionOnSet(k, Symbols) = SumFunctionOnSet(f, Symbols) + SumFunctionOnSet(g, Symbols)
  BY <1>1, <1>3, <1>4, SumPlus
<1>6. SumFunctionOnSet(h, Symbols) <= SumFunctionOnSet(k, Symbols)
  BY <1>1, <1>2, <1>4, SumLeq
<1>7. QED
  BY <1>5, <1>6 DEF f, g, h, Gross

LEMMA BookMoves ==
    ASSUME NEW p \in [Symbols -> Int], NEW a \in Reports
    PROVE  /\ Book(p, a) \in [Symbols -> Int]
           /\ \A y \in Symbols : Book(p, a)[y] = p[y] + Part(a, y)
<1>1. a.sig \in Signals /\ a.filled \in Int
  BY TopBounds DEF Reports
<1>2. Signed(a.sig, a.filled) \in Int /\ SymbolOf[a.sig] \in Symbols
  BY <1>1, SignedType, RiskGateAssumption
<1>3. QED
  BY <1>2 DEF Book, Part

-----------------------------------------------------------------------------
(* The venue and the positions table.                                       *)

LEMMA HeldType ==
    ASSUME fills \in Seq(Reports), NEW n \in 0..Len(fills), NEW y \in Symbols
    PROVE  /\ Held(n)[y] \in Int
           /\ n = 0 => Held(n)[y] = 0
           /\ n > 0 => Held(n)[y] = Held(n - 1)[y] + Part(fills[n], y)
<1> DEFINE F(k) == [i \in 1..k |-> Part(fills[i], y)]
<1>1. \A i \in 1..n : Part(fills[i], y) \in Int
  BY PartType
<1>2. \A k \in 0..n : Held(k)[y] = SumFunctionOnSet(F(k), 1..k)
  BY DEF Held
<1>3. Held(n)[y] \in Int
  <2>1. \A i \in 1..n : F(n)[i] \in Int
    BY <1>1
  <2>2. IsFiniteSet(1..n)
    BY FS_Interval
  <2> HIDE DEF F
  <2>3. SumFunctionOnSet(F(n), 1..n) \in Int
    BY <2>1, <2>2, SumType
  <2>4. QED
    BY <1>2, <2>3
<1>4. n = 0 => Held(n)[y] = 0
  <2>1. SUFFICES ASSUME n = 0 PROVE Held(n)[y] = 0
    OBVIOUS
  <2>2. 1..n = {}
    BY <2>1
  <2>3. SumFunctionOnSet(F(n), 1..n) = 0
    <3> HIDE DEF F
    <3>1. QED
      BY <2>2, SumEmpty
  <2>4. QED
    BY <1>2, <2>3
<1>5. n > 0 => Held(n)[y] = Held(n - 1)[y] + Part(fills[n], y)
  <2>1. SUFFICES ASSUME n > 0 PROVE Held(n)[y] = Held(n - 1)[y] + Part(fills[n], y)
    OBVIOUS
  <2>2. PICK m : m = n - 1
    OBVIOUS
  <2>3. m \in Nat /\ n = m + 1 /\ m \in 0..n
    BY <2>1, <2>2
  <2>4. \A i \in 1..m : F(m)[i] \in Int /\ F(n)[i] = F(m)[i]
    BY <1>1, <2>3
  <2>5. F(n)[m + 1] = Part(fills[n], y) /\ F(n)[m + 1] \in Int
    BY <1>1, <2>3
  <2> HIDE DEF F
  <2>6. SumFunctionOnSet(F(n), 1..(m + 1)) = SumFunctionOnSet(F(m), 1..m) + F(n)[m + 1]
    BY <2>3, <2>4, <2>5, SumLast
  <2>7. QED
    BY <1>2, <2>2, <2>3, <2>5, <2>6
<1>6. QED
  BY <1>3, <1>4, <1>5

LEMMA VenueType ==
    ASSUME fills \in Seq(Reports)
    PROVE  venue \in [Symbols -> Int]
<1>1. \A y \in Symbols : Held(Len(fills))[y] \in Int
  BY HeldType
<1>2. venue = [y \in Symbols |-> venue[y]]
  BY DEF venue, Held
<1>3. QED
  BY <1>1, <1>2 DEF venue

LEMMA VenueAppend ==
    ASSUME fills \in Seq(Reports), NEW a \in Reports, fills' = Append(fills, a), NEW y \in Symbols
    PROVE  venue'[y] = venue[y] + Part(a, y)
<1>1. fills' \in Seq(Reports) /\ Len(fills') = Len(fills) + 1 /\ fills'[Len(fills) + 1] = a
      /\ \A i \in 1..Len(fills) : fills'[i] = fills[i]
  OBVIOUS
<1> DEFINE n == Len(fills)
           F == [i \in 1..n |-> Part(fills[i], y)]
           G == [i \in 1..(n + 1) |-> Part(fills'[i], y)]
<1>2. \A i \in 1..n : F[i] \in Int /\ G[i] = F[i]
  BY <1>1, PartType
<1>3. G[n + 1] = Part(a, y) /\ G[n + 1] \in Int
  BY <1>1, PartType
<1>4. n \in Nat
  OBVIOUS
<1>5. venue[y] = SumFunctionOnSet(F, 1..n) /\ venue'[y] = SumFunctionOnSet(G, 1..(n + 1))
  BY <1>1 DEF venue, Held, Part, Signed
<1> HIDE DEF F, G, n
<1>6. SumFunctionOnSet(G, 1..(n + 1)) = SumFunctionOnSet(F, 1..n) + G[n + 1]
  BY <1>2, <1>3, <1>4, SumLast
<1>7. QED
  BY <1>3, <1>5, <1>6

LEMMA VenueStays ==
    ASSUME fills' = fills
    PROVE  venue' = venue
BY DEF venue, Held, Part, Signed

\* The table as a recursive function is what its equation says.
TableOf(T, n) == [k \in 0..n |-> IF k = 0 THEN Flat ELSE DbBook(T[k - 1], fills[k])]
IsTable(T, n) == T = TableOf(T, n)

LEMMA TableExists == \A n \in Nat : \E T : IsTable(T, n)
<1> DEFINE C == {n \in Nat : \E T : IsTable(T, n)}
<1>1. 0 \in C
  <2> DEFINE T == [k \in 0..0 |-> Flat]
  <2>1. IsTable(T, 0)
    BY DEF IsTable, TableOf
  <2>2. QED
    BY <2>1
<1>2. ASSUME NEW n \in Nat, n \in C PROVE n + 1 \in C
  <2>1. PICK T : IsTable(T, n)
    BY <1>2
  <2> DEFINE U == TableOf(T, n + 1)
  <2>2. \A k \in 0..n : T[k] = IF k = 0 THEN Flat ELSE DbBook(T[k - 1], fills[k])
    BY <2>1 DEF IsTable, TableOf
  <2>3. \A k \in 0..(n + 1) : U[k] = IF k = 0 THEN Flat ELSE DbBook(T[k - 1], fills[k])
    BY DEF TableOf
  <2>4. \A k \in 0..n : U[k] = T[k]
    BY <2>2, <2>3
  <2>5. \A k \in 0..(n + 1) : k # 0 => k - 1 \in 0..n
    OBVIOUS
  <2>6. \A k \in 0..(n + 1) : U[k] = IF k = 0 THEN Flat ELSE DbBook(U[k - 1], fills[k])
    BY <2>3, <2>4, <2>5
  <2>7. IsTable(U, n + 1)
    BY <2>6 DEF IsTable, TableOf
  <2>8. QED
    BY <2>7
<1> HIDE DEF C
<1>3. Nat \subseteq C
  BY <1>1, <1>2, Induction
<1>4. QED
  BY <1>3 DEF C

LEMMA TableUnfold ==
    ASSUME fills \in Seq(Reports), NEW n \in 0..Len(fills)
    PROVE  Table[n] = IF n = 0 THEN Flat ELSE DbBook(Table[n - 1], fills[n])
<1>1. Len(fills) \in Nat
  OBVIOUS
<1>2. Table = CHOOSE T : IsTable(T, Len(fills))
  BY DEF Table, IsTable, TableOf
<1>3. IsTable(Table, Len(fills))
  BY <1>1, <1>2, TableExists
<1>4. QED
  BY <1>3 DEF IsTable, TableOf

LEMMA DbBookType ==
    ASSUME NEW p \in [Symbols -> Int], NEW a \in Reports
    PROVE  /\ DbBook(p, a) \in [Symbols -> Int]
           /\ a.status # "SUBMITTED" =>
                \A y \in Symbols : DbBook(p, a)[y] = Floor(p[y] + Part(a, y))
<1>1. \A y \in Symbols : Book(p, a)[y] \in Int /\ Book(p, a)[y] = p[y] + Part(a, y)
  BY BookMoves
<1>2. QED
  BY <1>1 DEF DbBook, Floor

LEMMA TableType ==
    ASSUME fills \in Seq(Reports)
    PROVE  \A n \in 0..Len(fills) : Table[n] \in [Symbols -> Int]
<1> DEFINE C == {n \in Nat : n <= Len(fills) => Table[n] \in [Symbols -> Int]}
<1>1. 0 \in C
  BY TableUnfold DEF Flat
<1>2. ASSUME NEW n \in Nat, n \in C PROVE n + 1 \in C
  <2>1. SUFFICES ASSUME n + 1 <= Len(fills) PROVE Table[n + 1] \in [Symbols -> Int]
    OBVIOUS
  <2>2. n + 1 \in 0..Len(fills) /\ fills[n + 1] \in Reports /\ (n + 1) - 1 = n
    BY <2>1
  <2>3. Table[n + 1] = DbBook(Table[n], fills[n + 1])
    BY <2>2, TableUnfold
  <2>4. Table[n] \in [Symbols -> Int]
    BY <1>2, <2>1
  <2>5. QED
    BY <2>2, <2>3, <2>4, DbBookType
<1> HIDE DEF C
<1>3. Nat \subseteq C
  BY <1>1, <1>2, Induction
<1>4. QED
  BY <1>3 DEF C

\* As long as no position was short and no resting order filled, the table
\* shows what is held.
LEMMA TableIsHeld ==
    ASSUME fills \in Seq(Reports), ~Shorted, \A i \in DOMAIN fills : fills[i].status # "SUBMITTED"
    PROVE  \A y \in Symbols : Table[Len(fills)][y] = venue[y]
<1> DEFINE C == {n \in Nat : n <= Len(fills) => \A y \in Symbols : Table[n][y] = Held(n)[y]}
<1>1. 0 \in C
  BY TableUnfold, HeldType DEF Flat
<1>2. ASSUME NEW n \in Nat, n \in C PROVE n + 1 \in C
  <2>1. SUFFICES ASSUME n + 1 <= Len(fills), NEW y \in Symbols PROVE Table[n + 1][y] = Held(n + 1)[y]
    OBVIOUS
  <2>2. n + 1 \in 0..Len(fills) /\ fills[n + 1] \in Reports /\ (n + 1) - 1 = n /\ n + 1 \in DOMAIN fills
        /\ n + 1 > 0
    BY <2>1
  <2>3. Table[n + 1] = DbBook(Table[n], fills[n + 1])
    BY <2>2, TableUnfold
  <2>4. Table[n] \in [Symbols -> Int] /\ Table[n][y] = Held(n)[y]
    BY <1>2, <2>1, TableType
  <2>5. Table[n + 1][y] = Floor(Held(n)[y] + Part(fills[n + 1], y))
    BY <2>2, <2>3, <2>4, DbBookType
  <2>6. Held(n + 1)[y] = Held(n)[y] + Part(fills[n + 1], y) /\ Held(n + 1)[y] \in Int
    BY <2>2, HeldType
  <2>7. Held(n + 1)[y] >= 0
    BY <2>2, <2>6 DEF Shorted
  <2>8. QED
    BY <2>5, <2>6, <2>7 DEF Floor
<1> HIDE DEF C
<1>3. Nat \subseteq C
  BY <1>1, <1>2, Induction
<1>4. QED
  BY <1>3 DEF C, venue

-----------------------------------------------------------------------------
(* Types.                                                                   *)

LEMMA GateInitTypes == ASSUME GateInit PROVE GateTypeOK
<1>1. \A y \in Symbols : positions[y] = 0
  BY DEF GateInit
<1>2. total_exposure = Gross(positions)
  BY <1>1, GrossFlat DEF GateInit
<1>3. StateTypes
  BY <1>2 DEF GateInit, StateTypes
<1>4. MainTypes /\ ListenerTypes /\ DownTypes
  BY DEF GateInit, MainTypes, ListenerTypes, DownTypes
<1>5. WireTypes
  BY DEF GateInit, WireTypes
<1>6. QED
  BY <1>3, <1>4, <1>5 DEF GateTypeOK

LEMMA DraftTypes ==
    ASSUME MainTypes, mpc # "idle"
    PROVE  /\ order \in Drafts /\ order.sig \in Signals /\ order.ts \in Seconds
           /\ order.qty \in Nat /\ order.reduce \in BOOLEAN
           /\ SymbolOf[order.sig] \in Symbols /\ ClientOf(order) \in Clients
           /\ Signed(order.sig, order.qty) \in Int
           /\ mpc # "size" => order \in Sent /\ order.qty > 0
<1>1. /\ order \in Drafts /\ order.sig \in Signals /\ order.ts \in Seconds
      /\ order.qty \in Nat /\ order.reduce \in BOOLEAN
      /\ mpc # "size" => order \in Sent /\ order.qty > 0
  BY TopBounds DEF MainTypes, Drafts, Sent
<1>2. SymbolOf[order.sig] \in Symbols /\ ClientOf(order) \in Clients
  BY <1>1, ClientType
<1>3. Signed(order.sig, order.qty) \in Int
  BY <1>1, SignedType
<1>4. QED
  BY <1>1, <1>2, <1>3

LEMMA ReportTypes ==
    ASSUME NEW a \in Results
    PROVE  /\ a \in Reports /\ a.sig \in Signals /\ a.ts \in Seconds /\ a.filled \in Nat /\ a.filled <= Top
           /\ SymbolOf[a.sig] \in Symbols /\ ClientOf(a) \in Clients
           /\ a.status \notin FillStatuses => a.filled = 0
<1>1. /\ a \in Reports /\ a.sig \in Signals /\ a.ts \in Seconds /\ a.filled \in Nat /\ a.filled <= Top
      /\ a.status \notin FillStatuses => a.filled = 0
  BY TopBounds DEF Results, Reports
<1>2. QED
  BY <1>1, ClientType

LEMMA SentTypes ==
    ASSUME NEW o \in Sent
    PROVE  /\ o.sig \in Signals /\ o.ts \in Seconds /\ o.qty \in Nat /\ o.qty > 0 /\ o.qty <= Top
           /\ o.reduce \in BOOLEAN
           /\ SymbolOf[o.sig] \in Symbols /\ ClientOf(o) \in Clients
           /\ Signed(o.sig, o.qty) \in Int
<1>1. /\ o.sig \in Signals /\ o.ts \in Seconds /\ o.qty \in Nat /\ o.qty > 0 /\ o.qty <= Top
      /\ o.reduce \in BOOLEAN
  BY TopBounds DEF Sent
<1>2. QED
  BY <1>1, ClientType, SignedType

\* What the execution service may answer.
LEMMA AnswerType ==
    ASSUME fills \in Seq(Reports), NEW o \in Sent, NEW a \in ResultsOf(o)
    PROVE  /\ a \in Results /\ a.sig = o.sig /\ a.ts = o.ts /\ a.filled <= o.qty
           /\ [a EXCEPT !.filled = o.qty] \in Reports
           /\ o.reduce => \/ a.filled = 0
                          \/ /\ venue[SymbolOf[o.sig]] * Signed(o.sig, 1) < 0
                             /\ a.filled <= Magnitude(venue[SymbolOf[o.sig]])
<1> DEFINE y == SymbolOf[o.sig]
           closing == IF venue[y] * Signed(o.sig, 1) < 0 THEN Magnitude(venue[y]) ELSE 0
           most == IF o.reduce /\ closing < o.qty THEN closing ELSE o.qty
<1>1. o.qty \in Nat /\ o.qty <= Top /\ o.sig \in Signals /\ o.ts \in Seconds /\ y \in Symbols
      /\ o.reduce \in BOOLEAN /\ Top \in Nat
  BY SentTypes, TopBounds
<1>2. venue[y] \in Int
  BY <1>1, VenueType
<1>3. closing \in Nat
  BY <1>2, MagnitudeType
<1>4. PICK k \in ResultStatuses, f \in 0..o.qty :
        /\ a = [sig |-> o.sig, ts |-> o.ts, status |-> k, filled |-> f]
        /\ CASE a.status = "FILLED" -> a.filled = most /\ most > 0
             [] a.status = "PARTIALLY_FILLED" -> a.filled \in 1..(most - 1)
             [] OTHER -> a.filled = 0
  BY DEF ResultsOf
<1>5. k \in {"FILLED", "PARTIALLY_FILLED", "REJECTED", "SUBMITTED"}
  BY RiskGateAssumption
<1>6. a.status = k /\ a.filled = f /\ a.sig = o.sig /\ a.ts = o.ts /\ f \in Nat /\ f <= o.qty /\ f <= Top
  BY <1>1, <1>4
<1>7. a \in Reports /\ [a EXCEPT !.filled = o.qty] \in Reports
  BY <1>1, <1>4, <1>5, <1>6 DEF Reports
<1>8. most \in Nat /\ most <= o.qty /\ (o.reduce => most <= closing)
  BY <1>1, <1>3
<1> HIDE DEF most, closing
<1>9. a.filled <= most \/ a.filled = 0
  BY <1>4, <1>5, <1>6, <1>8
<1>10. a.status \notin FillStatuses => a.filled = 0
  BY <1>4, <1>5, <1>6 DEF FillStatuses
<1>11. o.reduce => \/ a.filled = 0
                   \/ /\ venue[y] * Signed(o.sig, 1) < 0
                      /\ a.filled <= Magnitude(venue[y])
  BY <1>3, <1>6, <1>8, <1>9 DEF closing
<1>12. QED
  BY <1>6, <1>7, <1>10, <1>11 DEF Results

LEMMA StateTypeStep ==
    ASSUME GateTypeOK, [GateNext]_gateVars
    PROVE  StateTypes'
<1> USE DEF gateVars, riskState, mainVars, listenerVars, worldVars
<1>t. StateTypes /\ MainTypes /\ ListenerTypes /\ WireTypes
  BY DEF GateTypeOK
<1>0. CASE UNCHANGED riskState
  BY <1>0, <1>t DEF StateTypes, Gross
<1>1. CASE Reserve
  <2>1. order.qty \in Nat /\ ClientOf(order) \in Clients
    BY <1>1, <1>t, DraftTypes DEF Reserve
  <2>2. QED
    BY <1>1, <1>t, <2>1 DEF Reserve, StateTypes, Gross
<1>2. CASE ReserveQty
  <2>1. Signed(order.sig, order.qty) \in Int /\ ClientOf(order) \in Clients /\ mread \in Int
    BY <1>2, <1>t, DraftTypes DEF ReserveQty, MainTypes
  <2>2. pending_position_qty' \in [Symbols -> Int] /\ pending_qty_reservations' \in [Clients -> Int]
    <3>1. mread + Signed(order.sig, order.qty) \in Int
      BY <2>1
    <3>2. QED
      BY <1>2, <1>t, <2>1, <3>1 DEF ReserveQty, StateTypes
  <2>3. UNCHANGED <<positions, total_exposure, pending_exposure, pending_reservations>>
    BY <1>2 DEF ReserveQty
  <2>4. QED
    BY <1>t, <2>2, <2>3 DEF StateTypes, Gross
<1>3. CASE Release
  BY <1>3, <1>t DEF Release, StateTypes, Gross
<1>4. CASE StoreRelease
  BY <1>4, <1>t DEF StoreRelease, StateTypes, ListenerTypes, Gross
<1>5. CASE ReleaseQty
  <2>1. pending_qty_reservations' \in [Clients -> Int]
    <3>1. pending_qty_reservations' = [pending_qty_reservations EXCEPT ![ClientOf(result)] = 0]
      BY <1>5 DEF ReleaseQty
    <3>2. ClientOf(result) \in Clients /\ pending_qty_reservations \in [Clients -> Int]
      BY <1>5, <1>t, ReportTypes DEF ReleaseQty, ListenerTypes, StateTypes
    <3>3. QED
      BY <3>1, <3>2
  <2>2. UNCHANGED <<positions, total_exposure, pending_exposure, pending_position_qty, pending_reservations>>
    BY <1>5 DEF ReleaseQty
  <2>3. QED
    BY <1>t, <2>1, <2>2 DEF StateTypes, Gross
<1>6. CASE StoreReleaseQty
  <2>1. pending_position_qty' \in [Symbols -> Int]
    BY <1>6, <1>t DEF StoreReleaseQty, StateTypes, ListenerTypes
  <2>2. UNCHANGED <<positions, total_exposure, pending_exposure, pending_reservations, pending_qty_reservations>>
    BY <1>6 DEF StoreReleaseQty
  <2>3. QED
    BY <1>t, <2>1, <2>2 DEF StateTypes, Gross
<1>7. CASE UpdateExposure
  <2>1. result \in Reports /\ positions \in [Symbols -> Int]
    BY <1>7, <1>t DEF UpdateExposure, StateTypes, ListenerTypes, Results
  <2>2. Book(positions, result) \in [Symbols -> Int]
    BY <2>1, BookMoves
  <2>3. CASE result.status \in FillStatuses
    <3>1. positions' = Book(positions, result) /\ total_exposure' = Gross(positions')
      BY <1>7, <2>3 DEF UpdateExposure
    <3>2. QED
      BY <1>7, <1>t, <2>2, <3>1 DEF UpdateExposure, StateTypes, Gross
  <2>4. CASE result.status \notin FillStatuses
    BY <1>7, <1>0, <2>4 DEF UpdateExposure
  <2>5. QED
    BY <2>3, <2>4
<1>8. CASE Crash
  <2>1. \A y \in Symbols : positions'[y] = 0
    BY <1>8 DEF Crash
  <2>2. \A p : (\A y \in Symbols : p[y] = 0) => Gross(p) = 0
    BY GrossFlat
  <2>3. Gross(positions') = 0
    BY <2>1, <2>2
  <2>4. QED
    BY <1>8, <2>3 DEF Crash, StateTypes, Gross
<1>9. CASE Bootstrap
  <2>1. CASE positions' = Table[booked'] /\ total_exposure' = Gross(positions')
    <3>1. booked' \in 0..Len(fills)
      BY <1>9, <1>t DEF Bootstrap, WireTypes
    <3>2. positions' \in [Symbols -> Int]
      BY <1>t, <2>1, <3>1, TableType DEF WireTypes
    <3>3. QED
      BY <1>9, <1>t, <2>1, <3>2 DEF Bootstrap, StateTypes, Gross
  <2>2. CASE UNCHANGED <<positions, total_exposure>>
    BY <1>9, <1>0, <2>2 DEF Bootstrap
  <2>3. QED
    BY <1>9, <2>1, <2>2 DEF Bootstrap
<1>10. CASE (\E s \in Signals : Screen(s)) \/ Size \/ ReadExposure \/ HardGate \/ SendOrder
            \/ Execute \/ Subscribe \/ UNCHANGED gateVars
  BY <1>10, <1>0 DEF Screen, Size, ReadExposure, HardGate, SendOrder, Execute, Subscribe
<1>11. QED
  BY <1>1, <1>2, <1>3, <1>4, <1>5, <1>6, <1>7, <1>8, <1>9, <1>10 DEF GateNext, MainStep, ListenerStep

LEMMA MainTypeStep ==
    ASSUME GateTypeOK, [GateNext]_gateVars
    PROVE  MainTypes'
<1> USE DEF gateVars, riskState, mainVars, listenerVars, worldVars
<1>t. StateTypes /\ MainTypes /\ ListenerTypes /\ WireTypes
  BY DEF GateTypeOK
<1>0. CASE UNCHANGED mainVars
  BY <1>0, <1>t DEF MainTypes
<1>i. CASE MainIdle
  BY <1>i DEF MainIdle, MainTypes
<1>1. ASSUME NEW s \in Signals, Screen(s) PROVE MainTypes'
  <2>1. CASE UNCHANGED <<mpc, order>>
    BY <1>1, <1>0, <2>1 DEF Screen
  <2>2. ASSUME NEW ts \in Seconds, mpc' = "size",
               order' = [sig |-> s, ts |-> ts, qty |-> 0, reduce |-> ReduceOnlyAllowed(s)]
        PROVE  MainTypes'
    <3>1. ReduceOnlyAllowed(s) \in BOOLEAN
      BY DEF ReduceOnlyAllowed
    <3>2. order' \in Drafts
      BY <2>2, <3>1, TopBounds DEF Drafts
    <3>3. QED
      BY <1>1, <1>t, <2>2, <3>2 DEF Screen, MainTypes
  <2>3. QED
    BY <1>1, <2>1, <2>2 DEF Screen
<1>2. CASE Size
  <2>1. PICK q \in Sizes :
          LET open == Magnitude(positions[SymbolOf[order.sig]])
              quantity == IF order.reduce /\ open < q THEN open ELSE q
          IN IF quantity = 0 THEN MainIdle
             ELSE /\ order' = [order EXCEPT !.qty = quantity]
                  /\ mpc' = IF order.reduce THEN "reserve" ELSE "gate"
                  /\ UNCHANGED mread
    BY <1>2 DEF Size
  <2> DEFINE open == Magnitude(positions[SymbolOf[order.sig]])
             quantity == IF order.reduce /\ open < q THEN open ELSE q
  <2>2. order \in Drafts /\ SymbolOf[order.sig] \in Symbols /\ mread \in Int
    BY <1>2, <1>t, DraftTypes DEF Size, MainTypes
  <2>3. open \in Nat /\ q \in Nat /\ q <= Top /\ Top \in Nat
    BY <1>t, <2>2, MagnitudeType, TopBounds DEF StateTypes
  <2>4. CASE quantity = 0
    BY <1>i, <2>1, <2>4
  <2>5. CASE quantity # 0
    <3>1. quantity \in 1..Top
      BY <2>3, <2>5
    <3>2. /\ order' = [order EXCEPT !.qty = quantity]
          /\ mpc' = IF order.reduce THEN "reserve" ELSE "gate"
          /\ UNCHANGED mread
      BY <2>1, <2>5
    <3> HIDE DEF quantity
    <3>3. order' \in Sent /\ order' \in Drafts /\ order'.reduce = order.reduce
      BY <2>2, <3>1, <3>2 DEF Drafts, Sent
    <3>4. QED
      BY <2>2, <3>2, <3>3 DEF MainTypes, Drafts
  <2>6. QED
    BY <2>4, <2>5
<1>3. CASE ReadExposure
  <2>1. total_exposure \in Int
    BY <1>t, GrossType DEF StateTypes
  <2>2. QED
    BY <1>3, <1>t, <2>1 DEF ReadExposure, MainTypes
<1>4. CASE HardGate
  BY <1>4, <1>i, <1>t DEF HardGate, MainTypes
<1>5. CASE Reserve
  <2>1. SymbolOf[order.sig] \in Symbols
    BY <1>5, <1>t, DraftTypes DEF Reserve
  <2>2. QED
    BY <1>5, <1>t, <2>1 DEF Reserve, MainTypes, StateTypes
<1>6. CASE ReserveQty
  BY <1>6, <1>t DEF ReserveQty, MainTypes
<1>7. CASE SendOrder \/ Crash
  BY <1>7, <1>i DEF SendOrder, Crash
<1>8. CASE ListenerStep \/ Execute \/ Subscribe \/ Bootstrap \/ UNCHANGED gateVars
  BY <1>8, <1>0 DEF ListenerStep, Release, StoreRelease, ReleaseQty, StoreReleaseQty, UpdateExposure,
     Execute, Subscribe, Bootstrap
<1>9. QED
  BY <1>1, <1>2, <1>3, <1>4, <1>5, <1>6, <1>7, <1>8 DEF GateNext, MainStep

LEMMA ListenerTypeStep ==
    ASSUME GateTypeOK, [GateNext]_gateVars
    PROVE  ListenerTypes'
<1> USE DEF gateVars, riskState, mainVars, listenerVars, worldVars
<1>t. StateTypes /\ MainTypes /\ ListenerTypes /\ WireTypes
  BY DEF GateTypeOK
<1>0. CASE UNCHANGED listenerVars
  BY <1>0, <1>t DEF ListenerTypes
<1>1. CASE Release
  <2>1. Head(results) \in Results
    BY <1>1, <1>t DEF Release, WireTypes
  <2>2. ClientOf(Head(results)) \in Clients
    BY <2>1, ReportTypes
  <2>3. Floor(pending_exposure - pending_reservations[ClientOf(Head(results))]) \in Nat
    BY <1>t, <2>2 DEF Floor, StateTypes
  <2>4. QED
    BY <1>1, <1>t, <2>1, <2>3 DEF Release, ListenerTypes
<1>2. CASE StoreRelease
  BY <1>2, <1>t DEF StoreRelease, ListenerTypes
<1>3. CASE ReleaseQty
  <2>1. ClientOf(result) \in Clients /\ SymbolOf[result.sig] \in Symbols
    BY <1>3, <1>t, ReportTypes DEF ReleaseQty, ListenerTypes
  <2>2. QED
    BY <1>3, <1>t, <2>1 DEF ReleaseQty, ListenerTypes, StateTypes
<1>4. CASE StoreReleaseQty
  BY <1>4, <1>t DEF StoreReleaseQty, ListenerTypes
<1>5. CASE UpdateExposure
  BY <1>5, <1>t DEF UpdateExposure, ListenerTypes
<1>6. CASE Crash
  BY <1>6 DEF Crash, ListenerTypes
<1>7. CASE (\E s \in Signals : Screen(s)) \/ MainStep \/ Execute \/ Subscribe \/ Bootstrap
           \/ UNCHANGED gateVars
  BY <1>7, <1>0 DEF Screen, MainStep, Size, ReadExposure, HardGate, Reserve, ReserveQty, SendOrder,
     Execute, Subscribe, Bootstrap
<1>8. QED
  BY <1>1, <1>2, <1>3, <1>4, <1>5, <1>6, <1>7 DEF GateNext, ListenerStep

\* What one execution appends.
LEMMA ExecuteEffect ==
    ASSUME GateTypeOK, Execute
    PROVE  \E a \in ResultsOf(Head(orders)) :
             /\ Head(orders) \in Sent /\ a \in Results
             /\ orders # <<>> /\ orders' = Tail(orders)
             /\ \/ results' = Append(results, a) /\ odd' = odd \cup {h \in {"resting"} : a.status = "SUBMITTED"}
                \/ results' = results /\ odd' = odd \cup {h \in {"resting"} : a.status = "SUBMITTED"} \cup {"lost"}
             /\ \/ /\ a.status = "SUBMITTED" /\ "resting" \in odd'
                   /\ fills' = Append(fills, [a EXCEPT !.filled = Head(orders).qty])
                \/ /\ a.status # "SUBMITTED"
                   /\ fills' = IF a.filled > 0 THEN Append(fills, a) ELSE fills
             /\ UNCHANGED <<riskState, mainVars, listenerVars, running, restarts, inbox, booked>>
<1>1. orders \in Seq(Sent) /\ orders # <<>> /\ Head(orders) \in Sent /\ fills \in Seq(Reports)
  BY DEF Execute, GateTypeOK, WireTypes
<1>2. PICK a \in ResultsOf(Head(orders)) :
        LET fill == IF a.status = "SUBMITTED" THEN [a EXCEPT !.filled = Head(orders).qty] ELSE a
            now == {h \in {"resting"} : a.status = "SUBMITTED"}
        IN /\ fills' = IF fill.filled > 0 THEN Append(fills, fill) ELSE fills
           /\ \/ results' = Append(results, a) /\ odd' = odd \cup now
              \/ odd' = odd \cup now \cup {"lost"} /\ UNCHANGED results
  BY DEF Execute
<1>3. a \in Results
  BY <1>1, AnswerType
<1>4. Head(orders).qty \in Nat /\ Head(orders).qty > 0
  BY <1>1, SentTypes
<1>5. CASE a.status = "SUBMITTED"
  <2>1. [a EXCEPT !.filled = Head(orders).qty].filled = Head(orders).qty
    BY <1>3 DEF Results, Reports
  <2>2. fills' = Append(fills, [a EXCEPT !.filled = Head(orders).qty]) /\ "resting" \in odd'
    BY <1>2, <1>4, <1>5, <2>1
  <2>3. QED
    BY <1>1, <1>2, <1>3, <1>5, <2>2 DEF Execute
<1>6. CASE a.status # "SUBMITTED"
  BY <1>1, <1>2, <1>3, <1>6 DEF Execute
<1>7. QED
  BY <1>5, <1>6

LEMMA WireTypeStep ==
    ASSUME GateTypeOK, [GateNext]_gateVars
    PROVE  WireTypes' /\ odd \subseteq odd'
<1> USE DEF gateVars, riskState, mainVars, listenerVars, worldVars
<1>t. StateTypes /\ MainTypes /\ ListenerTypes /\ WireTypes
  BY DEF GateTypeOK
<1>0. CASE UNCHANGED <<orders, results, fills, booked>> /\ inbox' \subseteq inbox /\ odd \subseteq odd'
  BY <1>0, <1>t DEF WireTypes
<1>1. CASE SendOrder
  <2>1. order \in Sent
    BY <1>1, <1>t DEF SendOrder, MainTypes
  <2>2. orders' \in Seq(Sent)
    BY <1>1, <1>t, <2>1 DEF SendOrder, WireTypes
  <2>3. odd \subseteq odd'
    BY <1>1 DEF SendOrder
  <2>4. UNCHANGED <<inbox, results, fills, booked>>
    BY <1>1 DEF SendOrder
  <2>5. QED
    BY <1>t, <2>2, <2>3, <2>4 DEF WireTypes
<1>2. CASE Release
  BY <1>2, <1>t DEF Release, WireTypes
<1>3. CASE Execute
  <2>1. PICK a \in ResultsOf(Head(orders)) :
             /\ Head(orders) \in Sent /\ a \in Results
             /\ orders # <<>> /\ orders' = Tail(orders)
             /\ \/ results' = Append(results, a) /\ odd' = odd \cup {h \in {"resting"} : a.status = "SUBMITTED"}
                \/ results' = results /\ odd' = odd \cup {h \in {"resting"} : a.status = "SUBMITTED"} \cup {"lost"}
             /\ \/ /\ a.status = "SUBMITTED" /\ "resting" \in odd'
                   /\ fills' = Append(fills, [a EXCEPT !.filled = Head(orders).qty])
                \/ /\ a.status # "SUBMITTED"
                   /\ fills' = IF a.filled > 0 THEN Append(fills, a) ELSE fills
             /\ UNCHANGED <<riskState, mainVars, listenerVars, running, restarts, inbox, booked>>
    BY <1>3, ExecuteEffect
  <2>2. a \in Reports /\ [a EXCEPT !.filled = Head(orders).qty] \in Reports /\ fills \in Seq(Reports)
    BY <1>t, <2>1, AnswerType DEF WireTypes, Results
  <2>3. orders' \in Seq(Sent) /\ results' \in Seq(Results) /\ odd \subseteq odd'
    <3>1. odd \subseteq odd'
      BY <2>1
    <3>2. orders' = Tail(orders) /\ orders # <<>> /\ orders \in Seq(Sent)
      BY <1>t, <2>1 DEF WireTypes
    <3>3. orders' \in Seq(Sent)
      BY <3>2
    <3>4. (results' = Append(results, a) \/ results' = results) /\ a \in Results
      BY <2>1
    <3>5. results' \in Seq(Results)
      BY <1>t, <3>4 DEF WireTypes
    <3>6. QED
      BY <3>1, <3>3, <3>5
  <2>4. CASE a.status = "SUBMITTED" /\ "resting" \in odd'
             /\ fills' = Append(fills, [a EXCEPT !.filled = Head(orders).qty])
    BY <1>t, <2>1, <2>2, <2>3, <2>4 DEF WireTypes
  <2>5. CASE a.status # "SUBMITTED" /\ fills' = IF a.filled > 0 THEN Append(fills, a) ELSE fills
    <3>1. fills' \in Seq(Reports)
      BY <2>2, <2>5
    <3>2. \A i \in DOMAIN fills' : fills'[i] = a \/ (i \in DOMAIN fills /\ fills'[i] = fills[i])
      BY <2>2, <2>5
    <3>3. QED
      BY <1>t, <2>1, <2>3, <2>5, <3>1, <3>2 DEF WireTypes
  <2>6. QED
    BY <2>1, <2>4, <2>5
<1>4. CASE Crash \/ Subscribe
  <2>1. results' = <<>> /\ UNCHANGED <<inbox, orders, fills, booked, odd>>
    BY <1>4 DEF Crash, Subscribe
  <2>2. results' \in Seq(Results)
    BY <2>1
  <2>3. QED
    BY <1>t, <2>1, <2>2 DEF WireTypes
<1>5. CASE Bootstrap
  BY <1>5, <1>t DEF Bootstrap, WireTypes
<1>6. CASE (\E s \in Signals : Screen(s)) \/ Size \/ ReadExposure \/ HardGate \/ Reserve \/ ReserveQty
           \/ StoreRelease \/ ReleaseQty \/ StoreReleaseQty \/ UpdateExposure \/ UNCHANGED gateVars
  BY <1>6, <1>0 DEF Screen, Size, ReadExposure, HardGate, Reserve, ReserveQty, StoreRelease, ReleaseQty,
     StoreReleaseQty, UpdateExposure
<1>7. QED
  BY <1>1, <1>2, <1>3, <1>4, <1>5, <1>6 DEF GateNext, MainStep, ListenerStep

LEMMA DownTypeStep ==
    ASSUME GateTypeOK, [GateNext]_gateVars
    PROVE  DownTypes'
<1> USE DEF gateVars, riskState, mainVars, listenerVars, worldVars
<1>t. StateTypes /\ MainTypes /\ ListenerTypes /\ WireTypes /\ DownTypes
  BY DEF GateTypeOK
<1>1. ASSUME NEW s \in Signals, Screen(s) PROVE DownTypes'
  BY <1>1, <1>t DEF Screen, DownTypes
<1>2. CASE MainStep
  <2>1. running = "up" /\ running' = "up"
    BY <1>2, <1>t DEF MainStep, Size, ReadExposure, HardGate, Reserve, ReserveQty, SendOrder, DownTypes
  <2>2. QED
    BY <2>1 DEF DownTypes
<1>3. CASE ListenerStep
  <2>1. running = "up" /\ running' = "up"
    BY <1>3, <1>t DEF ListenerStep, Release, StoreRelease, ReleaseQty, StoreReleaseQty, UpdateExposure, DownTypes
  <2>2. QED
    BY <2>1 DEF DownTypes
<1>4. CASE Crash
  BY <1>4 DEF Crash, DownTypes, MainIdle, Flat
<1>5. CASE Execute \/ Subscribe \/ Bootstrap \/ UNCHANGED gateVars
  <2>1. UNCHANGED <<mpc, lpc, pending_exposure, pending_position_qty, pending_reservations>>
    BY <1>5 DEF Execute, Subscribe, Bootstrap
  <2>2. running' = running \/ (running # "up" /\ running' \in {"up", "down", "subscribed"})
    BY <1>5 DEF Execute, Subscribe, Bootstrap
  <2>3. QED
    BY <1>t, <2>1, <2>2 DEF DownTypes, Flat
<1>6. QED
  BY <1>1, <1>2, <1>3, <1>4, <1>5 DEF GateNext

LEMMA GateTypeStep == ASSUME GateTypeOK, [GateNext]_gateVars PROVE GateTypeOK' /\ odd \subseteq odd'
BY StateTypeStep, MainTypeStep, ListenerTypeStep, WireTypeStep, DownTypeStep DEF GateTypeOK

-----------------------------------------------------------------------------
(* Reservations of what is under way.                                       *)

LEMMA AppendAt ==
    ASSUME NEW S, NEW q \in Seq(S), NEW e \in S, NEW i \in DOMAIN Append(q, e)
    PROVE  \/ i \in DOMAIN q /\ Append(q, e)[i] = q[i]
           \/ i = Len(q) + 1 /\ i \notin DOMAIN q /\ Append(q, e)[i] = e
OBVIOUS

LEMMA TailAt ==
    ASSUME NEW S, NEW q \in Seq(S), q # <<>>
    PROVE  /\ 1 \in DOMAIN q /\ Head(q) = q[1]
           /\ \A i \in DOMAIN Tail(q) : i + 1 \in DOMAIN q /\ i + 1 # 1 /\ Tail(q)[i] = q[i + 1]
           /\ \A i, j \in DOMAIN Tail(q) : i # j => i + 1 # j + 1
OBVIOUS

LEMMA ReservedStep ==
    ASSUME GateTypeOK, ReservedInv, [GateNext]_gateVars
    PROVE  ReservedInv'
<1> USE DEF gateVars, riskState, mainVars, listenerVars, worldVars
<1>t. StateTypes /\ MainTypes /\ ListenerTypes /\ WireTypes /\ DownTypes /\ odd \subseteq odd'
      /\ orders \in Seq(Sent) /\ results \in Seq(Results) /\ fills \in Seq(Reports)
  BY GateTypeStep DEF GateTypeOK, WireTypes
<1>s. SUFFICES ASSUME Sane' PROVE Reserved'
  BY DEF ReservedInv
<1>o. running' = "up" /\ odd \cap {"shared", "restart"} = {} /\ odd' \cap {"shared", "restart"} = {}
  BY <1>s, <1>t DEF Sane
<1>r. running = "up" => Reserved
  BY <1>o DEF ReservedInv, Sane
<1>ord. \A i \in DOMAIN orders : orders[i] \in Sent /\ orders[i].qty > 0 /\ orders[i].qty \in Nat
                                 /\ ClientOf(orders[i]) \in Clients
  BY <1>t, SentTypes
<1>res. \A i \in DOMAIN results : results[i] \in Results /\ ClientOf(results[i]) \in Clients
                                  /\ results[i].filled \in Nat
  BY <1>t, ReportTypes
<1>pr. pending_reservations \in [Clients -> Nat]
  BY <1>t DEF StateTypes
<1>0. CASE /\ running = "up" /\ UNCHANGED <<orders, results, pending_reservations>>
           /\ Reserving' => Reserving /\ order' = order
           /\ lpc' # "idle" => lpc # "idle" /\ result' = result
  <2>1. Reserved
    BY <1>0, <1>r
  <2>2. OrdersReserved' /\ ResultsReserved'
    BY <1>0, <2>1 DEF Reserved, OrdersReserved, ResultsReserved, ClientOf
  <2>3. Distinct'
    BY <1>0, <2>1 DEF Reserved, Distinct, ClientOf
  <2>4. HandReserved' /\ ReleasedGone'
    BY <1>0, <2>1 DEF Reserved, HandReserved, ReleasedGone, ClientOf
  <2>5. HandDistinct'
    BY <1>0, <2>1 DEF Reserved, HandDistinct, ClientOf
  <2>6. QED
    BY <2>2, <2>3, <2>4, <2>5 DEF Reserved
<1>1. CASE \/ \E s \in Signals : Screen(s)
           \/ Size \/ ReadExposure \/ HardGate \/ ReserveQty
           \/ StoreRelease \/ ReleaseQty \/ StoreReleaseQty \/ UpdateExposure
           \/ UNCHANGED gateVars
  <2>1. UNCHANGED <<orders, results, pending_reservations, running>>
    BY <1>1 DEF Screen, Size, ReadExposure, HardGate, ReserveQty, StoreRelease, ReleaseQty,
       StoreReleaseQty, UpdateExposure
  <2>2. Reserving' => Reserving /\ order' = order
    BY <1>1 DEF Screen, Size, ReadExposure, HardGate, ReserveQty, StoreRelease, ReleaseQty,
       StoreReleaseQty, UpdateExposure, MainIdle, Reserving
  <2>3. lpc' # "idle" => lpc # "idle" /\ result' = result
    BY <1>1 DEF Screen, Size, ReadExposure, HardGate, ReserveQty, StoreRelease, ReleaseQty,
       StoreReleaseQty, UpdateExposure
  <2>4. QED
    BY <1>0, <1>o, <2>1, <2>2, <2>3
<1>2. CASE Reserve
  <2> DEFINE c == ClientOf(order)
  <2>1. running = "up" /\ Reserved
    BY <1>2, <1>t, <1>r DEF Reserve, DownTypes
  <2>2. order.qty \in Nat /\ order.qty > 0 /\ c \in Clients
    BY <1>2, <1>t, DraftTypes DEF Reserve
  <2>3. UNCHANGED <<orders, results, order, lpc, result>> /\ mpc' = "reserveQty"
        /\ pending_reservations' = [pending_reservations EXCEPT ![c] = order.qty]
    BY <1>2 DEF Reserve
  <2>4. ~(\/ pending_reservations[c] # 0 \/ pending_qty_reservations[c] # 0
          \/ lpc # "idle" /\ ClientOf(result) = c)
    BY <1>2, <1>o DEF Reserve
  <2>5. \A d \in Clients : d # c => pending_reservations'[d] = pending_reservations[d]
    BY <1>pr, <2>3
  <2>6. pending_reservations'[c] = order.qty
    BY <1>pr, <2>2, <2>3
  <2>7. \A i \in DOMAIN orders : ClientOf(orders[i]) # c
    BY <1>ord, <2>1, <2>4 DEF Reserved, OrdersReserved
  <2>8. \A i \in DOMAIN results : ClientOf(results[i]) # c
    BY <1>res, <2>1, <2>4 DEF Reserved, ResultsReserved
  <2>9. OrdersReserved'
    BY <1>ord, <2>1, <2>3, <2>5, <2>7 DEF Reserved, OrdersReserved, ClientOf
  <2>10. ResultsReserved'
    BY <1>res, <2>1, <2>3, <2>5, <2>8 DEF Reserved, ResultsReserved, ClientOf
  <2>11. HandReserved' /\ HandDistinct'
    BY <2>3, <2>6, <2>7, <2>8 DEF HandReserved, HandDistinct, ClientOf
  <2>12. ReleasedGone'
    <3>1. SUFFICES ASSUME lpc # "idle" PROVE pending_reservations'[ClientOf(result)] = 0
      BY <2>3 DEF ReleasedGone, ClientOf
    <3>2. ClientOf(result) \in Clients /\ ClientOf(result) # c /\ pending_reservations[ClientOf(result)] = 0
      BY <1>t, <2>1, <2>4, <3>1, ReportTypes DEF ListenerTypes, Reserved, ReleasedGone
    <3>3. QED
      BY <2>5, <3>2
  <2>13. Distinct'
    BY <2>1, <2>3 DEF Reserved, Distinct, ClientOf
  <2>14. QED
    BY <2>9, <2>10, <2>11, <2>12, <2>13 DEF Reserved
<1>3. CASE SendOrder
  <2>1. running = "up" /\ Reserved /\ Reserving
    BY <1>3, <1>t, <1>r DEF SendOrder, DownTypes, Reserving
  <2>2. UNCHANGED <<results, pending_reservations, lpc, result>> /\ mpc' = "idle"
    BY <1>3 DEF SendOrder, MainIdle
  <2>3. CASE orders' = orders
    BY <1>0, <2>1, <2>2, <2>3 DEF Reserving
  <2>4. CASE orders' = Append(orders, order)
    <3>1. order \in Sent
      BY <1>3, <1>t DEF SendOrder, MainTypes
    <3>2. \A i \in DOMAIN orders' : \/ i \in DOMAIN orders /\ orders'[i] = orders[i]
                                    \/ i = Len(orders) + 1 /\ i \notin DOMAIN orders /\ orders'[i] = order
      BY <1>t, <2>4, <3>1, AppendAt
    <3>3. pending_reservations[ClientOf(order)] = order.qty
          /\ (\A i \in DOMAIN orders : ClientOf(orders[i]) # ClientOf(order))
          /\ (\A i \in DOMAIN results : ClientOf(results[i]) # ClientOf(order))
      BY <2>1 DEF Reserved, HandReserved, HandDistinct
    <3>4. OrdersReserved'
      BY <2>1, <2>2, <3>2, <3>3 DEF Reserved, OrdersReserved, ClientOf
    <3>5. ResultsReserved' /\ ReleasedGone'
      BY <2>1, <2>2 DEF Reserved, ResultsReserved, ReleasedGone, ClientOf
    <3>6. HandReserved' /\ HandDistinct'
      BY <2>2 DEF HandReserved, HandDistinct, Reserving
    <3>7. \A i, j \in DOMAIN orders' : i # j => ClientOf(orders'[i]) # ClientOf(orders'[j])
      BY <2>1, <3>2, <3>3 DEF Reserved, Distinct
    <3>8. \A i \in DOMAIN orders', j \in DOMAIN results : ClientOf(orders'[i]) # ClientOf(results[j])
      BY <2>1, <3>2, <3>3 DEF Reserved, Distinct
    <3>9. Distinct'
      BY <2>1, <2>2, <3>7, <3>8 DEF Reserved, Distinct, ClientOf
    <3>10. QED
      BY <3>4, <3>5, <3>6, <3>9 DEF Reserved
  <2>5. QED
    BY <1>3, <2>3, <2>4 DEF SendOrder
<1>4. CASE Release
  <2> DEFINE c == ClientOf(Head(results))
  <2>1. running = "up" /\ Reserved /\ results # <<>>
    BY <1>4, <1>r DEF Release
  <2>2. UNCHANGED <<orders, mpc, order>> /\ result' = Head(results) /\ results' = Tail(results)
        /\ pending_reservations' = [pending_reservations EXCEPT ![c] = 0]
    BY <1>4 DEF Release
  <2>3. /\ 1 \in DOMAIN results /\ Head(results) = results[1]
        /\ \A i \in DOMAIN results' : i + 1 \in DOMAIN results /\ i + 1 # 1 /\ results'[i] = results[i + 1]
        /\ \A i, j \in DOMAIN results' : i # j => i + 1 # j + 1
    BY <1>t, <2>1, <2>2, TailAt
  <2>4. \A i \in DOMAIN results' : results'[i] \in Results /\ ClientOf(results'[i]) \in Clients
                                   /\ ClientOf(results'[i]) # c
    BY <1>res, <2>1, <2>3 DEF Reserved, Distinct
  <2>5. \A i \in DOMAIN orders : ClientOf(orders[i]) # c
    BY <2>1, <2>3 DEF Reserved, Distinct
  <2>6. Reserving => ClientOf(order) # c
    BY <2>1, <2>3 DEF Reserved, HandDistinct
  <2>7. c \in Clients
    BY <1>res, <2>3
  <2>8. pending_reservations'[c] = 0 /\ \A d \in Clients : d # c => pending_reservations'[d] = pending_reservations[d]
    BY <1>pr, <2>2, <2>7
  <2>9. OrdersReserved'
    BY <1>ord, <2>1, <2>2, <2>5, <2>8 DEF Reserved, OrdersReserved, ClientOf
  <2>10. ResultsReserved'
    <3>1. \A i \in DOMAIN results' : /\ pending_reservations'[ClientOf(results'[i])] >= results'[i].filled
                                     /\ pending_reservations'[ClientOf(results'[i])] > 0
      BY <2>1, <2>3, <2>4, <2>8 DEF Reserved, ResultsReserved
    <3>2. QED
      BY <3>1 DEF ResultsReserved, ClientOf
  <2>11. HandReserved'
    <3>1. Reserving => ClientOf(order) \in Clients
      BY <1>t, DraftTypes DEF Reserving
    <3>2. QED
      BY <2>1, <2>2, <2>6, <2>8, <3>1 DEF Reserved, HandReserved, Reserving, ClientOf
  <2>12. HandDistinct'
    <3>1. Reserving => /\ \A i \in DOMAIN orders : ClientOf(orders[i]) # ClientOf(order)
                       /\ \A i \in DOMAIN results' : ClientOf(results'[i]) # ClientOf(order)
      BY <2>1, <2>3 DEF Reserved, HandDistinct
    <3>2. QED
      BY <2>2, <3>1 DEF HandDistinct, Reserving, ClientOf
  <2>13. ReleasedGone'
    BY <2>2, <2>8 DEF ReleasedGone, ClientOf
  <2>14. Distinct'
    <3>1. \A i, j \in DOMAIN results' : i # j => ClientOf(results'[i]) # ClientOf(results'[j])
      BY <2>1, <2>3 DEF Reserved, Distinct
    <3>2. \A i \in DOMAIN orders, j \in DOMAIN results' : ClientOf(orders[i]) # ClientOf(results'[j])
      BY <2>1, <2>3 DEF Reserved, Distinct
    <3>3. QED
      BY <2>1, <2>2, <3>1, <3>2 DEF Reserved, Distinct, ClientOf
  <2>15. QED
    BY <2>9, <2>10, <2>11, <2>12, <2>13, <2>14 DEF Reserved
<1>5. CASE Execute
  <2>1. running = "up" /\ Reserved
    BY <1>5, <1>o, <1>r DEF Execute
  <2>2. PICK a \in ResultsOf(Head(orders)) :
             /\ Head(orders) \in Sent /\ a \in Results
             /\ orders # <<>> /\ orders' = Tail(orders)
             /\ results' = Append(results, a) \/ results' = results
             /\ UNCHANGED <<riskState, mainVars, listenerVars>>
    BY <1>5, ExecuteEffect
  <2>3. ClientOf(a) = ClientOf(Head(orders)) /\ a.filled <= Head(orders).qty
    BY <1>t, <2>2, AnswerType DEF ClientOf
  <2>4. /\ 1 \in DOMAIN orders /\ Head(orders) = orders[1]
        /\ \A i \in DOMAIN orders' : i + 1 \in DOMAIN orders /\ i + 1 # 1 /\ orders'[i] = orders[i + 1]
        /\ \A i, j \in DOMAIN orders' : i # j => i + 1 # j + 1
    BY <1>t, <2>2, TailAt
  <2>5. \A i \in DOMAIN results' : \/ i \in DOMAIN results /\ results'[i] = results[i]
                                   \/ i = Len(results) + 1 /\ i \notin DOMAIN results /\ results'[i] = a
    BY <1>t, <2>2, AppendAt
  <2>6. pending_reservations[ClientOf(a)] = Head(orders).qty /\ Head(orders).qty > 0 /\ Head(orders).qty \in Nat
        /\ a.filled \in Nat
    BY <1>ord, <2>1, <2>2, <2>3, <2>4, ReportTypes DEF Reserved, OrdersReserved
  <2>7. (\A i \in DOMAIN results : ClientOf(results[i]) # ClientOf(a))
        /\ (\A i \in DOMAIN orders' : ClientOf(orders'[i]) # ClientOf(a))
        /\ (Reserving => ClientOf(order) # ClientOf(a))
    BY <2>1, <2>3, <2>4 DEF Reserved, Distinct, HandDistinct
  <2>8. OrdersReserved'
    <3>1. \A i \in DOMAIN orders' : pending_reservations[ClientOf(orders'[i])] = orders'[i].qty
      BY <2>1, <2>4 DEF Reserved, OrdersReserved
    <3>2. QED
      BY <2>2, <3>1 DEF OrdersReserved, ClientOf
  <2>9. ResultsReserved'
    <3>1. \A i \in DOMAIN results' : /\ pending_reservations[ClientOf(results'[i])] >= results'[i].filled
                                     /\ pending_reservations[ClientOf(results'[i])] > 0
      BY <2>1, <2>3, <2>5, <2>6 DEF Reserved, ResultsReserved
    <3>2. QED
      BY <2>2, <3>1 DEF ResultsReserved, ClientOf
  <2>10. HandReserved' /\ ReleasedGone'
    BY <2>1, <2>2 DEF Reserved, HandReserved, ReleasedGone, Reserving, ClientOf
  <2>11. HandDistinct'
    <3>1. Reserving => /\ \A i \in DOMAIN orders' : ClientOf(orders'[i]) # ClientOf(order)
                       /\ \A i \in DOMAIN results' : ClientOf(results'[i]) # ClientOf(order)
      BY <2>1, <2>4, <2>5, <2>7 DEF Reserved, HandDistinct
    <3>2. QED
      BY <2>2, <3>1 DEF HandDistinct, Reserving, ClientOf
  <2>12. Distinct'
    <3>1. \A i, j \in DOMAIN orders' : i # j => ClientOf(orders'[i]) # ClientOf(orders'[j])
      BY <2>1, <2>4 DEF Reserved, Distinct
    <3>2. \A i, j \in DOMAIN results' : i # j => ClientOf(results'[i]) # ClientOf(results'[j])
      BY <2>1, <2>5, <2>7 DEF Reserved, Distinct
    <3>3. \A i \in DOMAIN orders', j \in DOMAIN results' : ClientOf(orders'[i]) # ClientOf(results'[j])
      BY <2>1, <2>4, <2>5, <2>7 DEF Reserved, Distinct
    <3>4. QED
      BY <3>1, <3>2, <3>3 DEF Distinct, ClientOf
  <2>13. QED
    BY <2>8, <2>9, <2>10, <2>11, <2>12 DEF Reserved
<1>6. CASE Bootstrap
  <2>1. orders' = <<>> /\ results' = <<>>
    BY <1>6, <1>o DEF Bootstrap
  <2>2. mpc' = "idle" /\ lpc' = "idle"
    BY <1>6, <1>t DEF Bootstrap, DownTypes
  <2>3. QED
    BY <2>1, <2>2 DEF Reserved, OrdersReserved, ResultsReserved, HandReserved, ReleasedGone, Distinct,
       HandDistinct, Reserving
<1>7. CASE Crash \/ Subscribe
  BY <1>7, <1>o DEF Crash, Subscribe
<1>8. QED
  BY <1>1, <1>2, <1>3, <1>4, <1>5, <1>6, <1>7 DEF GateNext, MainStep, ListenerStep

\* risk_state, both threads and the topics keep their types; the exposure is
\* always that of the positions, and a process that is down holds nothing.
THEOREM GateTypeCorrect == GateSpec => []GateTypeOK
<1>1. GateInit => GateTypeOK
  BY GateInitTypes
<1>2. GateTypeOK /\ [GateNext]_gateVars => GateTypeOK'
  BY GateTypeStep
<1>3. QED
  BY <1>1, <1>2, PTL DEF GateSpec

\* Every order under way is reserved in full (ReservedInFlight): process_signal
\* reserves before send_order publishes, and handle_order_result pops only the
\* reservation of the result's own client id.  Inductive with the exclusive
\* use of client ids.
THEOREM InFlightReserved == GateSpec => []ReservedInFlight
<1>1. GateInit => GateTypeOK /\ ReservedInv
  <2>1. ASSUME GateInit PROVE Reserved
    BY <2>1 DEF GateInit, Reserved, OrdersReserved, ResultsReserved, HandReserved, ReleasedGone, Distinct,
       HandDistinct, Reserving
  <2>2. QED
    BY <2>1, GateInitTypes DEF ReservedInv
<1>2. GateTypeOK /\ ReservedInv /\ [GateNext]_gateVars => (GateTypeOK /\ ReservedInv)'
  BY GateTypeStep, ReservedStep
<1>3. GateTypeOK /\ ReservedInv => ReservedInFlight
  BY DEF ReservedInv, Sane, Reserved, OrdersReserved, ResultsReserved, ReservedInFlight, InSeq
<1>4. QED
  BY <1>1, <1>2, <1>3, PTL DEF GateSpec

-----------------------------------------------------------------------------
(* Exposure reserved against exposure under way.                            *)

LEMMA SignedZero == ASSUME NEW s \in Signals PROVE Signed(s, 0) = 0
<1>1. \A m, n \in Int : Signed(s, m + n) = Signed(s, m) + Signed(s, n) /\ Signed(s, n) \in Int
  BY DEF Signed
<1>2. Signed(s, 0 + 0) = Signed(s, 0) + Signed(s, 0) /\ Signed(s, 0) \in Int
  BY <1>1
<1>3. 0 + 0 = 0
  OBVIOUS
<1>4. Signed(s, 0) = Signed(s, 0) + Signed(s, 0)
  BY <1>2, <1>3, Zenon
<1>5. \A n \in Int : n = n + n => n = 0
  OBVIOUS
<1>6. QED
  BY <1>2, <1>4, <1>5

LEMMA WeightTypes ==
    /\ OrderQty \in [Sent -> Int] /\ FilledOf \in [Results -> Int]
    /\ \A r \in [Clients -> Nat] : ReservedOf(r) \in [Results -> Int]
    /\ \A y \in Symbols : PartOf(y) \in [Results -> Int]
<1>1. OrderQty \in [Sent -> Int] /\ FilledOf \in [Results -> Int]
  BY SentTypes, ReportTypes DEF OrderQty, FilledOf
<1>2. \A r \in [Clients -> Nat] : ReservedOf(r) \in [Results -> Int]
  BY ReportTypes DEF ReservedOf
<1>3. \A y \in Symbols : PartOf(y) \in [Results -> Int]
  BY ReportTypes, PartType DEF PartOf
<1>4. QED
  BY <1>1, <1>2, <1>3

\* What one report comes to.
LEMMA GrossPart ==
    ASSUME NEW a \in Reports, NEW p, \A y \in Symbols : p[y] = Part(a, y)
    PROVE  Gross(p) = a.filled
<1>1. a.sig \in Signals /\ a.filled \in Nat /\ a.filled \in Int
  BY TopBounds DEF Reports
<1> DEFINE x == SymbolOf[a.sig]
<1>2. x \in Symbols /\ Signed(a.sig, a.filled) \in Int /\ Magnitude(Signed(a.sig, a.filled)) = a.filled
  BY <1>1, SignedType, RiskGateAssumption DEF Magnitude
<1>3. \A y \in Symbols : p[y] \in Int /\ Flat[y] \in Int /\ Flat[y] = 0 /\ (y # x => p[y] = Flat[y])
  BY PartType DEF Flat, Part
<1>4. p[x] = Signed(a.sig, a.filled)
  BY <1>2 DEF Part
<1> HIDE DEF x
<1>5. Gross(p) = Gross(Flat) + Magnitude(p[x]) - Magnitude(Flat[x])
  BY <1>2, <1>3, GrossMove
<1>6. Gross(Flat) = 0
  BY <1>3, GrossFlat
<1>7. Magnitude(Flat[x]) = 0
  BY <1>2, <1>3 DEF Magnitude
<1>8. QED
  BY <1>1, <1>2, <1>4, <1>5, <1>6, <1>7

\* The exposure of the queued results is at most what they fill.
LEMMA GrossQueued ==
    ASSUME NEW q \in Seq(Results)
    PROVE  Gross([y \in Symbols |-> Weigh(PartOf(y), q)]) <= Weigh(FilledOf, q)
<1> DEFINE G(s) == [y \in Symbols |-> Weigh(PartOf(y), s)]
           C == {n \in Nat : \A s \in Seq(Results) : Len(s) = n => Gross(G(s)) <= Weigh(FilledOf, s)}
<1>t. \A s \in Seq(Results) : \A y \in Symbols : G(s)[y] \in Int /\ G(s)[y] = Weigh(PartOf(y), s)
  BY WeightTypes, WeighType
<1>1. 0 \in C
  <2>1. SUFFICES ASSUME NEW s \in Seq(Results), Len(s) = 0 PROVE Gross(G(s)) <= Weigh(FilledOf, s)
    OBVIOUS
  <2>2. s = <<>>
    BY <2>1
  <2>3. Weigh(FilledOf, s) = 0 /\ \A y \in Symbols : G(s)[y] = 0
    BY <2>2, WeighEmpty
  <2> HIDE DEF G
  <2>4. Gross(G(s)) = 0
    BY <2>3, GrossFlat
  <2>5. QED
    BY <2>3, <2>4
<1>2. ASSUME NEW n \in Nat, n \in C PROVE n + 1 \in C
  <2>1. SUFFICES ASSUME NEW s \in Seq(Results), Len(s) = n + 1 PROVE Gross(G(s)) <= Weigh(FilledOf, s)
    OBVIOUS
  <2>2. s # <<>> /\ Head(s) \in Results /\ Tail(s) \in Seq(Results) /\ Len(Tail(s)) = n
    BY <2>1
  <2>3. Weigh(FilledOf, s) = Head(s).filled + Weigh(FilledOf, Tail(s))
    <3>1. FilledOf[Head(s)] = Head(s).filled
      BY <2>2 DEF FilledOf
    <3>2. QED
      BY <2>2, <3>1, WeightTypes, WeighTail
  <2> DEFINE h == [y \in Symbols |-> Part(Head(s), y)]
             u == Tail(s)
  <2>4. \A y \in Symbols : G(s)[y] = h[y] + G(u)[y]
    <3>1. TAKE y \in Symbols
    <3>2. PartOf(y) \in [Results -> Int] /\ PartOf(y)[Head(s)] = Part(Head(s), y)
      BY <2>2, WeightTypes DEF PartOf
    <3>3. Weigh(PartOf(y), s) = PartOf(y)[Head(s)] + Weigh(PartOf(y), Tail(s))
      BY <2>2, <3>2, WeighTail
    <3>4. QED
      BY <3>2, <3>3
  <2>5. \A y \in Symbols : h[y] \in Int /\ h[y] = Part(Head(s), y)
    BY <2>2, ReportTypes, PartType
  <2>6. \A y \in Symbols : G(u)[y] \in Int /\ G(s)[y] \in Int
    BY <1>t, <2>2
  <2>7. Gross(G(u)) <= Weigh(FilledOf, u)
    BY <1>2, <2>2
  <2>8. Head(s) \in Reports /\ Head(s).filled \in Int /\ Weigh(FilledOf, u) \in Int
    <3>1. Head(s) \in Reports /\ Head(s).filled \in Int
      BY <2>2, ReportTypes
    <3>2. FilledOf \in [Results -> Int] /\ u \in Seq(Results)
      BY <2>2, WeightTypes
    <3> HIDE DEF u
    <3>3. Weigh(FilledOf, u) \in Int
      BY <3>2, WeighType
    <3>4. QED
      BY <3>1, <3>3
  <2> HIDE DEF G, h, C
  <2>9. Gross(h) = Head(s).filled
    BY <2>5, <2>8, GrossPart
  <2>10. Gross(G(s)) <= Gross(h) + Gross(G(u))
    BY <2>4, <2>5, <2>6, GrossSum
  <2>11. Gross(G(s)) \in Int /\ Gross(G(u)) \in Int
    BY <2>6, GrossType
  <2>12. QED
    BY <2>3, <2>7, <2>8, <2>9, <2>10, <2>11 DEF u
<1>3. Nat \subseteq C
  <2> HIDE DEF C
  <2>1. QED
    BY <1>1, <1>2, Induction
<1>4. Len(q) \in C
  BY <1>3
<1>5. QED
  BY <1>4

\* The types of the sums.
LEMMA SumTypes ==
    ASSUME GateTypeOK
    PROVE  /\ OnWay \in Int /\ Answered \in Int /\ InHand \in Int /\ UnderWay \in Int /\ Pending \in Int
           /\ OnWay >= 0 /\ InHand >= 0
           /\ \A y \in Symbols : /\ Queued[y] \in Int /\ Coming[y] \in Int /\ Missing[y] \in Int
                                 /\ venue[y] \in Int /\ positions[y] \in Int
<1>t. StateTypes /\ MainTypes /\ ListenerTypes /\ WireTypes /\ DownTypes
      /\ orders \in Seq(Sent) /\ results \in Seq(Results) /\ fills \in Seq(Reports)
  BY DEF GateTypeOK, WireTypes
<1>1. OnWay \in Int /\ OnWay >= 0
  <2>1. \A i \in DOMAIN orders : OrderQty[orders[i]] >= 0
    BY <1>t, SentTypes DEF OrderQty
  <2>2. QED
    BY <1>t, <2>1, WeightTypes, WeighType, WeighNat DEF OnWay
<1>2. Answered \in Int
  BY <1>t, WeightTypes, WeighType DEF Answered, StateTypes
<1>3. InHand \in Int /\ InHand >= 0
  BY <1>t, DraftTypes DEF InHand, Reserving
<1>4. Pending \in Int
  BY <1>t DEF Pending, StateTypes, ListenerTypes
<1>5. \A y \in Symbols : Queued[y] \in Int
  BY <1>t, WeightTypes, WeighType DEF Queued
<1>6. \A y \in Symbols : Coming[y] \in Int
  <2>1. lpc # "idle" => \A y \in Symbols : Part(result, y) \in Int
    BY <1>t, ReportTypes, PartType DEF ListenerTypes
  <2>2. QED
    BY <1>5, <2>1 DEF Coming
<1>7. \A y \in Symbols : venue[y] \in Int /\ positions[y] \in Int
  BY <1>t, VenueType DEF StateTypes
<1>8. \A y \in Symbols : Missing[y] \in Int
  BY <1>6, <1>7 DEF Missing
<1>9. UnderWay \in Int
  BY <1>1, <1>2, <1>3 DEF UnderWay
<1>10. QED
  BY <1>1, <1>2, <1>3, <1>4, <1>5, <1>6, <1>7, <1>8, <1>9

\* One step of the books while the process is up: what is reserved and not
\* under way grows by at least what goes missing, and only a lost result or a
\* failed publish moves either.
Steady == /\ Pending' - UnderWay' = Pending - UnderWay
          /\ \A y \in Symbols : Missing'[y] = Missing[y]
Slipped == /\ odd' # {}
           /\ \E k \in Nat : /\ Gross(Missing') <= Gross(Missing) + k
                             /\ Pending' - UnderWay' >= Pending - UnderWay + k

\* The parts of Missing.
LEMMA MissingParts ==
    /\ orders' = orders => OnWay' = OnWay
    /\ results' = results /\ pending_reservations' = pending_reservations => Answered' = Answered
    /\ mpc' = mpc /\ order' = order => InHand' = InHand
    /\ results' = results => \A y \in Symbols : Queued'[y] = Queued[y]
    /\ lpc' = lpc /\ result' = result /\ results' = results => \A y \in Symbols : Coming'[y] = Coming[y]
    /\ \A y \in Symbols : /\ Missing[y] = venue[y] - positions[y] - Coming[y]
                          /\ Missing'[y] = venue'[y] - positions'[y] - Coming'[y]
                          /\ Coming[y] = Queued[y] + (IF lpc # "idle" THEN Part(result, y) ELSE 0)
                          /\ Coming'[y] = Queued'[y] + (IF lpc' # "idle" THEN Part(result', y) ELSE 0)
                          /\ Queued[y] = Weigh(PartOf(y), results)
                          /\ Queued'[y] = Weigh(PartOf(y), results')
    /\ OnWay' = Weigh(OrderQty, orders')
    /\ Answered' = Weigh(ReservedOf(pending_reservations'), results')
<1>1. /\ orders' = orders => OnWay' = OnWay
      /\ results' = results /\ pending_reservations' = pending_reservations => Answered' = Answered
      /\ OnWay' = Weigh(OrderQty, orders')
      /\ Answered' = Weigh(ReservedOf(pending_reservations'), results')
  BY DEF OnWay, Answered
<1>2. mpc' = mpc /\ order' = order => InHand' = InHand
  BY DEF InHand, Reserving
<1>3. \A y \in Symbols : /\ Queued[y] = Weigh(PartOf(y), results)
                         /\ Queued'[y] = Weigh(PartOf(y), results')
  BY DEF Queued
<1>4. results' = results => \A y \in Symbols : Queued'[y] = Queued[y]
  BY <1>3
<1>5. \A y \in Symbols : /\ Coming[y] = Queued[y] + (IF lpc # "idle" THEN Part(result, y) ELSE 0)
                         /\ Coming'[y] = Queued'[y] + (IF lpc' # "idle" THEN Part(result', y) ELSE 0)
  BY DEF Coming, Part, Signed
<1>6. lpc' = lpc /\ result' = result /\ results' = results => \A y \in Symbols : Coming'[y] = Coming[y]
  BY <1>4, <1>5
<1>7. \A y \in Symbols : /\ Missing[y] = venue[y] - positions[y] - Coming[y]
                         /\ Missing'[y] = venue'[y] - positions'[y] - Coming'[y]
  BY DEF Missing
<1>8. QED
  BY <1>1, <1>2, <1>3, <1>4, <1>5, <1>6, <1>7

\* What is reserved under other client ids than the one that changes.
LEMMA AnsweredSame ==
    ASSUME GateTypeOK, NEW c, results' = results, NEW v,
           pending_reservations' = [pending_reservations EXCEPT ![c] = v],
           \A i \in DOMAIN results : ClientOf(results[i]) # c
    PROVE  Answered' = Answered
<1>1. results \in Seq(Results) /\ pending_reservations \in [Clients -> Nat]
  BY DEF GateTypeOK, WireTypes, StateTypes
<1> DEFINE V == ReservedOf(pending_reservations)
           W == ReservedOf(pending_reservations')
<1>2. \A i \in DOMAIN results : V[results[i]] = W[results[i]]
  BY <1>1, ReportTypes DEF ReservedOf
<1> HIDE DEF V, W
<1>3. Weigh(V, results) = Weigh(W, results)
  BY <1>1, <1>2, WeighSame
<1>4. QED
  BY <1>3, MissingParts DEF V, W, Answered

\* A client id about to be reserved is nobody's.
LEMMA FreshClient ==
    ASSUME GateTypeOK, Reserved, Reserve, "shared" \notin odd'
    PROVE  /\ \A i \in DOMAIN orders : ClientOf(orders[i]) # ClientOf(order)
           /\ \A i \in DOMAIN results : ClientOf(results[i]) # ClientOf(order)
           /\ pending_reservations[ClientOf(order)] = 0
           /\ pending_qty_reservations[ClientOf(order)] = 0
           /\ lpc # "idle" => ClientOf(result) # ClientOf(order)
<1>t. orders \in Seq(Sent) /\ results \in Seq(Results)
  BY DEF GateTypeOK, WireTypes
<1>1. ~(\/ pending_reservations[ClientOf(order)] # 0 \/ pending_qty_reservations[ClientOf(order)] # 0
        \/ lpc # "idle" /\ ClientOf(result) = ClientOf(order))
  BY DEF Reserve
<1>2. \A i \in DOMAIN orders : orders[i].qty > 0 /\ orders[i].qty \in Nat
  BY <1>t, SentTypes
<1>3. QED
  BY <1>1, <1>2 DEF Reserved, OrdersReserved, ResultsReserved

LEMMA AccountStep ==
    ASSUME GateTypeOK, ReservedInv, Accounted, [GateNext]_gateVars, running = "up", Lossy'
    PROVE  /\ Steady \/ Slipped
           /\ lpc' = "store" => rread' <= pending_exposure'
<1> USE DEF gateVars, riskState, mainVars, listenerVars, worldVars
<1>t. StateTypes /\ MainTypes /\ ListenerTypes /\ WireTypes /\ DownTypes /\ odd \subseteq odd'
      /\ orders \in Seq(Sent) /\ results \in Seq(Results) /\ fills \in Seq(Reports)
      /\ pending_reservations \in [Clients -> Nat] /\ pending_exposure \in Nat /\ rread \in Int
      /\ positions \in [Symbols -> Int]
  BY GateTypeStep DEF GateTypeOK, WireTypes, StateTypes, ListenerTypes
<1>l. Lossy /\ odd' \subseteq {"unsent", "lost"}
  BY <1>t DEF Lossy
<1>r. Reserved
  BY <1>l DEF ReservedInv, Sane, Lossy
<1>a. UnderWay + Gross(Missing) <= Pending /\ (lpc = "store" => rread <= pending_exposure)
  BY <1>l DEF Accounted
<1>n. /\ OnWay \in Int /\ Answered \in Int /\ InHand \in Int /\ UnderWay \in Int /\ Pending \in Int
      /\ UnderWay = OnWay + Answered + InHand
      /\ UnderWay' = OnWay' + Answered' + InHand'
      /\ \A y \in Symbols : /\ Queued[y] \in Int /\ Coming[y] \in Int /\ Missing[y] \in Int
                            /\ venue[y] \in Int /\ positions[y] \in Int
  BY SumTypes DEF UnderWay
<1>v. fills' = fills => venue' = venue
  BY VenueStays
<1>m. UNCHANGED <<fills, positions, lpc, result, results>> => \A y \in Symbols : Missing'[y] = Missing[y]
  BY <1>v, MissingParts
<1>0. CASE /\ UNCHANGED <<fills, positions, lpc, result, rread, results, orders,
                          pending_exposure, pending_reservations>>
           /\ InHand' = InHand
  <2>1. Pending' = Pending /\ UnderWay' = UnderWay
    BY <1>0, <1>n, MissingParts DEF Pending
  <2>2. QED
    BY <1>0, <1>a, <1>m, <1>n, <2>1 DEF Steady
<1>1. CASE (\E s \in Signals : Screen(s)) \/ Size \/ ReadExposure \/ HardGate \/ ReserveQty
           \/ UNCHANGED gateVars
  <2>1. UNCHANGED <<fills, positions, lpc, result, rread, results, orders,
                    pending_exposure, pending_reservations>>
    BY <1>1 DEF Screen, Size, ReadExposure, HardGate, ReserveQty
  <2>2. \/ mpc' = mpc /\ order' = order
        \/ mpc \notin {"reserveQty", "send"} /\ mpc' \notin {"reserveQty", "send"}
        \/ mpc = "reserveQty" /\ mpc' = "send" /\ order' = order
    BY <1>1 DEF Screen, Size, ReadExposure, HardGate, ReserveQty, MainIdle
  <2>3. InHand' = InHand
    BY <2>2 DEF InHand, Reserving
  <2>4. QED
    BY <1>0, <2>1, <2>3
<1>2. CASE Reserve
  <2>1. UNCHANGED <<fills, positions, lpc, result, rread, results, orders, order>>
        /\ pending_exposure' = pending_exposure + order.qty /\ mpc = "reserve" /\ mpc' = "reserveQty"
        /\ pending_reservations' = [pending_reservations EXCEPT ![ClientOf(order)] = order.qty]
    BY <1>2 DEF Reserve
  <2>2. lpc # "store"
    BY <1>2, <1>l DEF Reserve
  <2>3. order.qty \in Nat
    BY <1>t, <2>1, DraftTypes
  <2>4. Answered' = Answered
    BY <1>2, <1>l, <1>r, <2>1, FreshClient, AnsweredSame
  <2>5. InHand = 0 /\ InHand' = order.qty
    BY <2>1 DEF InHand, Reserving
  <2>6. Pending = pending_exposure /\ Pending' = pending_exposure + order.qty
    BY <2>1, <2>2 DEF Pending
  <2>7. OnWay' = OnWay
    BY <2>1, MissingParts
  <2>8. QED
    BY <1>n, <1>m, <1>t, <2>1, <2>2, <2>3, <2>4, <2>5, <2>6, <2>7 DEF Steady
<1>3. CASE SendOrder
  <2>1. UNCHANGED <<fills, positions, lpc, result, rread, results, pending_exposure, pending_reservations>>
        /\ mpc = "send" /\ mpc' = "idle"
    BY <1>3 DEF SendOrder, MainIdle
  <2>2. order \in Sent /\ order.qty \in Nat
    BY <1>t, <2>1, DraftTypes
  <2>3. InHand = order.qty /\ InHand' = 0
    BY <2>1 DEF InHand, Reserving
  <2>4. Pending' = Pending /\ Answered' = Answered
    BY <2>1, MissingParts DEF Pending
  <2>5. lpc' = "store" => rread' <= pending_exposure'
    BY <1>a, <2>1
  <2>6. CASE orders' = Append(orders, order)
    <3>1. OnWay' = OnWay + order.qty
      <4>1. Weigh(OrderQty, Append(orders, order)) = Weigh(OrderQty, orders) + OrderQty[order]
        BY <1>t, <2>2, WeightTypes, WeighAppend
      <4>2. QED
        BY <2>2, <2>6, <4>1, MissingParts DEF OnWay, OrderQty
    <3>2. UnderWay' = UnderWay
      BY <1>n, <2>2, <2>3, <2>4, <3>1
    <3>3. QED
      BY <1>n, <1>m, <2>1, <2>4, <2>5, <3>2 DEF Steady
  <2>7. CASE odd' = odd \cup {"unsent"} /\ orders' = orders
    <3>1. UnderWay' = UnderWay - order.qty
      BY <1>n, <2>2, <2>3, <2>4, <2>7, MissingParts
    <3>2. \A p, q : (\A y \in Symbols : p[y] = q[y]) => Gross(p) = Gross(q)
      BY GrossSame
    <3>3. Gross(Missing') = Gross(Missing) /\ Gross(Missing) \in Int
      BY <1>m, <1>n, <2>1, <3>2, GrossType
    <3>4. odd' # {}
      BY <2>7
    <3>5. 0 \in Nat /\ Gross(Missing') <= Gross(Missing) + 0 /\ Pending' - UnderWay' >= Pending - UnderWay + 0
      BY <1>n, <2>2, <2>4, <3>1, <3>3
    <3>6. QED
      BY <2>5, <3>4, <3>5 DEF Slipped
  <2>8. QED
    BY <1>3, <2>6, <2>7 DEF SendOrder
<1>4. CASE Release
  <2> DEFINE c == ClientOf(Head(results))
             k == pending_reservations[c]
  <2>1. /\ UNCHANGED <<fills, positions, orders, mpc, order, pending_exposure>>
        /\ lpc = "idle" /\ results # <<>> /\ result' = Head(results) /\ results' = Tail(results)
        /\ pending_reservations' = [pending_reservations EXCEPT ![c] = 0]
    BY <1>4 DEF Release
  <2>2. /\ 1 \in DOMAIN results /\ Head(results) = results[1]
        /\ \A i \in DOMAIN results' : i + 1 \in DOMAIN results /\ i + 1 # 1 /\ results'[i] = results[i + 1]
    BY <1>t, <2>1, TailAt
  <2>3. Head(results) \in Results /\ Tail(results) \in Seq(Results) /\ c \in Clients
    BY <1>t, <2>1, ReportTypes
  <2>4. k \in Nat /\ k > 0
    BY <1>r, <1>t, <2>2, <2>3 DEF Reserved, ResultsReserved
  <2>5. lpc' = "store" /\ rread' = Floor(pending_exposure - k)
    BY <1>4, <2>4 DEF Release
  <2>6. \A y \in Symbols : Coming'[y] = Coming[y]
    <3>1. TAKE y \in Symbols
    <3>2. PartOf(y) \in [Results -> Int] /\ PartOf(y)[Head(results)] = Part(Head(results), y)
      BY <2>3, WeightTypes DEF PartOf
    <3>3. Weigh(PartOf(y), results) = PartOf(y)[Head(results)] + Weigh(PartOf(y), Tail(results))
      BY <1>t, <2>1, <3>2, WeighTail
    <3>4. Part(Head(results), y) \in Int /\ Weigh(PartOf(y), Tail(results)) \in Int
      BY <2>3, <3>2, WeighType
    <3>5. Coming[y] = Weigh(PartOf(y), results) + 0
          /\ Coming'[y] = Weigh(PartOf(y), Tail(results)) + Part(Head(results), y)
      BY <2>1, <2>5, MissingParts
    <3>6. QED
      BY <3>2, <3>3, <3>4, <3>5
  <2>7. Answered = k + Answered'
    <3> DEFINE V == ReservedOf(pending_reservations)
               W == ReservedOf(pending_reservations')
    <3>1. V \in [Results -> Int] /\ V[Head(results)] = k
      BY <1>t, <2>3, WeightTypes DEF ReservedOf
    <3>2. \A i \in DOMAIN Tail(results) : V[Tail(results)[i]] = W[Tail(results)[i]]
      <4>1. TAKE i \in DOMAIN Tail(results)
      <4>2. Tail(results)[i] \in Results
        BY <2>3
      <4>3. ClientOf(Tail(results)[i]) # c
        BY <1>r, <2>1, <2>2 DEF Reserved, Distinct
      <4>4. QED
        BY <1>t, <2>1, <4>2, <4>3, ReportTypes DEF ReservedOf
    <3> HIDE DEF V, W, k, c
    <3>3. Weigh(V, Tail(results)) = Weigh(W, Tail(results))
      BY <2>3, <3>2, WeighSame
    <3>4. Weigh(V, results) = V[Head(results)] + Weigh(V, Tail(results))
      BY <1>t, <2>1, <3>1, WeighTail
    <3>5. QED
      BY <2>1, <3>1, <3>3, <3>4, MissingParts DEF V, W, Answered
  <2>8. Answered' \in Int
    <3>1. GateTypeOK'
      BY GateTypeStep
    <3>2. Answered' = Weigh(ReservedOf(pending_reservations'), results') /\ results' \in Seq(Results)
          /\ pending_reservations' \in [Clients -> Nat]
      BY <3>1, MissingParts DEF GateTypeOK, StateTypes, WireTypes
    <3>3. ReservedOf(pending_reservations') \in [Results -> Int]
      BY <3>2, WeightTypes
    <3>4. QED
      BY <3>2, <3>3, WeighType
  <2>9. OnWay' = OnWay /\ InHand' = InHand
    BY <2>1, MissingParts
  <2>10. Gross(Missing) \in Int /\ Gross(Missing) >= 0
    BY <1>n, GrossType
  <2>11. Answered' >= 0
    <3>1. GateTypeOK' /\ ReservedInv'
      BY GateTypeStep, ReservedStep
    <3>2. results' \in Seq(Results) /\ pending_reservations' \in [Clients -> Nat]
      BY <3>1 DEF GateTypeOK, WireTypes, StateTypes
    <3> DEFINE W == ReservedOf(pending_reservations')
    <3>3. W \in [Results -> Int] /\ \A i \in DOMAIN results' : W[results'[i]] >= 0
      BY <3>2, WeightTypes, ReportTypes DEF ReservedOf
    <3> HIDE DEF W
    <3>4. Weigh(W, results') >= 0
      BY <3>2, <3>3, WeighNat
    <3>5. QED
      BY <3>4, MissingParts DEF W
  <2>12. Pending = pending_exposure /\ Pending' = Floor(pending_exposure - k)
    BY <2>1, <2>5 DEF Pending
  <2>13. OnWay >= 0 /\ InHand >= 0
    BY SumTypes
  <2>p. pending_exposure \in Int
    BY <1>t
  <2> HIDE DEF k, c
  <2>14. pending_exposure - k >= 0
    <3>0. \A m, n, o, p \in Int : m >= 0 /\ n >= 0 /\ o >= 0 => m + (p + n) + o >= p
      OBVIOUS
    <3>1. UnderWay >= k
      <4>1. UnderWay = OnWay + (k + Answered') + InHand
        BY <1>n, <2>7
      <4>2. OnWay \in Int /\ InHand \in Int /\ k \in Int
        BY <1>n, <2>4
      <4>3. OnWay + (k + Answered') + InHand >= k
        BY <2>8, <2>11, <2>13, <3>0, <4>2
      <4>4. QED
        BY <4>1, <4>3
    <3>2. QED
      BY <1>a, <1>n, <2>p, <2>4, <2>10, <2>12, <3>1
  <2>15. Floor(pending_exposure - k) = pending_exposure - k
    BY <1>t, <2>4, <2>14 DEF Floor
  <2>16. Pending' - UnderWay' = Pending - UnderWay
    <3>1. UnderWay = UnderWay' + k /\ UnderWay' \in Int
      BY <1>n, <2>4, <2>7, <2>8, <2>9
    <3>2. QED
      BY <1>n, <2>p, <2>4, <2>12, <2>15, <3>1
  <2>17. \A y \in Symbols : Missing'[y] = Missing[y]
    BY <1>v, <2>1, <2>6, MissingParts
  <2>18. lpc' = "store" => rread' <= pending_exposure'
    BY <1>t, <2>1, <2>4, <2>5, <2>15
  <2>19. QED
    BY <2>16, <2>17, <2>18 DEF Steady
<1>5. CASE StoreRelease
  <2>1. /\ UNCHANGED <<fills, positions, orders, results, result, mpc, order, pending_reservations>>
        /\ lpc = "store" /\ lpc' = "qty" /\ pending_exposure' = rread
    BY <1>5 DEF StoreRelease
  <2>2. \A y \in Symbols : Missing'[y] = Missing[y]
    BY <1>v, <2>1, MissingParts
  <2>3. Pending' = Pending /\ UnderWay' = UnderWay
    BY <1>n, <2>1, MissingParts DEF Pending
  <2>4. QED
    BY <1>n, <2>1, <2>2, <2>3 DEF Steady
<1>6. CASE ReleaseQty \/ StoreReleaseQty
  <2>1. /\ UNCHANGED <<fills, positions, orders, results, result, mpc, order, pending_exposure, pending_reservations>>
        /\ lpc \notin {"idle", "store"} /\ lpc' \notin {"idle", "store"}
    BY <1>6 DEF ReleaseQty, StoreReleaseQty
  <2>2. \A y \in Symbols : Missing'[y] = Missing[y]
    BY <1>v, <2>1, MissingParts
  <2>3. Pending' = Pending /\ UnderWay' = UnderWay
    BY <1>n, <2>1, MissingParts DEF Pending
  <2>4. QED
    BY <1>n, <2>1, <2>2, <2>3 DEF Steady
<1>7. CASE UpdateExposure
  <2>1. /\ UNCHANGED <<fills, orders, results, mpc, order, pending_exposure, pending_reservations>>
        /\ lpc = "book" /\ lpc' = "idle"
        /\ IF result.status \in FillStatuses THEN positions' = Book(positions, result)
                                             ELSE positions' = positions
    BY <1>7 DEF UpdateExposure
  <2>2. result \in Results /\ result \in Reports /\ result.sig \in Signals
        /\ (result.status \notin FillStatuses => result.filled = 0)
    BY <1>t, <2>1, ReportTypes DEF ListenerTypes
  <2>3. \A y \in Symbols : Part(result, y) \in Int /\ positions'[y] = positions[y] + Part(result, y)
    <3>1. TAKE y \in Symbols
    <3>2. Part(result, y) \in Int
      BY <2>2, PartType
    <3>3. CASE result.status \in FillStatuses
      BY <1>t, <2>1, <2>2, <3>2, <3>3, BookMoves
    <3>4. CASE result.status \notin FillStatuses
      <4>1. Part(result, y) = 0
        BY <2>2, <3>4, SignedZero DEF Part
      <4>2. QED
        BY <1>n, <2>1, <3>4, <4>1
    <3>5. QED
      BY <3>3, <3>4
  <2>4. \A y \in Symbols : Missing'[y] = Missing[y]
    <3>1. TAKE y \in Symbols
    <3>2. Coming[y] = Queued[y] + Part(result, y) /\ Coming'[y] = Queued[y] + 0
      BY <2>1, MissingParts
    <3>3. Missing[y] = venue[y] - positions[y] - Coming[y] /\ Missing'[y] = venue[y] - positions'[y] - Coming'[y]
      BY <1>v, <2>1, MissingParts
    <3>4. QED
      BY <1>n, <2>3, <3>2, <3>3
  <2>5. Pending' = Pending /\ UnderWay' = UnderWay
    BY <1>n, <2>1, MissingParts DEF Pending
  <2>6. QED
    BY <1>n, <2>1, <2>4, <2>5 DEF Steady
<1>8. CASE Execute
  <2>1. PICK a \in ResultsOf(Head(orders)) :
             /\ Head(orders) \in Sent /\ a \in Results
             /\ orders # <<>> /\ orders' = Tail(orders)
             /\ \/ results' = Append(results, a)
                \/ results' = results /\ "lost" \in odd'
             /\ \/ a.status = "SUBMITTED" /\ "resting" \in odd'
                \/ fills' = IF a.filled > 0 THEN Append(fills, a) ELSE fills
             /\ UNCHANGED <<riskState, mainVars, listenerVars>>
    BY <1>8, ExecuteEffect
  <2>2. fills' = IF a.filled > 0 THEN Append(fills, a) ELSE fills
    BY <1>l, <2>1
  <2> DEFINE o == Head(orders)
  <2>3. a \in Reports /\ a.sig \in Signals /\ a.sig = o.sig /\ a.ts = o.ts /\ a.filled \in Nat
        /\ a.filled <= o.qty /\ o.qty \in Nat /\ o \in Sent
    BY <1>t, <2>1, AnswerType, ReportTypes, SentTypes
  <2>4. \A y \in Symbols : Part(a, y) \in Int /\ venue'[y] = venue[y] + Part(a, y)
    <3>1. TAKE y \in Symbols
    <3>2. Part(a, y) \in Int
      BY <2>3, PartType
    <3>3. CASE a.filled > 0
      BY <1>t, <2>2, <2>3, <3>2, <3>3, VenueAppend
    <3>4. CASE a.filled = 0
      <4>1. Part(a, y) = 0
        BY <2>3, <3>4, SignedZero DEF Part
      <4>2. venue'[y] = venue[y]
        BY <1>v, <2>2, <3>4
      <4>3. QED
        BY <1>n, <3>2, <4>1, <4>2
    <3>5. QED
      BY <2>3, <3>3, <3>4
  <2>5. OnWay = o.qty + OnWay' /\ OnWay' \in Int
    <3>1. OrderQty \in [Sent -> Int] /\ OrderQty[o] = o.qty /\ Tail(orders) \in Seq(Sent)
      BY <1>t, <2>1, <2>3, WeightTypes DEF OrderQty
    <3>2. Weigh(OrderQty, orders) = OrderQty[Head(orders)] + Weigh(OrderQty, Tail(orders))
      BY <1>t, <2>1, <3>1, WeighTail
    <3>3. Weigh(OrderQty, Tail(orders)) \in Int
      BY <3>1, WeighType
    <3>4. QED
      BY <2>1, <3>1, <3>2, <3>3, MissingParts DEF OnWay
  <2>6. InHand' = InHand /\ Pending' = Pending
    BY <2>1, MissingParts DEF Pending
  <2>7. lpc' = "store" => rread' <= pending_exposure'
    BY <1>a, <2>1
  <2>8. CASE results' = Append(results, a)
    <3>1. Answered' = Answered + o.qty
      <4> DEFINE V == ReservedOf(pending_reservations)
      <4>1. ClientOf(a) = ClientOf(o)
        BY <2>3 DEF ClientOf
      <4>2. o = orders[1] /\ 1 \in DOMAIN orders
        BY <1>t, <2>1, TailAt
      <4>3. V[a] = o.qty
        BY <1>r, <2>1, <4>1, <4>2 DEF ReservedOf, Reserved, OrdersReserved
      <4>4. V \in [Results -> Int]
        BY <1>t, WeightTypes
      <4>5. Answered = Weigh(V, results) /\ Answered' = Weigh(V, Append(results, a))
        BY <2>1, <2>8, MissingParts DEF Answered
      <4> HIDE DEF V, o
      <4>6. Weigh(V, Append(results, a)) = Weigh(V, results) + V[a]
        BY <1>t, <2>1, <4>4, WeighAppend
      <4>7. QED
        BY <4>3, <4>5, <4>6
    <3>2. \A y \in Symbols : Missing'[y] = Missing[y]
      <4>1. TAKE y \in Symbols
      <4>2. PartOf(y) \in [Results -> Int] /\ PartOf(y)[a] = Part(a, y)
        BY <2>1, WeightTypes DEF PartOf
      <4>3. Weigh(PartOf(y), Append(results, a)) = Weigh(PartOf(y), results) + PartOf(y)[a]
        BY <1>t, <2>1, <4>2, WeighAppend
      <4>4. Queued'[y] = Queued[y] + Part(a, y)
        BY <2>8, <4>2, <4>3, MissingParts
      <4>5. lpc # "idle" => Part(result, y) \in Int
        BY <1>t, ReportTypes, PartType DEF ListenerTypes
      <4>6. Coming'[y] = Coming[y] + Part(a, y)
        BY <1>n, <2>1, <2>4, <4>4, <4>5, MissingParts
      <4>7. Missing[y] = venue[y] - positions[y] - Coming[y]
            /\ Missing'[y] = venue'[y] - positions[y] - Coming'[y]
        BY <2>1, MissingParts
      <4>8. QED
        BY <1>n, <2>4, <4>6, <4>7
    <3>3. UnderWay' = UnderWay
      BY <1>n, <2>3, <2>5, <2>6, <3>1
    <3>4. QED
      BY <1>n, <2>6, <2>7, <3>2, <3>3 DEF Steady
  <2>9. CASE results' = results /\ "lost" \in odd'
    <3>1. Answered' = Answered
      BY <2>1, <2>9, MissingParts
    <3> DEFINE p == [y \in Symbols |-> Part(a, y)]
    <3>2. \A y \in Symbols : Missing'[y] = Missing[y] + p[y] /\ p[y] = Part(a, y) /\ p[y] \in Int
      <4>1. TAKE y \in Symbols
      <4>2. Coming'[y] = Coming[y]
        BY <2>1, <2>9, MissingParts
      <4>3. Missing[y] = venue[y] - positions[y] - Coming[y]
            /\ Missing'[y] = venue'[y] - positions[y] - Coming'[y]
        BY <2>1, MissingParts
      <4>4. Missing'[y] = Missing[y] + Part(a, y)
        BY <1>n, <2>4, <4>2, <4>3
      <4>5. QED
        BY <2>4, <4>4
    <3> HIDE DEF p
    <3>3. \A q, r : (\A y \in Symbols : q[y] \in Int /\ p[y] \in Int /\ r[y] = q[y] + p[y])
                      => Gross(r) <= Gross(q) + Gross(p)
      BY GrossSum
    <3>4. Gross(Missing') <= Gross(Missing) + Gross(p)
      BY <1>n, <3>2, <3>3
    <3>5. Gross(p) = a.filled
      BY <2>3, <3>2, GrossPart
    <3>6. Pending' - UnderWay' >= Pending - UnderWay + a.filled
      BY <1>n, <2>3, <2>5, <2>6, <3>1
    <3>7. odd' # {}
      BY <2>9
    <3>8. QED
      BY <2>3, <2>7, <3>4, <3>5, <3>6, <3>7 DEF Slipped
  <2>10. QED
    BY <2>1, <2>8, <2>9
<1>9. CASE Crash \/ Subscribe \/ Bootstrap
  BY <1>9 DEF Crash, Subscribe, Bootstrap, Lossy
<1>10. QED
  BY <1>1, <1>2, <1>3, <1>4, <1>5, <1>6, <1>7, <1>8, <1>9 DEF GateNext, MainStep, ListenerStep

\* A bootstrap that found nothing under way starts from what is held.
LEMMA BootstrapExact ==
    ASSUME GateTypeOK, [GateNext]_gateVars, running # "up", running' = "up",
           odd' \cap {"restart", "resting"} = {}
    PROVE  /\ orders' = <<>> /\ results' = <<>> /\ mpc' = "idle" /\ lpc' = "idle"
           /\ pending_exposure' = 0 /\ pending_position_qty' = Flat
           /\ \A c \in Clients : pending_reservations'[c] = 0
           /\ Pending' = 0 /\ UnderWay' = 0
           /\ \A y \in Symbols : Missing'[y] = 0
<1> USE DEF gateVars, riskState, mainVars, listenerVars, worldVars
<1>t. StateTypes /\ WireTypes /\ DownTypes /\ fills \in Seq(Reports)
      /\ GateTypeOK' /\ odd \subseteq odd'
  BY GateTypeStep DEF GateTypeOK, WireTypes
<1>1. Bootstrap
  BY <1>t DEF GateNext, MainStep, ListenerStep, Screen, Size, ReadExposure, HardGate, Reserve, ReserveQty,
     SendOrder, Release, StoreRelease, ReleaseQty, StoreReleaseQty, UpdateExposure, Execute, Crash,
     Subscribe, DownTypes
<1>2. /\ UNCHANGED <<pending_exposure, pending_position_qty, pending_reservations, mpc, lpc, orders, results, fills>>
      /\ positions' = Table[booked'] /\ booked' \in booked..Len(fills)
      /\ ~(\/ orders # <<>> \/ results # <<>> \/ booked' < Len(fills) \/ Shorted)
  BY <1>1 DEF Bootstrap
<1>3. /\ mpc = "idle" /\ lpc = "idle" /\ pending_exposure = 0 /\ pending_position_qty = Flat
      /\ \A c \in Clients : pending_reservations[c] = 0
  BY <1>t DEF DownTypes
<1>4. booked' = Len(fills)
  BY <1>t, <1>2 DEF WireTypes
<1>5. \A i \in DOMAIN fills : fills[i].status # "SUBMITTED"
  BY <1>t DEF WireTypes
<1>6. \A y \in Symbols : positions'[y] = venue'[y]
  BY <1>t, <1>2, <1>4, <1>5, TableIsHeld, VenueStays
<1>7. \A y \in Symbols : Missing'[y] = 0
  <2>1. TAKE y \in Symbols
  <2>2. Coming'[y] = 0
    BY <1>2, <1>3, MissingParts, WeighEmpty
  <2>3. positions'[y] \in Int
    BY <1>t DEF GateTypeOK, StateTypes
  <2>4. Missing'[y] = venue'[y] - positions'[y] - Coming'[y]
    BY MissingParts
  <2>5. QED
    BY <1>6, <2>2, <2>3, <2>4
<1>8. OnWay' = 0 /\ Answered' = 0
  BY <1>2, MissingParts, WeighEmpty
<1>9. InHand' = 0
  BY <1>2, <1>3 DEF InHand, Reserving
<1>10. UnderWay' = 0
  BY <1>8, <1>9 DEF UnderWay
<1>11. Pending' = 0
  BY <1>2, <1>3 DEF Pending
<1>12. QED
  BY <1>2, <1>3, <1>7, <1>10, <1>11

SumsTyped == UnderWay \in Int /\ Pending \in Int /\ \A y \in Symbols : Missing[y] \in Int

LEMMA SumsAreTyped == GateTypeOK => SumsTyped
BY SumTypes DEF SumsTyped

LEMMA AccountedStep ==
    ASSUME GateTypeOK, ReservedInv, Accounted, [GateNext]_gateVars
    PROVE  Accounted'
<1>s. SUFFICES ASSUME Lossy'
               PROVE  /\ UnderWay' + Gross(Missing') <= Pending'
                      /\ lpc' = "store" => rread' <= pending_exposure'
  BY DEF Accounted, Gross
<1>t. odd \subseteq odd' /\ running' = "up" /\ odd' \subseteq {"unsent", "lost"} /\ GateTypeOK'
  BY <1>s, GateTypeStep DEF Lossy
<1>g. \A p, q : (\A y \in Symbols : p[y] = q[y]) => Gross(p) = Gross(q)
  BY GrossSame
<1>n. UnderWay \in Int /\ Pending \in Int /\ \A y \in Symbols : Missing[y] \in Int
  BY SumTypes
<1>m. SumsTyped'
  BY <1>t, SumsAreTyped, PTL
<1>n2. UnderWay' \in Int /\ Pending' \in Int /\ \A y \in Symbols : Missing'[y] \in Int
  BY <1>m DEF SumsTyped
<1>h. \A p : (\A y \in Symbols : p[y] \in Int) => Gross(p) \in Int
  BY GrossType
<1>i. Gross(Missing) \in Int /\ Gross(Missing') \in Int
  BY <1>n, <1>n2, <1>h
<1>1. CASE running = "up"
  <2>1. UnderWay + Gross(Missing) <= Pending
    BY <1>1, <1>t DEF Accounted, Lossy
  <2>2. (Steady \/ Slipped) /\ (lpc' = "store" => rread' <= pending_exposure')
    BY <1>1, <1>s, AccountStep
  <2>3. CASE Steady
    <3>1. Gross(Missing') = Gross(Missing)
      BY <1>g, <2>3 DEF Steady
    <3>2. \A u, v, p, q, g \in Int : q - v = p - u /\ u + g <= p => v + g <= q
      OBVIOUS
    <3>3. Pending' - UnderWay' = Pending - UnderWay
      BY <2>3 DEF Steady
    <3>4. UnderWay' + Gross(Missing) <= Pending'
      BY <1>n, <1>n2, <1>i, <2>1, <3>2, <3>3
    <3>5. QED
      BY <2>2, <3>1, <3>4
  <2>4. CASE Slipped
    <3>1. PICK k \in Nat : /\ Gross(Missing') <= Gross(Missing) + k
                           /\ Pending' - UnderWay' >= Pending - UnderWay + k
      BY <2>4 DEF Slipped
    <3>2. \A u, v, p, q, g, h \in Int : q - v >= p - u + k /\ h <= g + k /\ u + g <= p => v + h <= q
      OBVIOUS
    <3>3. UnderWay' + Gross(Missing') <= Pending'
      BY <1>n, <1>n2, <1>i, <2>1, <3>1, <3>2
    <3>4. QED
      BY <2>2, <3>3
  <2>5. QED
    BY <2>2, <2>3, <2>4
<1>2. CASE running # "up"
  <2>1. /\ lpc' = "idle" /\ Pending' = 0 /\ UnderWay' = 0
        /\ \A y \in Symbols : Missing'[y] = 0
    BY <1>2, <1>t, BootstrapExact
  <2>2. \A p : (\A y \in Symbols : p[y] = 0) => Gross(p) = 0
    BY GrossFlat
  <2>3. Gross(Missing') = 0
    BY <2>1, <2>2
  <2>4. QED
    BY <2>1, <2>3
<1>3. QED
  BY <1>1, <1>2

LEMMA BalancedStep ==
    ASSUME GateTypeOK, ReservedInv, Accounted, Balanced, [GateNext]_gateVars
    PROVE  Balanced'
<1>s. SUFFICES ASSUME Clean' PROVE Pending' = UnderWay' /\ \A y \in Symbols : Missing'[y] = 0
  BY DEF Balanced, Missing, Flat
<1>t. odd = {} /\ odd' = {} /\ running' = "up" /\ Lossy' /\ GateTypeOK'
  BY <1>s, GateTypeStep DEF Clean, Lossy
<1>n. UnderWay \in Int /\ Pending \in Int
  BY SumTypes
<1>m. SumsTyped'
  BY <1>t, SumsAreTyped, PTL
<1>n2. UnderWay' \in Int /\ Pending' \in Int
  BY <1>m DEF SumsTyped
<1>1. CASE running = "up"
  <2>1. Pending = UnderWay /\ Missing = Flat
    BY <1>1, <1>t DEF Balanced, Clean
  <2>2. Steady
    BY <1>1, <1>t, AccountStep DEF Slipped
  <2>3. \A u, v, p, q \in Int : q - v = p - u /\ p = u => q = v
    OBVIOUS
  <2>4. Pending' = UnderWay'
    BY <1>n, <1>n2, <2>1, <2>2, <2>3 DEF Steady
  <2>5. QED
    BY <2>1, <2>2, <2>4 DEF Steady, Flat
<1>2. CASE running # "up"
  BY <1>2, <1>t, BootstrapExact
<1>3. QED
  BY <1>1, <1>2

-----------------------------------------------------------------------------
(* The exposure limit.                                                      *)

\* Orders on their way that may add to a position, and the one about to be sent.
AddingOf == [o \in Sent |-> IF o.reduce THEN 0 ELSE o.qty]
Adding == IF mpc \in {"reserve", "reserveQty", "send"} /\ ~order.reduce THEN order.qty ELSE 0

LEMMA AddingTypes ==
    /\ AddingOf \in [Sent -> Int]
    /\ \A q \in Seq(Sent) : SumFunction([i \in DOMAIN q |-> IF q[i].reduce THEN 0 ELSE q[i].qty])
                              = Weigh(AddingOf, q)
<1>1. AddingOf \in [Sent -> Int]
  BY SentTypes DEF AddingOf
<1>2. ASSUME NEW q \in Seq(Sent)
      PROVE  SumFunction([i \in DOMAIN q |-> IF q[i].reduce THEN 0 ELSE q[i].qty]) = Weigh(AddingOf, q)
  <2>1. [i \in DOMAIN q |-> IF q[i].reduce THEN 0 ELSE q[i].qty] = [i \in DOMAIN q |-> AddingOf[q[i]]]
    BY DEF AddingOf
  <2>2. QED
    BY <2>1 DEF SumFunction, Weigh
<1>3. QED
  BY <1>1, <1>2

LEMMA CommittedSum ==
    ASSUME orders \in Seq(Sent), orders' \in Seq(Sent)
    PROVE  /\ CommittedNext = Gross(venue) + Weigh(AddingOf, orders) + Adding
           /\ CommittedNext' = Gross(venue') + Weigh(AddingOf, orders') + Adding'
           /\ Committed = Gross(venue) + Weigh(AddingOf, orders)
<1>1. Committed = Gross(venue) + Weigh(AddingOf, orders)
  BY AddingTypes DEF Committed
<1>2. Committed' = Gross(venue') + Weigh(AddingOf, orders')
  <2>1. Committed' = Gross(venue') + SumFunction([i \in DOMAIN orders' |-> IF orders'[i].reduce THEN 0 ELSE orders'[i].qty])
    BY DEF Committed, Gross
  <2>2. QED
    BY <2>1, AddingTypes
<1>3. CommittedNext = Committed + Adding /\ CommittedNext' = Committed' + Adding'
  BY DEF CommittedNext, Adding
<1>4. QED
  BY <1>1, <1>2, <1>3

\* What a reduce-only order fills only closes.
LEMMA ClosingShrinks ==
    ASSUME NEW v \in Int, NEW s \in Signals, NEW f \in Nat,
           f = 0 \/ (v * Signed(s, 1) < 0 /\ f <= Magnitude(v))
    PROVE  Magnitude(v + Signed(s, f)) <= Magnitude(v)
<1>1. CASE f = 0
  <2>1. v + Signed(s, f) = v
    BY <1>1, SignedZero
  <2>2. QED
    BY <2>1, MagnitudeType
<1>2. CASE f # 0 /\ SignalSide[s] = "BUY"
  <2>1. Signed(s, 1) = 1 /\ Signed(s, f) = f
    BY <1>2 DEF Signed
  <2>2. v < 0 /\ f <= -v
    BY <1>2, <2>1 DEF Magnitude
  <2>3. QED
    BY <2>1, <2>2 DEF Magnitude
<1>3. CASE f # 0 /\ SignalSide[s] # "BUY"
  <2>1. Signed(s, 1) = -1 /\ Signed(s, f) = -f
    BY <1>3 DEF Signed
  <2>2. v > 0 /\ f <= v
    BY <1>3, <2>1 DEF Magnitude
  <2>3. QED
    BY <2>1, <2>2 DEF Magnitude
<1>4. QED
  BY <1>1, <1>2, <1>3

\* While nothing but losses happened, the exposure at the venue and of what is
\* under way is at most what the books show and one order.
LEMMA BooksCover ==
    ASSUME GateTypeOK, ReservedInv, Accounted, Lossy
    PROVE  Gross(venue) + OnWay <= total_exposure + pending_exposure + Top
<1>t. StateTypes /\ ListenerTypes /\ results \in Seq(Results) /\ pending_exposure \in Nat
      /\ pending_reservations \in [Clients -> Nat]
  BY DEF GateTypeOK, WireTypes, StateTypes
<1>r. Reserved
  BY DEF ReservedInv, Sane, Lossy
<1>n. /\ OnWay \in Int /\ Answered \in Int /\ InHand \in Int /\ Pending \in Int /\ InHand >= 0
      /\ \A y \in Symbols : /\ Queued[y] \in Int /\ Coming[y] \in Int /\ Missing[y] \in Int
                            /\ venue[y] \in Int /\ positions[y] \in Int
  BY SumTypes
<1> DEFINE r == [y \in Symbols |-> IF lpc # "idle" THEN Part(result, y) ELSE 0]
           u == [y \in Symbols |-> positions[y] + Coming[y]]
<1>1. \A y \in Symbols : r[y] \in Int /\ u[y] \in Int
  <2>1. lpc # "idle" => \A y \in Symbols : Part(result, y) \in Int
    BY <1>t, ReportTypes, PartType DEF ListenerTypes
  <2>2. QED
    BY <1>n, <2>1
<1>2. \A y \in Symbols : Coming[y] = Queued[y] + r[y]
  BY DEF Coming
<1>3. \A y \in Symbols : u[y] = positions[y] + Coming[y]
  OBVIOUS
<1>4. \A y \in Symbols : venue[y] = u[y] + Missing[y]
  <2>1. TAKE y \in Symbols
  <2>2. Missing[y] = venue[y] - positions[y] - Coming[y]
    BY DEF Missing
  <2>3. QED
    BY <1>n, <1>3, <2>2
<1>5. Gross(r) <= Top /\ Gross(r) \in Int
  <2>1. CASE lpc = "idle"
    <3>1. \A y \in Symbols : r[y] = 0
      BY <2>1
    <3> HIDE DEF r
    <3>2. Gross(r) = 0
      BY <3>1, GrossFlat
    <3>3. QED
      BY <3>2, TopBounds
  <2>2. CASE lpc # "idle"
    <3>1. \A y \in Symbols : r[y] = Part(result, y)
      BY <2>2
    <3>2. result \in Reports /\ result.filled \in Nat /\ result.filled <= Top
      BY <1>t, <2>2, ReportTypes DEF ListenerTypes
    <3> HIDE DEF r
    <3>3. Gross(r) = result.filled
      BY <3>1, <3>2, GrossPart
    <3>4. QED
      BY <3>2, <3>3
  <2>3. QED
    BY <2>1, <2>2
<1> HIDE DEF r, u
<1>6. Gross(Queued) <= Answered
  <2>1. Queued = [y \in Symbols |-> Weigh(PartOf(y), results)]
    BY DEF Queued
  <2>2. Gross(Queued) <= Weigh(FilledOf, results)
    BY <1>t, <2>1, GrossQueued
  <2> DEFINE V == ReservedOf(pending_reservations)
  <2>3. V \in [Results -> Int] /\ FilledOf \in [Results -> Int]
    BY <1>t, WeightTypes
  <2>4. \A i \in DOMAIN results : FilledOf[results[i]] <= V[results[i]]
    <3>1. TAKE i \in DOMAIN results
    <3>2. results[i] \in Results /\ results[i].filled \in Nat /\ ClientOf(results[i]) \in Clients
      BY <1>t, ReportTypes
    <3>3. pending_reservations[ClientOf(results[i])] >= results[i].filled
          /\ pending_reservations[ClientOf(results[i])] \in Nat
      BY <1>r, <1>t, <3>2 DEF Reserved, ResultsReserved
    <3>4. QED
      BY <3>2, <3>3 DEF FilledOf, ReservedOf
  <2>5. Answered = Weigh(V, results)
    BY DEF Answered
  <2> HIDE DEF V
  <2>6. Weigh(FilledOf, results) <= Weigh(V, results) /\ Weigh(FilledOf, results) \in Int
        /\ Weigh(V, results) \in Int
    BY <1>t, <2>3, <2>4, WeighLeq, WeighType
  <2>7. Gross(Queued) \in Int
    BY <1>n, GrossType
  <2>8. QED
    BY <2>2, <2>5, <2>6, <2>7
<1>7. Gross(Coming) <= Gross(Queued) + Gross(r)
  BY <1>n, <1>1, <1>2, GrossSum
<1>8. Gross(u) <= Gross(positions) + Gross(Coming)
  BY <1>n, <1>3, GrossSum
<1>9. Gross(venue) <= Gross(u) + Gross(Missing)
  BY <1>n, <1>1, <1>4, GrossSum
<1>10. /\ Gross(venue) \in Int /\ Gross(u) \in Int /\ Gross(Coming) \in Int /\ Gross(Queued) \in Int
       /\ Gross(Missing) \in Int /\ Gross(positions) \in Int
  BY <1>n, <1>1, GrossType
<1>11. OnWay + Answered + InHand + Gross(Missing) <= Pending /\ Pending <= pending_exposure
  BY <1>t DEF Accounted, UnderWay, Pending, StateTypes
<1>12. total_exposure = Gross(positions) /\ Top \in Int
  BY <1>t, TopBounds DEF StateTypes
<1>13. OnWay + Answered + Gross(Missing) <= pending_exposure
  BY <1>n, <1>t, <1>10, <1>11
<1>14. Gross(venue) <= Gross(positions) + Answered + Top + Gross(Missing)
  BY <1>n, <1>5, <1>6, <1>7, <1>8, <1>9, <1>10, <1>12
<1>15. QED
  BY <1>n, <1>t, <1>10, <1>12, <1>13, <1>14

LEMMA OvershootStep ==
    ASSUME GateTypeOK, ReservedInv, Accounted, OvershootInv, [GateNext]_gateVars
    PROVE  OvershootInv'
<1> USE DEF gateVars, riskState, mainVars, listenerVars, worldVars
<1>t. /\ odd \subseteq odd' /\ StateTypes /\ MainTypes /\ DownTypes
      /\ orders \in Seq(Sent) /\ orders' \in Seq(Sent) /\ fills \in Seq(Reports) /\ fills' \in Seq(Reports)
  BY GateTypeStep DEF GateTypeOK, WireTypes
<1>s. SUFFICES ASSUME odd' \subseteq {"unsent", "lost"} PROVE CommittedNext' < MaxExposure + Top
  BY DEF OvershootInv
<1>o. CommittedNext < MaxExposure + Top
  BY <1>t, <1>s DEF OvershootInv
<1>c. /\ CommittedNext = Gross(venue) + Weigh(AddingOf, orders) + Adding
      /\ CommittedNext' = Gross(venue') + Weigh(AddingOf, orders') + Adding'
  BY <1>t, CommittedSum
<1>n. Gross(venue) \in Int /\ Weigh(AddingOf, orders) \in Int /\ Weigh(AddingOf, orders') \in Int
      /\ MaxExposure \in Int /\ Top \in Int
  <2>1. Gross(venue) \in Int
    BY <1>t, VenueType, GrossType
  <2>2. Weigh(AddingOf, orders) \in Int /\ Weigh(AddingOf, orders') \in Int
    BY <1>t, AddingTypes, WeighType
  <2>3. QED
    BY <2>1, <2>2, TopBounds, RiskGateAssumption
<1>a. Adding \in Int /\ Adding >= 0
  BY <1>t, DraftTypes DEF Adding
<1>0. CASE UNCHANGED <<fills, orders>> /\ (Adding' = 0 \/ Adding' = Adding)
  <2>1. venue' = venue
    BY <1>0, VenueStays
  <2>2. QED
    BY <1>0, <1>o, <1>c, <1>n, <1>a, <2>1
<1>1. CASE HardGate /\ mpc' = "reserve"
  <2>1. UNCHANGED <<fills, orders, order, total_exposure>> /\ mpc = "decide"
        /\ mread + pending_exposure + order.qty < MaxExposure /\ mread = total_exposure
    <3>1. mread = total_exposure
      BY <1>1, <1>s DEF HardGate
    <3>2. QED
      BY <1>1, <3>1 DEF HardGate, MainIdle, ProjectedExposure
  <2>2. order.qty \in Nat /\ ~order.reduce
    BY <1>t, <2>1, DraftTypes DEF MainTypes
  <2>3. Adding' = order.qty
    BY <1>1, <2>1, <2>2 DEF Adding
  <2>4. Lossy
    BY <1>t, <1>s, <2>1 DEF Lossy, DownTypes
  <2>5. Gross(venue) + OnWay <= total_exposure + pending_exposure + Top
    BY <2>4, BooksCover
  <2>6. Weigh(AddingOf, orders) <= OnWay
    <3>1. \A i \in DOMAIN orders : AddingOf[orders[i]] <= OrderQty[orders[i]]
      BY <1>t, SentTypes DEF AddingOf, OrderQty
    <3>2. QED
      BY <1>t, <3>1, AddingTypes, WeightTypes, WeighLeq DEF OnWay
  <2>7. total_exposure \in Int /\ pending_exposure \in Int /\ OnWay \in Int
    BY <1>t, SumTypes, GrossType DEF StateTypes
  <2>8. venue' = venue
    BY <2>1, VenueStays
  <2>9. CommittedNext' = Gross(venue) + Weigh(AddingOf, orders) + order.qty
    BY <1>c, <2>1, <2>3, <2>8
  <2>10. QED
    BY <1>n, <2>1, <2>2, <2>5, <2>6, <2>7, <2>9
<1>2. CASE SendOrder
  <2>1. fills' = fills /\ mpc = "send" /\ mpc' = "idle"
    BY <1>2 DEF SendOrder, MainIdle
  <2>2. Adding' = 0
    BY <2>1 DEF Adding
  <2>3. CASE orders' = orders
    BY <1>0, <2>1, <2>2, <2>3
  <2>4. CASE orders' = Append(orders, order)
    <3>1. order \in Sent
      BY <1>t, <2>1, DraftTypes
    <3>2. Weigh(AddingOf, orders') = Weigh(AddingOf, orders) + AddingOf[order]
      BY <1>t, <2>4, <3>1, AddingTypes, WeighAppend
    <3>3. AddingOf[order] = Adding
      BY <2>1, <3>1 DEF AddingOf, Adding
    <3>4. venue' = venue
      BY <2>1, VenueStays
    <3>5. QED
      BY <1>o, <1>c, <1>n, <1>a, <2>2, <3>2, <3>3, <3>4
  <2>5. QED
    BY <1>2, <2>3, <2>4 DEF SendOrder
<1>3. CASE Execute
  <2>1. PICK a \in ResultsOf(Head(orders)) :
             /\ Head(orders) \in Sent /\ a \in Results
             /\ orders # <<>> /\ orders' = Tail(orders)
             /\ \/ a.status = "SUBMITTED" /\ "resting" \in odd'
                \/ fills' = IF a.filled > 0 THEN Append(fills, a) ELSE fills
             /\ UNCHANGED <<riskState, mainVars, listenerVars>>
    BY <1>3, ExecuteEffect
  <2>2. fills' = IF a.filled > 0 THEN Append(fills, a) ELSE fills
    BY <1>s, <2>1
  <2> DEFINE o == Head(orders)
             y == SymbolOf[o.sig]
  <2>3. /\ a \in Reports /\ a.sig = o.sig /\ a.filled \in Nat /\ a.filled <= o.qty /\ o.qty \in Nat
        /\ o.sig \in Signals /\ y \in Symbols /\ o.reduce \in BOOLEAN
    BY <1>t, <2>1, AnswerType, ReportTypes, SentTypes
  <2>4. o.reduce => \/ a.filled = 0
                    \/ venue[y] * Signed(o.sig, 1) < 0 /\ a.filled <= Magnitude(venue[y])
    BY <1>t, <2>1, AnswerType
  <2>5. Weigh(AddingOf, orders) = AddingOf[o] + Weigh(AddingOf, orders')
    BY <1>t, <2>1, AddingTypes, WeighTail
  <2>6. AddingOf[o] = IF o.reduce THEN 0 ELSE o.qty
    BY <2>1 DEF AddingOf
  <2>7. Adding' = Adding
    BY <2>1 DEF Adding
  <2>8. CASE a.filled = 0
    <3>1. venue' = venue
      BY <2>2, <2>8, VenueStays
    <3>2. QED
      BY <1>o, <1>c, <1>n, <1>a, <2>3, <2>5, <2>6, <2>7, <3>1
  <2>9. CASE a.filled > 0
    <3>1. fills' = Append(fills, a)
      BY <2>2, <2>9
    <3>2. \A x \in Symbols : venue'[x] = venue[x] + Part(a, x)
      BY <1>t, <2>3, <3>1, VenueAppend
    <3>3. \A x \in Symbols : venue[x] \in Int /\ Part(a, x) \in Int
      BY <1>t, <2>3, VenueType, PartType
    <3>4. \A x \in Symbols : venue'[x] \in Int /\ (x # y => venue'[x] = venue[x])
      <4>1. TAKE x \in Symbols
      <4>2. x # y => Part(a, x) = 0
        BY <2>3 DEF Part
      <4>3. QED
        BY <3>2, <3>3, <4>2
    <3>5. venue'[y] = venue[y] + Signed(o.sig, a.filled) /\ Signed(o.sig, a.filled) \in Int
      <4>1. Part(a, y) = Signed(o.sig, a.filled)
        BY <2>3 DEF Part
      <4>2. QED
        BY <2>3, <3>2, <3>3, <4>1
    <3>6. \A p, q : (/\ \A x \in Symbols : p[x] \in Int /\ q[x] \in Int
                     /\ \A x \in Symbols : x # y => q[x] = p[x])
                       => Gross(q) = Gross(p) + Magnitude(q[y]) - Magnitude(p[y])
      BY <2>3, GrossMove
    <3>7. Gross(venue') = Gross(venue) + Magnitude(venue'[y]) - Magnitude(venue[y])
      BY <3>3, <3>4, <3>6
    <3>8. Magnitude(venue'[y]) <= Magnitude(venue[y]) + AddingOf[o]
      <4>1. CASE o.reduce
        <5>1. Magnitude(venue'[y]) <= Magnitude(venue[y])
          BY <2>3, <2>4, <3>3, <3>5, <4>1, ClosingShrinks
        <5>2. AddingOf[o] = 0 /\ Magnitude(venue[y]) \in Int
          BY <2>3, <2>6, <3>3, <4>1, MagnitudeType
        <5>3. QED
          BY <5>1, <5>2
      <4>2. CASE ~o.reduce
        <5>1. Magnitude(Signed(o.sig, a.filled)) = a.filled
          BY <2>3, SignedType DEF Magnitude
        <5>2. \A m, n \in Int : Magnitude(m + n) <= Magnitude(m) + Magnitude(n)
          BY DEF Magnitude
        <5>3. Magnitude(venue'[y]) <= Magnitude(venue[y]) + a.filled
          BY <2>3, <3>3, <3>5, <5>1, <5>2
        <5>4. Magnitude(venue[y]) \in Int /\ Magnitude(venue'[y]) \in Int /\ AddingOf[o] = o.qty
          BY <2>3, <2>6, <3>3, <3>4, <4>2, MagnitudeType
        <5>5. QED
          BY <2>3, <5>3, <5>4
      <4>3. QED
        BY <2>3, <4>1, <4>2
    <3>9. Magnitude(venue[y]) \in Int /\ Magnitude(venue'[y]) \in Int /\ AddingOf[o] \in Int
      BY <2>3, <2>6, <3>3, <3>4, MagnitudeType
    <3> HIDE DEF o, y
    <3>10. QED
      BY <1>o, <1>c, <1>n, <1>a, <2>5, <2>7, <3>7, <3>8, <3>9
  <2>10. QED
    BY <2>3, <2>8, <2>9
<1>4. CASE \/ \E s \in Signals : Screen(s)
           \/ ReadExposure \/ Reserve \/ ReserveQty \/ (HardGate /\ mpc' # "reserve")
           \/ ListenerStep \/ Crash \/ Subscribe \/ Bootstrap \/ UNCHANGED gateVars
  <2>1. UNCHANGED <<fills, orders>>
    BY <1>4 DEF Screen, ReadExposure, Reserve, ReserveQty, HardGate, ListenerStep, Release, StoreRelease,
       ReleaseQty, StoreReleaseQty, UpdateExposure, Crash, Subscribe, Bootstrap
  <2>2. \/ mpc' = mpc /\ order' = order
        \/ mpc' \notin {"reserve", "reserveQty", "send"}
        \/ mpc \in {"reserve", "reserveQty"} /\ mpc' \in {"reserveQty", "send"} /\ order' = order
    BY <1>4 DEF Screen, ReadExposure, Reserve, ReserveQty, HardGate, MainIdle, ListenerStep, Release,
       StoreRelease, ReleaseQty, StoreReleaseQty, UpdateExposure, Crash, Subscribe, Bootstrap
  <2>3. Adding' = 0 \/ Adding' = Adding
    BY <2>2 DEF Adding
  <2>4. QED
    BY <1>0, <2>1, <2>3
<1>5. CASE Size
  <2>1. UNCHANGED <<fills, orders>>
    BY <1>5 DEF Size
  <2>2. mpc' \in {"idle", "gate"} \/ (mpc' = "reserve" /\ order'.reduce)
    <3>1. PICK n :
               \/ MainIdle
               \/ /\ order' = [order EXCEPT !.qty = n]
                  /\ mpc' = IF order.reduce THEN "reserve" ELSE "gate"
      BY <1>5 DEF Size
    <3>2. order \in Drafts
      BY <1>5, <1>t, DraftTypes DEF Size
    <3>3. order' = [order EXCEPT !.qty = n] => order'.reduce = order.reduce
      BY <3>2 DEF Drafts
    <3>4. QED
      BY <3>1, <3>3 DEF MainIdle
  <2>3. Adding' = 0
    BY <2>2 DEF Adding
  <2>4. QED
    BY <1>0, <2>1, <2>3
<1>6. QED
  BY <1>1, <1>2, <1>3, <1>4, <1>5 DEF GateNext, MainStep

\* The exposure limit holds up to one order (OvershootBounded), whatever is
\* lost: process_signal decides on the total and the pending exposure together,
\* and what a result releases is booked before the next one is taken.
\* Inductive with what is reserved against what is under way or missing.
THEOREM OvershootIsBounded == GateSpec => []OvershootBounded
<1> DEFINE Inv == GateTypeOK /\ ReservedInv /\ Accounted /\ OvershootInv
<1>1. GateInit => Inv
  <2>1. SUFFICES ASSUME GateInit PROVE Inv
    OBVIOUS
  <2>2. GateTypeOK
    BY <2>1, GateInitTypes
  <2>3. ReservedInv
    BY <2>1 DEF GateInit, ReservedInv, Reserved, OrdersReserved, ResultsReserved, HandReserved,
       ReleasedGone, Distinct, HandDistinct, Reserving
  <2>4. fills \in Seq(Reports) /\ orders \in Seq(Sent) /\ fills = <<>> /\ Len(fills) = 0
    BY <2>1 DEF GateInit
  <2>5. \A y \in Symbols : venue[y] = 0
    BY <2>4, HeldType DEF venue
  <2>6. \A y \in Symbols : Missing[y] = 0
    <3>1. \A y \in Symbols : Queued[y] = 0
      BY <2>1, WeighEmpty DEF GateInit, Queued
    <3>2. QED
      BY <2>1, <2>5, <3>1 DEF GateInit, Missing, Coming
  <2>7. Gross(Missing) = 0 /\ Gross(venue) = 0
    BY <2>5, <2>6, GrossFlat
  <2>8. UnderWay = 0 /\ Pending = 0
    <3>1. OnWay = 0 /\ Answered = 0
      BY <2>1, WeighEmpty DEF GateInit, OnWay, Answered
    <3>2. QED
      BY <2>1, <3>1 DEF GateInit, UnderWay, InHand, Reserving, Pending
  <2>9. Accounted
    BY <2>1, <2>7, <2>8 DEF GateInit, Accounted
  <2>10. CommittedNext = 0
    <3>1. Weigh(AddingOf, orders) = 0
      BY <2>1, WeighEmpty DEF GateInit
    <3>2. Committed = 0
      BY <2>4, <2>7, <3>1, AddingTypes DEF Committed
    <3>3. QED
      BY <2>1, <3>2 DEF GateInit, CommittedNext
  <2>11. OvershootInv
    BY <2>10, TopBounds, RiskGateAssumption DEF OvershootInv
  <2>12. QED
    BY <2>2, <2>3, <2>9, <2>11
<1>2. Inv /\ [GateNext]_gateVars => Inv'
  BY GateTypeStep, ReservedStep, AccountedStep, OvershootStep
<1>3. Inv => OvershootBounded
  <2>1. SUFFICES ASSUME Inv, odd \subseteq {"unsent", "lost"} PROVE Committed < MaxExposure + Top
    BY DEF OvershootBounded, Top
  <2>2. CommittedNext < MaxExposure + Top
    BY <2>1 DEF OvershootInv
  <2>3. orders \in Seq(Sent) /\ fills \in Seq(Reports) /\ MainTypes
    BY <2>1 DEF GateTypeOK, WireTypes
  <2>4. Committed = Gross(venue) + Weigh(AddingOf, orders)
    BY <2>3, AddingTypes DEF Committed
  <2>5. Gross(venue) \in Int /\ Weigh(AddingOf, orders) \in Int
    BY <2>3, VenueType, GrossType, AddingTypes, WeighType
  <2>6. CommittedNext = Committed + Adding
    BY DEF CommittedNext, Adding
  <2>7. Adding \in Int /\ Adding >= 0
    BY <2>3, DraftTypes DEF Adding
  <2>8. MaxExposure \in Int /\ Top \in Int
    BY TopBounds, RiskGateAssumption
  <2>9. QED
    BY <2>2, <2>4, <2>5, <2>6, <2>7, <2>8
<1>4. QED
  BY <1>1, <1>2, <1>3, PTL DEF GateSpec

-----------------------------------------------------------------------------
(* Pending quantities, and reservations nobody holds.                       *)

LEMMA QtyWeights ==
    \A y \in Symbols : /\ SignedOf(y) \in [Sent -> Int]
                       /\ \A r \in [Clients -> Int] : QtyReservedOf(r, y) \in [Results -> Int]
<1>1. TAKE y \in Symbols
<1>2. SignedOf(y) \in [Sent -> Int]
  BY SentTypes DEF SignedOf
<1>3. \A r \in [Clients -> Int] : QtyReservedOf(r, y) \in [Results -> Int]
  BY ReportTypes DEF QtyReservedOf
<1>4. QED
  BY <1>2, <1>3

\* The two terms of QtyInHand.
MainQty(y) == IF mpc = "send" /\ SymbolOf[order.sig] = y THEN Signed(order.sig, order.qty) ELSE 0
ListenerQty(y) == IF lpc \in {"store", "qty"} /\ SymbolOf[result.sig] = y
                  THEN pending_qty_reservations[ClientOf(result)] ELSE 0

LEMMA QtyTypes ==
    ASSUME GateTypeOK, NEW y \in Symbols
    PROVE  /\ QtyOnWay(y) \in Int /\ QtyAnswered(y) \in Int /\ MainQty(y) \in Int /\ ListenerQty(y) \in Int
           /\ QtyPending(y) \in Int /\ pending_position_qty[y] \in Int
<1>t. /\ StateTypes /\ MainTypes /\ ListenerTypes
      /\ orders \in Seq(Sent) /\ results \in Seq(Results)
      /\ pending_qty_reservations \in [Clients -> Int] /\ pending_position_qty \in [Symbols -> Int]
      /\ rread \in Int
  BY DEF GateTypeOK, WireTypes, StateTypes, ListenerTypes
<1>1. QtyOnWay(y) \in Int
  BY <1>t, QtyWeights, WeighType DEF QtyOnWay
<1>2. QtyAnswered(y) \in Int
  BY <1>t, QtyWeights, WeighType DEF QtyAnswered
<1>3. MainQty(y) \in Int
  BY <1>t, DraftTypes DEF MainQty
<1>4. ListenerQty(y) \in Int
  <2>1. lpc # "idle" => ClientOf(result) \in Clients
    BY <1>t, ReportTypes DEF ListenerTypes
  <2>2. QED
    BY <1>t, <2>1 DEF ListenerQty
<1>5. QtyPending(y) \in Int
  BY <1>t DEF QtyPending
<1>6. QED
  BY <1>1, <1>2, <1>3, <1>4, <1>5, <1>t

Even(y) == QtyPending(y) = QtyOnWay(y) + QtyAnswered(y) + (MainQty(y) + ListenerQty(y))

LEMMA QtyParts ==
    /\ QtyBalanced <=> \A y \in Symbols : Even(y)
    /\ QtyBalanced' <=> \A y \in Symbols : Even(y)'
    /\ \A y \in Symbols :
         /\ QtyOnWay(y)' = Weigh(SignedOf(y), orders')
         /\ QtyAnswered(y)' = Weigh(QtyReservedOf(pending_qty_reservations', y), results')
         /\ QtyPending(y)' = IF lpc' = "storeQty" /\ SymbolOf[result'.sig] = y THEN rread'
                             ELSE pending_position_qty'[y]
         /\ MainQty(y)' = IF mpc' = "send" /\ SymbolOf[order'.sig] = y
                          THEN Signed(order'.sig, order'.qty) ELSE 0
         /\ ListenerQty(y)' = IF lpc' \in {"store", "qty"} /\ SymbolOf[result'.sig] = y
                              THEN pending_qty_reservations'[ClientOf(result')] ELSE 0
         /\ Even(y)' <=> (QtyPending(y)' = QtyOnWay(y)' + QtyAnswered(y)' + (MainQty(y)' + ListenerQty(y)'))
<1>1. QtyBalanced <=> \A y \in Symbols : Even(y)
  BY DEF QtyBalanced, Even, QtyInHand, MainQty, ListenerQty
<1>2. QtyBalanced' <=> \A y \in Symbols : Even(y)'
  BY DEF QtyBalanced, Even, QtyInHand, MainQty, ListenerQty
<1>3. ASSUME NEW y \in Symbols
      PROVE  /\ QtyOnWay(y)' = Weigh(SignedOf(y), orders')
             /\ QtyAnswered(y)' = Weigh(QtyReservedOf(pending_qty_reservations', y), results')
  BY DEF QtyOnWay, QtyAnswered
<1>4. ASSUME NEW y \in Symbols
      PROVE  /\ QtyPending(y)' = IF lpc' = "storeQty" /\ SymbolOf[result'.sig] = y THEN rread'
                                 ELSE pending_position_qty'[y]
             /\ MainQty(y)' = IF mpc' = "send" /\ SymbolOf[order'.sig] = y
                              THEN Signed(order'.sig, order'.qty) ELSE 0
             /\ ListenerQty(y)' = IF lpc' \in {"store", "qty"} /\ SymbolOf[result'.sig] = y
                                  THEN pending_qty_reservations'[ClientOf(result')] ELSE 0
  BY DEF QtyPending, MainQty, ListenerQty, Signed, ClientOf
<1>5. ASSUME NEW y \in Symbols
      PROVE  Even(y)' <=> (QtyPending(y)' = QtyOnWay(y)' + QtyAnswered(y)' + (MainQty(y)' + ListenerQty(y)'))
  BY DEF Even
<1>6. QED
  BY <1>1, <1>2, <1>3, <1>4, <1>5

LEMMA QtyAnsweredSame ==
    ASSUME GateTypeOK, NEW c, results' = results, NEW v, NEW y \in Symbols,
           pending_qty_reservations' = [pending_qty_reservations EXCEPT ![c] = v],
           \A i \in DOMAIN results : ClientOf(results[i]) # c
    PROVE  QtyAnswered(y)' = QtyAnswered(y)
<1>1. results \in Seq(Results) /\ pending_qty_reservations \in [Clients -> Int]
  BY DEF GateTypeOK, WireTypes, StateTypes
<1> DEFINE V == QtyReservedOf(pending_qty_reservations, y)
           W == QtyReservedOf(pending_qty_reservations', y)
<1>2. \A i \in DOMAIN results : V[results[i]] = W[results[i]]
  BY <1>1, ReportTypes DEF QtyReservedOf
<1> HIDE DEF V, W
<1>3. Weigh(V, results) = Weigh(W, results)
  BY <1>1, <1>2, WeighSame
<1>4. QED
  BY <1>3, QtyParts DEF V, W, QtyAnswered

\* The client id of the result in hand is nobody else's.
LEMMA ResultApart ==
    ASSUME GateTypeOK, Reserved, lpc # "idle"
    PROVE  /\ \A i \in DOMAIN orders : ClientOf(orders[i]) # ClientOf(result)
           /\ \A i \in DOMAIN results : ClientOf(results[i]) # ClientOf(result)
           /\ Reserving => ClientOf(order) # ClientOf(result)
<1>t. orders \in Seq(Sent) /\ results \in Seq(Results) /\ MainTypes
  BY DEF GateTypeOK, WireTypes
<1>1. \A i \in DOMAIN orders : orders[i].qty > 0 /\ orders[i].qty \in Nat
  BY <1>t, SentTypes
<1>2. Reserving => order.qty > 0 /\ order.qty \in Nat
  BY <1>t, DraftTypes DEF Reserving
<1>3. QED
  BY <1>1, <1>2 DEF Reserved, OrdersReserved, ResultsReserved, HandReserved, ReleasedGone

LEMMA QtyReservedStep ==
    ASSUME GateTypeOK, Reserved, QtyReserved, [GateNext]_gateVars, running = "up", Clean'
    PROVE  QtyReserved'
<1> USE DEF gateVars, riskState, mainVars, listenerVars, worldVars
<1>t. /\ orders \in Seq(Sent) /\ results \in Seq(Results) /\ MainTypes /\ ListenerTypes
      /\ pending_qty_reservations \in [Clients -> Int] /\ running' = "up" /\ odd' = {}
  BY DEF GateTypeOK, WireTypes, StateTypes, Clean
<1>ord. \A i \in DOMAIN orders : ClientOf(orders[i]) \in Clients
  BY <1>t, SentTypes
<1>q. \A i \in DOMAIN orders : pending_qty_reservations[ClientOf(orders[i])]
                                 = Signed(orders[i].sig, orders[i].qty)
  BY DEF QtyReserved
<1>z. SUFFICES /\ \A i \in DOMAIN orders' : pending_qty_reservations'[ClientOf(orders'[i])]
                                              = Signed(orders'[i].sig, orders'[i].qty)
               /\ mpc' = "send" => pending_qty_reservations'[ClientOf(order')] = Signed(order'.sig, order'.qty)
  BY DEF QtyReserved, ClientOf, Signed
<1>1. CASE /\ UNCHANGED <<orders, pending_qty_reservations>>
           /\ mpc' = "send" => mpc = "send" /\ order' = order
  BY <1>1 DEF QtyReserved
<1>2. CASE ReserveQty
  <2> DEFINE c == ClientOf(order)
             q == Signed(order.sig, order.qty)
  <2>1. UNCHANGED <<orders, order>> /\ mpc = "reserveQty"
        /\ pending_qty_reservations' = [pending_qty_reservations EXCEPT ![c] = q]
    BY <1>2 DEF ReserveQty
  <2>2. c \in Clients /\ \A i \in DOMAIN orders : ClientOf(orders[i]) # c
    BY <1>t, <2>1, DraftTypes DEF Reserved, HandDistinct, Reserving
  <2> HIDE DEF c, q
  <2>3. pending_qty_reservations'[c] = q
    BY <1>t, <2>1, <2>2
  <2>4. \A i \in DOMAIN orders : pending_qty_reservations'[ClientOf(orders[i])]
                                   = pending_qty_reservations[ClientOf(orders[i])]
    BY <1>t, <1>ord, <2>1, <2>2
  <2>5. QED
    BY <1>q, <2>1, <2>3, <2>4 DEF c, q
<1>3. CASE SendOrder
  <2>1. UNCHANGED pending_qty_reservations /\ mpc' = "idle" /\ mpc = "send"
    BY <1>3 DEF SendOrder, MainIdle
  <2>2. orders' = Append(orders, order)
    BY <1>3, <1>t DEF SendOrder
  <2>3. order \in Sent
    BY <1>t, <2>1, DraftTypes
  <2>4. \A i \in DOMAIN orders' : \/ i \in DOMAIN orders /\ orders'[i] = orders[i]
                                  \/ orders'[i] = order
    BY <1>t, <2>2, <2>3, AppendAt
  <2>5. pending_qty_reservations[ClientOf(order)] = Signed(order.sig, order.qty)
    BY <2>1 DEF QtyReserved
  <2>6. QED
    BY <1>q, <2>1, <2>4, <2>5
<1>4. CASE ReleaseQty
  <2> DEFINE c == ClientOf(result)
  <2>1. UNCHANGED <<orders, order, mpc>> /\ lpc = "qty"
        /\ pending_qty_reservations' = [pending_qty_reservations EXCEPT ![c] = 0]
    BY <1>4 DEF ReleaseQty
  <2>2. (\A i \in DOMAIN orders : ClientOf(orders[i]) # c) /\ (Reserving => ClientOf(order) # c)
    BY <2>1, ResultApart
  <2>3. mpc = "send" => ClientOf(order) \in Clients
    BY <1>t, DraftTypes
  <2> HIDE DEF c
  <2>4. \A d \in Clients : d # c => pending_qty_reservations'[d] = pending_qty_reservations[d]
    BY <1>t, <2>1
  <2>5. \A i \in DOMAIN orders : pending_qty_reservations'[ClientOf(orders[i])]
                                   = Signed(orders[i].sig, orders[i].qty)
    BY <1>q, <1>ord, <2>2, <2>4
  <2>6. mpc = "send" => pending_qty_reservations'[ClientOf(order)] = Signed(order.sig, order.qty)
    BY <2>2, <2>3, <2>4 DEF QtyReserved, Reserving
  <2>7. QED
    BY <2>1, <2>5, <2>6
<1>5. CASE Execute
  <2>1. orders # <<>> /\ orders' = Tail(orders) /\ UNCHANGED <<pending_qty_reservations, mpc, order>>
    BY <1>5 DEF Execute
  <2>2. \A i \in DOMAIN orders' : i + 1 \in DOMAIN orders /\ orders'[i] = orders[i + 1]
    BY <1>t, <2>1, TailAt
  <2>3. QED
    BY <1>q, <2>1, <2>2 DEF QtyReserved
<1>6. CASE Crash \/ Subscribe \/ Bootstrap
  BY <1>6, <1>t DEF Crash, Subscribe, Bootstrap
<1>7. CASE \/ \E s \in Signals : Screen(s)
           \/ Size \/ ReadExposure \/ HardGate \/ Reserve \/ Release \/ StoreRelease
           \/ StoreReleaseQty \/ UpdateExposure \/ UNCHANGED gateVars
  <2>1. UNCHANGED <<orders, pending_qty_reservations>>
    BY <1>7 DEF Screen, Size, ReadExposure, HardGate, Reserve, Release, StoreRelease, StoreReleaseQty,
       UpdateExposure
  <2>2. mpc' = "send" => mpc = "send" /\ order' = order
    BY <1>7 DEF Screen, Size, ReadExposure, HardGate, MainIdle, Reserve, Release, StoreRelease,
       StoreReleaseQty, UpdateExposure
  <2>3. QED
    BY <1>1, <2>1, <2>2
<1>8. QED
  BY <1>2, <1>3, <1>4, <1>5, <1>6, <1>7 DEF GateNext, MainStep, ListenerStep

LEMMA NoStrayStep ==
    ASSUME GateTypeOK, Reserved, NoStray, [GateNext]_gateVars, running = "up", Clean'
    PROVE  NoStray'
<1> USE DEF gateVars, riskState, mainVars, listenerVars, worldVars
<1>t. /\ orders \in Seq(Sent) /\ results \in Seq(Results) /\ MainTypes /\ ListenerTypes
      /\ pending_reservations \in [Clients -> Nat] /\ running' = "up" /\ odd' = {}
  BY DEF GateTypeOK, WireTypes, StateTypes, Clean
<1>z. SUFFICES ASSUME NEW d \in Clients, pending_reservations'[d] # 0
               PROVE  \/ \E i \in DOMAIN orders' : ClientOf(orders'[i]) = d
                      \/ \E i \in DOMAIN results' : ClientOf(results'[i]) = d
                      \/ Reserving' /\ ClientOf(order') = d
  BY DEF NoStray, ClientOf
<1>s. pending_reservations[d] # 0 =>
        \/ \E i \in DOMAIN orders : ClientOf(orders[i]) = d
        \/ \E i \in DOMAIN results : ClientOf(results[i]) = d
        \/ Reserving /\ ClientOf(order) = d
  BY DEF NoStray
<1>1. CASE /\ UNCHANGED <<orders, results, pending_reservations>>
           /\ Reserving => Reserving' /\ order' = order
  BY <1>1, <1>s, <1>z
<1>2. CASE Reserve
  <2>1. UNCHANGED <<orders, results, order>> /\ mpc = "reserve" /\ Reserving' /\ ~Reserving
        /\ pending_reservations' = [pending_reservations EXCEPT ![ClientOf(order)] = order.qty]
    BY <1>2 DEF Reserve, Reserving
  <2>2. CASE d = ClientOf(order)
    BY <2>1, <2>2
  <2>3. CASE d # ClientOf(order)
    <3>1. pending_reservations'[d] = pending_reservations[d]
      BY <1>t, <2>1, <2>3
    <3>2. QED
      BY <1>s, <1>z, <2>1, <3>1
  <2>4. QED
    BY <2>2, <2>3
<1>3. CASE SendOrder
  <2>1. UNCHANGED <<results, pending_reservations>> /\ mpc = "send" /\ orders' = Append(orders, order)
    BY <1>3, <1>t DEF SendOrder
  <2>2. order \in Sent
    BY <1>t, <2>1, DraftTypes
  <2>3. /\ \A i \in DOMAIN orders : i \in DOMAIN orders' /\ orders'[i] = orders[i]
        /\ Len(orders) + 1 \in DOMAIN orders' /\ orders'[Len(orders) + 1] = order
    BY <1>t, <2>1, <2>2
  <2>4. QED
    BY <1>s, <1>z, <2>1, <2>3
<1>4. CASE Release
  <2> DEFINE c == ClientOf(Head(results))
  <2>1. UNCHANGED <<orders, mpc, order>> /\ results # <<>> /\ results' = Tail(results)
        /\ pending_reservations' = [pending_reservations EXCEPT ![c] = 0]
    BY <1>4 DEF Release
  <2>2. d # c
    BY <1>t, <1>z, <2>1
  <2>3. pending_reservations'[d] = pending_reservations[d]
    BY <1>t, <2>1, <2>2
  <2>4. \A i \in DOMAIN results : i # 1 => i - 1 \in DOMAIN results' /\ results'[i - 1] = results[i]
    BY <1>t, <2>1
  <2>5. Head(results) = results[1]
    BY <1>t, <2>1, TailAt
  <2>6. \A i \in DOMAIN results : ClientOf(results[i]) = d => i # 1
    BY <2>2, <2>5
  <2>7. (\E i \in DOMAIN results : ClientOf(results[i]) = d) => \E i \in DOMAIN results' : ClientOf(results'[i]) = d
    BY <2>4, <2>6
  <2>8. QED
    BY <1>s, <1>z, <2>1, <2>3, <2>7 DEF Reserving
<1>5. CASE Execute
  <2>1. PICK a \in ResultsOf(Head(orders)) :
             /\ Head(orders) \in Sent /\ a \in Results
             /\ orders # <<>> /\ orders' = Tail(orders)
             /\ results' = Append(results, a) \/ "lost" \in odd'
             /\ UNCHANGED <<riskState, mainVars>>
    BY <1>5, ExecuteEffect
  <2>2. results' = Append(results, a)
    BY <1>t, <2>1
  <2>3. ClientOf(a) = ClientOf(Head(orders)) /\ Head(orders) = orders[1]
    BY <1>t, <2>1, TailAt, AnswerType DEF ClientOf, GateTypeOK, WireTypes
  <2>4. /\ \A i \in DOMAIN results : i \in DOMAIN results' /\ results'[i] = results[i]
        /\ Len(results) + 1 \in DOMAIN results' /\ results'[Len(results) + 1] = a
    BY <1>t, <2>1, <2>2
  <2>5. \A i \in DOMAIN orders : i # 1 => i - 1 \in DOMAIN orders' /\ orders'[i - 1] = orders[i]
    BY <1>t, <2>1
  <2>6. ASSUME NEW i \in DOMAIN orders, ClientOf(orders[i]) = d
        PROVE  \/ \E j \in DOMAIN orders' : ClientOf(orders'[j]) = d
               \/ \E j \in DOMAIN results' : ClientOf(results'[j]) = d
    <3>1. CASE i = 1
      BY <2>3, <2>4, <2>6, <3>1
    <3>2. CASE i # 1
      BY <2>5, <2>6, <3>2
    <3>3. QED
      BY <3>1, <3>2
  <2>7. ASSUME NEW i \in DOMAIN results, ClientOf(results[i]) = d
        PROVE  \E j \in DOMAIN results' : ClientOf(results'[j]) = d
    BY <2>4, <2>7
  <2>8. UNCHANGED <<pending_reservations, mpc, order>>
    BY <2>1
  <2>9. Reserving' = Reserving
    BY <2>8 DEF Reserving
  <2>10. QED
    BY <1>s, <1>z, <2>6, <2>7, <2>8, <2>9
<1>6. CASE Crash \/ Subscribe \/ Bootstrap
  BY <1>6, <1>t DEF Crash, Subscribe, Bootstrap
<1>7. CASE \/ \E s \in Signals : Screen(s)
           \/ Size \/ ReadExposure \/ HardGate \/ ReserveQty \/ StoreRelease \/ ReleaseQty
           \/ StoreReleaseQty \/ UpdateExposure \/ UNCHANGED gateVars
  <2>1. UNCHANGED <<orders, results, pending_reservations>>
    BY <1>7 DEF Screen, Size, ReadExposure, HardGate, ReserveQty, StoreRelease, ReleaseQty, StoreReleaseQty,
       UpdateExposure
  <2>2. Reserving => Reserving' /\ order' = order
    BY <1>7 DEF Screen, Size, ReadExposure, HardGate, ReserveQty, StoreRelease, ReleaseQty, StoreReleaseQty,
       UpdateExposure, Reserving
  <2>3. QED
    BY <1>1, <2>1, <2>2
<1>8. QED
  BY <1>2, <1>3, <1>4, <1>5, <1>6, <1>7 DEF GateNext, MainStep, ListenerStep

LEMMA QtyBalancedStep ==
    ASSUME GateTypeOK, Reserved, QtyReserved, QtyBalanced, [GateNext]_gateVars, running = "up", Clean'
    PROVE  QtyBalanced'
<1> USE DEF gateVars, riskState, mainVars, listenerVars, worldVars
<1>t. /\ orders \in Seq(Sent) /\ results \in Seq(Results) /\ MainTypes /\ ListenerTypes
      /\ pending_position_qty \in [Symbols -> Int] /\ fills \in Seq(Reports)
      /\ pending_qty_reservations \in [Clients -> Int] /\ running' = "up" /\ odd' = {}
  BY DEF GateTypeOK, WireTypes, StateTypes, Clean
<1>z. SUFFICES ASSUME NEW y \in Symbols
               PROVE  QtyPending(y)' = QtyOnWay(y)' + QtyAnswered(y)' + (MainQty(y)' + ListenerQty(y)')
  BY QtyParts
<1>n. /\ QtyOnWay(y) \in Int /\ QtyAnswered(y) \in Int /\ MainQty(y) \in Int /\ ListenerQty(y) \in Int
      /\ QtyPending(y) \in Int /\ pending_position_qty[y] \in Int
  BY QtyTypes
<1>e. QtyPending(y) = QtyOnWay(y) + QtyAnswered(y) + (MainQty(y) + ListenerQty(y))
  BY QtyParts DEF Even
<1>p. /\ QtyOnWay(y)' = Weigh(SignedOf(y), orders')
      /\ QtyAnswered(y)' = Weigh(QtyReservedOf(pending_qty_reservations', y), results')
      /\ QtyPending(y)' = IF lpc' = "storeQty" /\ SymbolOf[result'.sig] = y THEN rread'
                          ELSE pending_position_qty'[y]
      /\ MainQty(y)' = IF mpc' = "send" /\ SymbolOf[order'.sig] = y
                       THEN Signed(order'.sig, order'.qty) ELSE 0
      /\ ListenerQty(y)' = IF lpc' \in {"store", "qty"} /\ SymbolOf[result'.sig] = y
                           THEN pending_qty_reservations'[ClientOf(result')] ELSE 0
  BY QtyParts
<1>w. /\ orders' = orders => QtyOnWay(y)' = QtyOnWay(y)
      /\ results' = results /\ pending_qty_reservations' = pending_qty_reservations
           => QtyAnswered(y)' = QtyAnswered(y)
      /\ mpc' = mpc /\ order' = order => MainQty(y)' = MainQty(y)
      /\ UNCHANGED <<lpc, result, pending_qty_reservations>> => ListenerQty(y)' = ListenerQty(y)
      /\ UNCHANGED <<lpc, result, rread, pending_position_qty>> => QtyPending(y)' = QtyPending(y)
  BY <1>p DEF QtyOnWay, QtyAnswered, MainQty, ListenerQty, QtyPending
<1>f. SignedOf(y) \in [Sent -> Int] /\ QtyReservedOf(pending_qty_reservations, y) \in [Results -> Int]
  BY <1>t, QtyWeights
<1>1. CASE \/ \E s \in Signals : Screen(s)
           \/ Size \/ ReadExposure \/ HardGate \/ Reserve \/ UNCHANGED gateVars
  <2>1. UNCHANGED <<orders, results, pending_qty_reservations, pending_position_qty, lpc, result, rread>>
    BY <1>1 DEF Screen, Size, ReadExposure, HardGate, Reserve
  <2>2. (mpc' = mpc /\ order' = order) \/ (mpc # "send" /\ mpc' # "send")
    BY <1>1 DEF Screen, Size, ReadExposure, HardGate, MainIdle, Reserve
  <2>3. MainQty(y)' = MainQty(y)
    BY <1>p, <2>2 DEF MainQty
  <2>4. QED
    BY <1>e, <1>w, <2>1, <2>3
<1>2. CASE ReserveQty
  <2> DEFINE c == ClientOf(order)
             q == Signed(order.sig, order.qty)
             x == SymbolOf[order.sig]
  <2>1. /\ UNCHANGED <<orders, results, order, lpc, result, rread>> /\ mpc = "reserveQty" /\ mpc' = "send"
        /\ pending_qty_reservations' = [pending_qty_reservations EXCEPT ![c] = q]
        /\ pending_position_qty' = [pending_position_qty EXCEPT ![x] = mread + q]
    BY <1>2 DEF ReserveQty
  <2>2. mread = pending_position_qty[x] /\ lpc # "storeQty"
    BY <1>2, <1>t DEF ReserveQty
  <2>3. c \in Clients /\ x \in Symbols /\ q \in Int /\ \A i \in DOMAIN results : ClientOf(results[i]) # c
    BY <1>t, <2>1, DraftTypes DEF Reserved, HandDistinct, Reserving
  <2>4. lpc # "idle" => ClientOf(result) \in Clients /\ ClientOf(result) # c
    BY <1>t, <2>1, ResultApart, ReportTypes DEF Reserving, ListenerTypes
  <2>5. MainQty(y) = 0 /\ MainQty(y)' = IF x = y THEN q ELSE 0
    BY <1>p, <2>1 DEF MainQty
  <2> HIDE DEF c, q, x
  <2>6. QtyAnswered(y)' = QtyAnswered(y)
    BY <2>1, <2>3, QtyAnsweredSame
  <2>7. ListenerQty(y)' = ListenerQty(y)
    <3>1. lpc # "idle" => pending_qty_reservations'[ClientOf(result)] = pending_qty_reservations[ClientOf(result)]
      BY <1>t, <2>1, <2>4
    <3>2. QED
      BY <1>p, <2>1, <3>1 DEF ListenerQty
  <2>8. QtyPending(y) = pending_position_qty[y] /\ QtyPending(y)' = pending_position_qty'[y]
    BY <1>p, <2>1, <2>2 DEF QtyPending
  <2>9. pending_position_qty'[y] = pending_position_qty[y] + (IF x = y THEN q ELSE 0)
    BY <1>t, <1>n, <2>1, <2>2, <2>3
  <2>10. QtyOnWay(y)' = QtyOnWay(y)
    BY <1>w, <2>1
  <2>11. QED
    BY <1>e, <1>n, <2>3, <2>5, <2>6, <2>7, <2>8, <2>9, <2>10
<1>3. CASE SendOrder
  <2>1. UNCHANGED <<results, pending_qty_reservations, pending_position_qty, lpc, result, rread>>
        /\ mpc = "send" /\ mpc' = "idle" /\ orders' = Append(orders, order)
    BY <1>3, <1>t DEF SendOrder, MainIdle
  <2>2. order \in Sent
    BY <1>t, <2>1, DraftTypes
  <2>3. MainQty(y)' = 0 /\ MainQty(y) = SignedOf(y)[order]
    BY <1>p, <2>1, <2>2 DEF MainQty, SignedOf
  <2>4. QtyOnWay(y)' = QtyOnWay(y) + SignedOf(y)[order]
    BY <1>f, <1>p, <1>t, <2>1, <2>2, WeighAppend DEF QtyOnWay
  <2>5. QtyAnswered(y)' = QtyAnswered(y) /\ ListenerQty(y)' = ListenerQty(y) /\ QtyPending(y)' = QtyPending(y)
    BY <1>w, <2>1
  <2>6. QED
    BY <1>e, <1>n, <2>3, <2>4, <2>5
<1>4. CASE Release
  <2> DEFINE h == Head(results)
             V == QtyReservedOf(pending_qty_reservations, y)
  <2>1. /\ UNCHANGED <<orders, mpc, order, pending_position_qty, pending_qty_reservations>>
        /\ lpc = "idle" /\ lpc' \in {"store", "qty"} /\ results # <<>>
        /\ result' = h /\ results' = Tail(results)
    BY <1>4 DEF Release
  <2>2. h \in Results
    BY <1>t, <2>1
  <2>3. ListenerQty(y) = 0 /\ ListenerQty(y)' = V[h]
    BY <1>p, <2>1, <2>2 DEF ListenerQty, QtyReservedOf
  <2>4. QtyPending(y)' = QtyPending(y)
    BY <1>p, <2>1 DEF QtyPending
  <2>5. QtyAnswered(y) = Weigh(V, results) /\ QtyAnswered(y)' = Weigh(V, Tail(results)) /\ V \in [Results -> Int]
    BY <1>f, <1>p, <2>1 DEF QtyAnswered
  <2>6. V[h] \in Int /\ Tail(results) \in Seq(Results)
    BY <1>t, <2>1, <2>2, <2>5
  <2> HIDE DEF V
  <2>7. Weigh(V, results) = V[h] + Weigh(V, Tail(results)) /\ Weigh(V, Tail(results)) \in Int
    BY <1>t, <2>1, <2>5, <2>6, WeighTail, WeighType
  <2>8. QtyOnWay(y)' = QtyOnWay(y) /\ MainQty(y)' = MainQty(y)
    BY <1>w, <2>1
  <2> HIDE DEF h
  <2>9. QED
    BY <1>e, <1>n, <2>3, <2>4, <2>5, <2>6, <2>7, <2>8
<1>5. CASE StoreRelease \/ UpdateExposure
  <2>1. /\ UNCHANGED <<orders, results, mpc, order, pending_position_qty, pending_qty_reservations>>
        /\ \/ lpc = "store" /\ lpc' = "qty" /\ result' = result
           \/ lpc = "book" /\ lpc' = "idle"
    BY <1>5 DEF StoreRelease, UpdateExposure
  <2>2. ListenerQty(y)' = ListenerQty(y) /\ QtyPending(y)' = QtyPending(y)
    BY <1>p, <2>1 DEF ListenerQty, QtyPending
  <2>3. QED
    BY <1>e, <1>w, <2>1, <2>2
<1>6. CASE ReleaseQty
  <2> DEFINE c == ClientOf(result)
             x == SymbolOf[result.sig]
             k == pending_qty_reservations[c]
  <2>1. /\ UNCHANGED <<orders, results, mpc, order, pending_position_qty, result>> /\ lpc = "qty"
        /\ pending_qty_reservations' = [pending_qty_reservations EXCEPT ![c] = 0]
        /\ IF k = 0 THEN lpc' = "book" ELSE lpc' = "storeQty" /\ rread' = pending_position_qty[x] - k
    BY <1>6 DEF ReleaseQty
  <2>2. c \in Clients /\ x \in Symbols /\ k \in Int
    BY <1>t, <2>1, ReportTypes DEF ListenerTypes
  <2>3. ListenerQty(y) = (IF x = y THEN k ELSE 0) /\ ListenerQty(y)' = 0
    BY <1>p, <2>1 DEF ListenerQty
  <2>4. \A i \in DOMAIN results : ClientOf(results[i]) # c
    BY <2>1, ResultApart
  <2>5. QtyPending(y) = pending_position_qty[y]
    BY <2>1 DEF QtyPending
  <2>6. QtyPending(y)' = pending_position_qty[y] - (IF x = y THEN k ELSE 0)
    BY <1>n, <1>p, <2>1, <2>2
  <2> HIDE DEF c, k, x
  <2>7. QtyAnswered(y)' = QtyAnswered(y)
    BY <2>1, <2>4, QtyAnsweredSame
  <2>8. QtyOnWay(y)' = QtyOnWay(y) /\ MainQty(y)' = MainQty(y)
    BY <1>w, <2>1
  <2>9. QED
    BY <1>e, <1>n, <2>2, <2>3, <2>5, <2>6, <2>7, <2>8
<1>7. CASE StoreReleaseQty
  <2>1. /\ UNCHANGED <<orders, results, mpc, order, pending_qty_reservations>>
        /\ lpc = "storeQty" /\ lpc' = "book" /\ UNCHANGED result
        /\ pending_position_qty' = [pending_position_qty EXCEPT ![SymbolOf[result.sig]] = rread]
    BY <1>7 DEF StoreReleaseQty
  <2>2. ListenerQty(y)' = 0 /\ ListenerQty(y) = 0
    BY <1>p, <2>1 DEF ListenerQty
  <2>3. QtyPending(y)' = QtyPending(y)
    BY <1>p, <1>t, <2>1 DEF QtyPending
  <2>4. QED
    BY <1>e, <1>w, <2>1, <2>2, <2>3
<1>8. CASE Execute
  <2>1. PICK a \in ResultsOf(Head(orders)) :
             /\ Head(orders) \in Sent /\ a \in Results
             /\ orders # <<>> /\ orders' = Tail(orders)
             /\ results' = Append(results, a) \/ "lost" \in odd'
             /\ UNCHANGED <<riskState, mainVars, listenerVars>>
    BY <1>8, ExecuteEffect
  <2> DEFINE o == Head(orders)
             V == QtyReservedOf(pending_qty_reservations, y)
  <2>2. results' = Append(results, a)
    BY <1>t, <2>1
  <2>3. a.sig = o.sig /\ a.ts = o.ts /\ o = orders[1] /\ 1 \in DOMAIN orders
    BY <1>t, <2>1, TailAt, AnswerType
  <2>4. V[a] = SignedOf(y)[o]
    <3>1. ClientOf(a) = ClientOf(o)
      BY <2>3 DEF ClientOf
    <3>2. pending_qty_reservations[ClientOf(a)] = Signed(o.sig, o.qty)
      BY <2>3, <3>1 DEF QtyReserved
    <3>3. QED
      BY <2>1, <2>3, <3>2 DEF QtyReservedOf, SignedOf
  <2>5. QtyAnswered(y) = Weigh(V, results) /\ QtyAnswered(y)' = Weigh(V, Append(results, a))
        /\ V \in [Results -> Int]
    BY <1>f, <1>p, <2>1, <2>2 DEF QtyAnswered
  <2>6. QtyOnWay(y) = SignedOf(y)[o] + QtyOnWay(y)' /\ QtyOnWay(y)' \in Int
    <3>1. Tail(orders) \in Seq(Sent)
      BY <1>t, <2>1
    <3>2. Weigh(SignedOf(y), orders) = SignedOf(y)[Head(orders)] + Weigh(SignedOf(y), Tail(orders))
      BY <1>f, <1>t, <2>1, WeighTail
    <3>3. Weigh(SignedOf(y), Tail(orders)) \in Int
      BY <1>f, <3>1, WeighType
    <3>4. QED
      BY <1>p, <2>1, <3>2, <3>3 DEF QtyOnWay
  <2>7. SignedOf(y)[o] \in Int
    BY <1>f, <2>1
  <2>8. MainQty(y)' = MainQty(y) /\ ListenerQty(y)' = ListenerQty(y) /\ QtyPending(y)' = QtyPending(y)
    BY <1>w, <2>1
  <2> HIDE DEF o, V
  <2>9. Weigh(V, Append(results, a)) = Weigh(V, results) + V[a]
    BY <1>t, <2>1, <2>5, WeighAppend
  <2>10. QED
    BY <1>e, <1>n, <2>4, <2>5, <2>6, <2>7, <2>8, <2>9
<1>9. CASE Crash \/ Subscribe \/ Bootstrap
  BY <1>9, <1>t DEF Crash, Subscribe, Bootstrap
<1>10. QED
  BY <1>1, <1>2, <1>3, <1>4, <1>5, <1>6, <1>7, <1>8, <1>9 DEF GateNext, MainStep, ListenerStep

LEMMA CleanStep ==
    ASSUME GateTypeOK, ReservedInv, CleanInv, [GateNext]_gateVars
    PROVE  CleanInv'
<1>s. SUFFICES ASSUME Clean' PROVE QtyReserved' /\ QtyBalanced' /\ NoStray'
  BY DEF CleanInv
<1>t. odd = {} /\ odd' = {} /\ running' = "up"
  BY <1>s, GateTypeStep DEF Clean
<1>1. CASE running = "up"
  <2>1. Reserved /\ QtyReserved /\ QtyBalanced /\ NoStray
    BY <1>1, <1>t DEF ReservedInv, Sane, CleanInv, Clean
  <2>2. QED
    BY <1>1, <1>s, <2>1, QtyReservedStep, QtyBalancedStep, NoStrayStep
<1>2. CASE running # "up"
  <2>1. /\ orders' = <<>> /\ results' = <<>> /\ mpc' = "idle" /\ lpc' = "idle"
        /\ pending_position_qty' = Flat
        /\ \A c \in Clients : pending_reservations'[c] = 0
    BY <1>2, <1>t, BootstrapExact
  <2>2. QtyReserved' /\ NoStray'
    BY <2>1 DEF QtyReserved, NoStray
  <2>3. ASSUME NEW y \in Symbols
        PROVE  QtyPending(y)' = QtyOnWay(y)' + QtyAnswered(y)' + (MainQty(y)' + ListenerQty(y)')
    <3>1. QtyOnWay(y)' = 0 /\ QtyAnswered(y)' = 0
      BY <2>1, QtyParts, WeighEmpty
    <3>2. MainQty(y)' = 0 /\ ListenerQty(y)' = 0 /\ QtyPending(y)' = pending_position_qty'[y]
      BY <2>1, QtyParts
    <3>3. pending_position_qty'[y] = 0
      BY <2>1 DEF Flat
    <3>4. QED
      BY <3>1, <3>2, <3>3
  <2>4. QED
    BY <2>2, <2>3, QtyParts
<1>3. QED
  BY <1>1, <1>2

\* With nothing under way and nothing gone wrong, every reservation is gone
\* and the books agree with the venue (DrainedWhenQuiet): each result releases
\* what process_signal reserved for its order, amount and quantity, and books
\* what the venue filled.  Inductive with the sums of what is under way.
THEOREM QuietIsDrained == GateSpec => []DrainedWhenQuiet
<1> DEFINE Inv == GateTypeOK /\ ReservedInv /\ Accounted /\ Balanced /\ CleanInv
<1>1. GateInit => Inv
  <2>1. SUFFICES ASSUME GateInit PROVE Inv
    OBVIOUS
  <2>2. GateTypeOK
    BY <2>1, GateInitTypes
  <2>3. ReservedInv
    BY <2>1 DEF GateInit, ReservedInv, Reserved, OrdersReserved, ResultsReserved, HandReserved,
       ReleasedGone, Distinct, HandDistinct, Reserving
  <2>4. fills \in Seq(Reports) /\ orders = <<>> /\ results = <<>> /\ Len(fills) = 0
    BY <2>1 DEF GateInit
  <2>5. \A y \in Symbols : venue[y] = 0
    BY <2>4, HeldType DEF venue
  <2>6. \A y \in Symbols : Missing[y] = 0
    <3>1. \A y \in Symbols : Queued[y] = 0
      BY <2>1, WeighEmpty DEF GateInit, Queued
    <3>2. QED
      BY <2>1, <2>5, <3>1 DEF GateInit, Missing, Coming
  <2>7. Gross(Missing) = 0
    BY <2>6, GrossFlat
  <2>8. UnderWay = 0 /\ Pending = 0
    <3>1. OnWay = 0 /\ Answered = 0
      BY <2>4, WeighEmpty DEF OnWay, Answered
    <3>2. QED
      BY <2>1, <3>1 DEF GateInit, UnderWay, InHand, Reserving, Pending
  <2>9. Accounted
    BY <2>1, <2>7, <2>8 DEF GateInit, Accounted
  <2>10. Balanced
    BY <2>6, <2>8 DEF Balanced, Missing, Flat
  <2>11. QtyReserved /\ NoStray
    BY <2>1 DEF GateInit, QtyReserved, NoStray
  <2>12. QtyBalanced
    <3>1. SUFFICES ASSUME NEW y \in Symbols PROVE Even(y)
      BY QtyParts
    <3>2. QtyOnWay(y) = 0 /\ QtyAnswered(y) = 0
      BY <2>4, WeighEmpty DEF QtyOnWay, QtyAnswered
    <3>3. MainQty(y) = 0 /\ ListenerQty(y) = 0 /\ QtyPending(y) = 0
      BY <2>1 DEF GateInit, MainQty, ListenerQty, QtyPending
    <3>4. QED
      BY <3>2, <3>3 DEF Even
  <2>13. QED
    BY <2>2, <2>3, <2>9, <2>10, <2>11, <2>12 DEF CleanInv
<1>2. Inv /\ [GateNext]_gateVars => Inv'
  BY GateTypeStep, ReservedStep, AccountedStep, BalancedStep, CleanStep
<1>3. Inv => DrainedWhenQuiet
  <2>1. SUFFICES ASSUME Inv, Quiet, odd = {}
                 PROVE  /\ pending_exposure = 0
                        /\ \A c \in Clients : pending_reservations[c] = 0
                        /\ \A y \in Symbols : pending_position_qty[y] = 0
                        /\ positions = venue /\ total_exposure = Gross(venue)
    BY DEF DrainedWhenQuiet
  <2>2. mpc = "idle" /\ lpc = "idle" /\ orders = <<>> /\ results = <<>> /\ Clean
    BY <2>1 DEF Quiet, Clean
  <2>3. Pending = UnderWay /\ Missing = Flat /\ QtyBalanced /\ NoStray
    BY <2>1, <2>2 DEF Balanced, CleanInv
  <2>4. pending_exposure = 0
    <3>1. OnWay = 0 /\ Answered = 0
      BY <2>2, WeighEmpty DEF OnWay, Answered
    <3>2. QED
      BY <2>2, <2>3, <3>1 DEF UnderWay, InHand, Reserving, Pending
  <2>5. \A c \in Clients : pending_reservations[c] = 0
    BY <2>2, <2>3 DEF NoStray, Reserving
  <2>6. ASSUME NEW y \in Symbols PROVE pending_position_qty[y] = 0
    <3>1. Even(y)
      BY <2>3, QtyParts
    <3>2. QtyOnWay(y) = 0 /\ QtyAnswered(y) = 0
      BY <2>2, WeighEmpty DEF QtyOnWay, QtyAnswered
    <3>3. MainQty(y) = 0 /\ ListenerQty(y) = 0 /\ QtyPending(y) = pending_position_qty[y]
      BY <2>2 DEF MainQty, ListenerQty, QtyPending
    <3>4. QED
      BY <3>1, <3>2, <3>3 DEF Even
  <2>7. ASSUME NEW y \in Symbols PROVE positions[y] = venue[y]
    <3>1. Coming[y] = 0
      BY <2>2, WeighEmpty DEF Coming, Queued
    <3>2. venue[y] - positions[y] - Coming[y] = 0
      BY <2>3 DEF Missing, Flat
    <3>3. venue[y] \in Int /\ positions[y] \in Int
      BY <2>1, SumTypes
    <3>4. QED
      BY <3>1, <3>2, <3>3
  <2>8. positions = venue /\ total_exposure = Gross(positions)
    <3>1. venue \in [Symbols -> Int] /\ positions \in [Symbols -> Int] /\ total_exposure = Gross(positions)
      BY <2>1, VenueType DEF GateTypeOK, StateTypes, WireTypes
    <3>2. QED
      BY <2>7, <3>1
  <2>9. QED
    BY <2>4, <2>5, <2>6, <2>8
<1>4. QED
  BY <1>1, <1>2, <1>3, PTL DEF GateSpec

===============================================================================
