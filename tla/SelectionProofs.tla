-------------------------- MODULE SelectionProofs --------------------------
(***************************************************************************)
(* What the arithmetic of selectGateway computes, for farms of any size.    *)
(* Its totals (farm.go:75-79) are sums over a finite set of members: first *)
(* an induction rule for finite sets, the step from a set to the set with  *)
(* one element less, and what follows for sums by the rule; then what the  *)
(* minimum group is made of.                                               *)
(***************************************************************************)
EXTENDS Selection, FiniteSetTheorems, TLAPS

\* What holds of a set when it holds of the set without any one of its elements
\* holds of all finite sets; "holds" is membership in Good.
LEMMA SubsetInduction ==
    ASSUME NEW D, IsFiniteSet(D), NEW Good,
           \A T \in SUBSET D : (\A x \in T : T \ {x} \in Good) => T \in Good
    PROVE  D \in Good
<1> DEFINE Bad == {T \in SUBSET D : T \notin Good}
<1> SUFFICES ASSUME D \notin Good PROVE FALSE
  OBVIOUS
<1>1. Bad \subseteq FiniteSubsetsOf(D) /\ Bad # {}
  BY FS_Subset DEF FiniteSubsetsOf
<1>2. PICK T \in Bad : \A U \in Bad : ~(<<U, T>> \in StrictSubsetOrdering(D))
  <2>1. IsWellFoundedOn(StrictSubsetOrdering(D), FiniteSubsetsOf(D))
    BY FS_StrictSubsetOrderingWellFounded
  <2> HIDE DEF Bad
  <2> QED
    BY <1>1, <2>1, WFMin
<1>3. ASSUME NEW x \in T PROVE T \ {x} \in Good
  <2>1. T \ {x} \in SUBSET D /\ T \in SUBSET D /\ T \ {x} # T
    OBVIOUS
  <2>2. <<T \ {x}, T>> \in StrictSubsetOrdering(D)
    BY <2>1 DEF StrictSubsetOrdering
  <2> QED
    BY <1>2, <2>1, <2>2
<1> QED
  BY <1>2, <1>3

-----------------------------------------------------------------------------
(* The recursion behind SumFunctionOnSet.                                  *)

First(s) == CHOOSE x \in s : TRUE

\* it is the table of partial sums of f over the subsets of D.
Tabulates(it, f, D) ==
    it = [s \in SUBSET D |-> IF s = {} THEN 0 ELSE f[First(s)] + it[s \ {First(s)}]]

Table(f, D) == CHOOSE it : Tabulates(it, f, D)

LEMMA SumIsTabulated ==
    ASSUME NEW f, NEW D
    PROVE  SumFunctionOnSet(f, D) = Table(f, D)[D]
BY DEF SumFunctionOnSet, FoldFunctionOnSet, MapThenFoldSet, Table, Tabulates, First

LEMMA FirstIsElement == ASSUME NEW s, s # {} PROVE First(s) \in s
BY DEF First

\* Two tables agree where both are defined.
LEMMA TablesAgree ==
    ASSUME NEW f, NEW D, NEW E, IsFiniteSet(D), D \subseteq E,
           NEW g, Tabulates(g, f, D), NEW h, Tabulates(h, f, E)
    PROVE  g[D] = h[D]
<1> DEFINE Good == {T \in SUBSET D : g[T] = h[T]}
<1>1. ASSUME NEW T \in SUBSET D, \A x \in T : T \ {x} \in Good
      PROVE  T \in Good
  <2>1. CASE T = {}
    BY <2>1 DEF Tabulates
  <2>2. CASE T # {}
    <3>1. First(T) \in T
      BY <2>2, FirstIsElement
    <3>2. g[T \ {First(T)}] = h[T \ {First(T)}]
      BY <1>1, <3>1
    <3>3. g[T] = f[First(T)] + g[T \ {First(T)}]
      BY <2>2 DEF Tabulates
    <3>4. h[T] = f[First(T)] + h[T \ {First(T)}]
      BY <2>2 DEF Tabulates
    <3> QED
      BY <3>2, <3>3, <3>4
  <2> QED
    BY <2>1, <2>2
<1>2. D \in Good
  <2> HIDE DEF Good
  <2> QED
    BY <1>1, SubsetInduction
<1> QED
  BY <1>2

\* There is a table for every finite set.
LEMMA TableExists ==
    ASSUME NEW f, NEW D, IsFiniteSet(D)
    PROVE  Tabulates(Table(f, D), f, D)
<1> DEFINE Good == {T \in SUBSET D : \E it : Tabulates(it, f, T)}
<1>1. ASSUME NEW T \in SUBSET D, \A x \in T : T \ {x} \in Good
      PROVE  \E it : Tabulates(it, f, T)
  <2> DEFINE below(s) == Table(f, s)[s]
             it == [s \in SUBSET T |->
                      IF s = {} THEN 0 ELSE f[First(s)] + below(s \ {First(s)})]
  <2>0. IsFiniteSet(T)
    BY FS_Subset
  <2>1. ASSUME NEW s \in SUBSET T, s # T
        PROVE  Tabulates(Table(f, s), f, s)
    <3>1. PICK x \in T : s \subseteq T \ {x}
      BY <2>1
    <3>2. PICK g : Tabulates(g, f, T \ {x})
      BY <1>1, <3>1
    <3>3. Tabulates([u \in SUBSET s |-> g[u]], f, s)
      <4> DEFINE r == [u \in SUBSET s |-> g[u]]
      <4>1. ASSUME NEW u \in SUBSET s
            PROVE  r[u] = IF u = {} THEN 0 ELSE f[First(u)] + r[u \ {First(u)}]
        <5>1. u \in SUBSET (T \ {x}) /\ u \ {First(u)} \in SUBSET s
          BY <3>1
        <5>2. g[u] = IF u = {} THEN 0 ELSE f[First(u)] + g[u \ {First(u)}]
          BY <3>2, <5>1 DEF Tabulates
        <5> QED
          BY <5>1, <5>2
      <4> QED
        BY <4>1 DEF Tabulates
    <3> QED
      BY <3>3 DEF Table
  <2>2. ASSUME NEW s \in SUBSET T, s # {}
        PROVE  it[s \ {First(s)}] = below(s \ {First(s)})
    <3> DEFINE u == s \ {First(s)}
    <3>1. First(s) \in s /\ u \in SUBSET T /\ u # T
      BY <2>2, FirstIsElement
    <3>2. Tabulates(Table(f, u), f, u)
      BY <2>1, <3>1
    <3>3. CASE u = {}
      <4>1. Table(f, u)[u] = 0
        BY <3>2, <3>3 DEF Tabulates
      <4>2. it[u] = 0
        BY <3>1, <3>3
      <4> QED
        BY <4>1, <4>2
    <3>4. CASE u # {}
      <4> DEFINE v == u \ {First(u)}
      <4>1. First(u) \in u /\ v \in SUBSET T /\ v # T /\ v \subseteq u /\ IsFiniteSet(v)
        BY <2>0, <3>1, <3>4, FirstIsElement, FS_Subset
      <4>2. Tabulates(Table(f, v), f, v)
        BY <2>1, <4>1
      <4>3. Table(f, v)[v] = Table(f, u)[v]
        BY <3>2, <4>1, <4>2, TablesAgree
      <4>4. Table(f, u)[u] = f[First(u)] + Table(f, u)[v]
        BY <3>2, <3>4 DEF Tabulates
      <4>5. it[u] = f[First(u)] + below(v)
        BY <3>1, <3>4
      <4> QED
        BY <4>3, <4>4, <4>5
    <3> QED
      BY <3>3, <3>4
  <2>3. it = [s \in SUBSET T |-> IF s = {} THEN 0 ELSE f[First(s)] + it[s \ {First(s)}]]
    <3> HIDE DEF below
    <3> DEFINE at == [s \in SUBSET T |-> IF s = {} THEN 0 ELSE f[First(s)] + it[s \ {First(s)}]]
    <3>1. ASSUME NEW s \in SUBSET T PROVE it[s] = at[s]
      <4>1. CASE s = {}
        BY <4>1
      <4>2. CASE s # {}
        BY <2>2, <4>2
      <4> QED
        BY <4>1, <4>2
    <3> QED
      BY <3>1
  <2> QED
    BY <2>3 DEF Tabulates
<1>2. D \in Good
  <2>1. \A T \in SUBSET D : (\A x \in T : T \ {x} \in Good) => T \in Good
    BY <1>1
  <2> HIDE DEF Good
  <2> QED
    BY <2>1, SubsetInduction
<1> QED
  BY <1>2 DEF Table

-----------------------------------------------------------------------------
(* What the proofs cite.                                                   *)

\* A sum over a set is that over the set without one of its elements, and that
\* element's value.
LEMMA SumStep ==
    ASSUME NEW f, NEW D, IsFiniteSet(D), D # {}
    PROVE  \E x \in D : SumFunctionOnSet(f, D) = f[x] + SumFunctionOnSet(f, D \ {x})
<1> DEFINE x == First(D)
           U == D \ {x}
<1>1. x \in D /\ IsFiniteSet(U) /\ U \subseteq D
  BY FirstIsElement, FS_Subset
<1>2. Tabulates(Table(f, D), f, D) /\ Tabulates(Table(f, U), f, U)
  BY <1>1, TableExists
<1>3. Table(f, D)[D] = f[x] + Table(f, D)[U]
  BY <1>2 DEF Tabulates
<1>4. Table(f, U)[U] = Table(f, D)[U]
  BY <1>1, <1>2, TablesAgree
<1> QED
  BY <1>1, <1>3, <1>4, SumIsTabulated

LEMMA SumOfNone == ASSUME NEW f PROVE SumFunctionOnSet(f, {}) = 0
<1>1. Tabulates(Table(f, {}), f, {})
  BY FS_EmptySet, TableExists
<1>2. Table(f, {})[{}] = 0
  BY <1>1 DEF Tabulates
<1> QED
  BY <1>2, SumIsTabulated
LEMMA SumType ==
    ASSUME NEW D, IsFiniteSet(D), NEW f, \A x \in D : f[x] \in Nat
    PROVE  SumFunctionOnSet(f, D) \in Nat
<1> DEFINE Good == {T \in SUBSET D : SumFunctionOnSet(f, T) \in Nat}
<1>1. ASSUME NEW T \in SUBSET D, \A x \in T : T \ {x} \in Good
      PROVE  SumFunctionOnSet(f, T) \in Nat
  <2>1. CASE T = {}
    BY <2>1, SumOfNone
  <2>2. CASE T # {}
    <3>1. PICK x \in T : SumFunctionOnSet(f, T) = f[x] + SumFunctionOnSet(f, T \ {x})
      BY <2>2, SumStep, FS_Subset
    <3> QED
      BY <1>1, <3>1
  <2> QED
    BY <2>1, <2>2
<1>2. D \in Good
  <2>1. \A T \in SUBSET D : (\A x \in T : T \ {x} \in Good) => T \in Good
    BY <1>1
  <2> HIDE DEF Good
  <2> QED
    BY <2>1, SubsetInduction
<1> QED
  BY <1>2

\* Any element may be taken out.
LEMMA SumWithout ==
    ASSUME NEW D, IsFiniteSet(D), NEW f, \A x \in D : f[x] \in Nat, NEW e \in D
    PROVE  SumFunctionOnSet(f, D) = f[e] + SumFunctionOnSet(f, D \ {e})
<1> DEFINE Sum(T) == SumFunctionOnSet(f, T)
           Good == {T \in SUBSET D : \A x \in T : Sum(T) = f[x] + Sum(T \ {x})}
<1>0. \A T \in SUBSET D : IsFiniteSet(T) /\ Sum(T) \in Nat
  BY FS_Subset, SumType
<1>1. ASSUME NEW T \in SUBSET D, \A x \in T : T \ {x} \in Good, NEW x \in T
      PROVE  Sum(T) = f[x] + Sum(T \ {x})
  <2>1. PICK y \in T : Sum(T) = f[y] + Sum(T \ {y})
    BY <1>0, SumStep
  <2>2. CASE x = y
    BY <2>1, <2>2
  <2>3. CASE x # y
    <3> DEFINE U == (T \ {y}) \ {x}
    <3>1. Sum(T \ {y}) = f[x] + Sum(U)
      BY <1>1, <2>3
    <3>2. Sum(T \ {x}) = f[y] + Sum((T \ {x}) \ {y})
      BY <1>1, <2>3
    <3>3. (T \ {x}) \ {y} = U
      OBVIOUS
    <3>4. f[x] \in Nat /\ f[y] \in Nat /\ Sum(U) \in Nat
      BY <1>0
    <3> HIDE DEF Sum, U
    <3> QED
      BY <2>1, <3>1, <3>2, <3>3, <3>4
  <2> QED
    BY <2>2, <2>3
<1>2. D \in Good
  <2>1. \A T \in SUBSET D : (\A x \in T : T \ {x} \in Good) => T \in Good
    BY <1>1
  <2> HIDE DEF Good
  <2> QED
    BY <2>1, SubsetInduction
<1> QED
  BY <1>2

\* No member weighs more than all of them.
LEMMA SumBounds ==
    ASSUME NEW D, IsFiniteSet(D), NEW f, \A x \in D : f[x] \in Nat, NEW e \in D
    PROVE  f[e] <= SumFunctionOnSet(f, D)
<1>1. SumFunctionOnSet(f, D) = f[e] + SumFunctionOnSet(f, D \ {e})
  BY SumWithout
<1>2. SumFunctionOnSet(f, D \ {e}) \in Nat
  BY FS_Subset, SumType
<1> QED
  BY <1>1, <1>2

\* Running totals over 1..n end at the sum (farm.go:75-79).
LEMMA SumIsRunningTotal ==
    ASSUME NEW n \in Nat, NEW f, \A k \in 1..n : f[k] \in Nat,
           NEW acc, acc[0] = 0, \A k \in 1..n : acc[k] = acc[k - 1] + f[k]
    PROVE  SumFunctionOnSet(f, 1..n) = acc[n]
<1> DEFINE Good == {T \in SUBSET (1..n) :
                      \A m \in 0..n : T = 1..m => SumFunctionOnSet(f, T) = acc[m]}
<1>1. ASSUME NEW T \in SUBSET (1..n), \A x \in T : T \ {x} \in Good,
             NEW m \in 0..n, T = 1..m
      PROVE  SumFunctionOnSet(f, T) = acc[m]
  <2>1. CASE m = 0
    BY <1>1, <2>1, SumOfNone
  <2>2. CASE m # 0
    <3>1. m \in T /\ T \ {m} = 1..m - 1 /\ m - 1 \in 0..n
      BY <1>1, <2>2
    <3>2. SumFunctionOnSet(f, T \ {m}) = acc[m - 1]
      BY <1>1, <3>1
    <3>3. SumFunctionOnSet(f, T) = f[m] + SumFunctionOnSet(f, T \ {m})
      <4>1. IsFiniteSet(T)
        BY <1>1, FS_Interval
      <4> QED
        BY <3>1, <4>1, SumWithout
    <3>4. SumFunctionOnSet(f, T \ {m}) \in Nat
      <4>1. IsFiniteSet(T \ {m})
        <5>1. IsFiniteSet(1..m - 1)
          BY FS_Interval
        <5> QED
          BY <3>1, <5>1
      <4> QED
        BY <4>1, SumType
    <3> QED
      BY <3>1, <3>2, <3>3, <3>4
  <2> QED
    BY <2>1, <2>2
<1>2. 1..n \in Good
  <2>1. \A T \in SUBSET (1..n) : (\A x \in T : T \ {x} \in Good) => T \in Good
    BY <1>1
  <2>2. IsFiniteSet(1..n)
    BY FS_Interval
  <2> HIDE DEF Good
  <2> QED
    BY <2>1, <2>2, SubsetInduction
<1> QED
  BY <1>2

\* If the cross product with a / b is positive for every member, it is positive
\* for the totals.
LEMMA SumOfExcess ==
    ASSUME NEW D, IsFiniteSet(D), D # {}, NEW f, NEW g, NEW a \in Nat, NEW b \in Nat,
           \A x \in D : f[x] \in Nat /\ g[x] \in Nat /\ f[x] * a > g[x] * b
    PROVE  SumFunctionOnSet(f, D) * a > SumFunctionOnSet(g, D) * b
<1> DEFINE F(T) == SumFunctionOnSet(f, T)
           G(T) == SumFunctionOnSet(g, T)
           Good == {T \in SUBSET D : T = {} \/ F(T) * a > G(T) * b}
<1>1. ASSUME NEW T \in SUBSET D, \A x \in T : T \ {x} \in Good, T # {}
      PROVE  F(T) * a > G(T) * b
  <2>1. PICK x \in T : TRUE
    BY <1>1
  <2> DEFINE U == T \ {x}
  <2>2. IsFiniteSet(T) /\ IsFiniteSet(U)
    BY FS_Subset
  <2>3. F(T) = f[x] + F(U) /\ G(T) = g[x] + G(U)
    BY <2>2, SumWithout
  <2>4. F(U) \in Nat /\ G(U) \in Nat /\ f[x] \in Nat /\ g[x] \in Nat /\ f[x] * a > g[x] * b
    BY <2>2, SumType
  <2>5. F(U) * a >= G(U) * b
    <3>1. CASE U = {}
      <4>1. F(U) = 0 /\ G(U) = 0
        BY <3>1, SumOfNone
      <4> QED
        BY <4>1
    <3>2. CASE U # {}
      BY <1>1, <2>4, <3>2
    <3> QED
      BY <3>1, <3>2
  <2>6. (f[x] + F(U)) * a > (g[x] + G(U)) * b
    <3> DEFINE fu == F(U)
               gu == G(U)
               fx == f[x]
               gx == g[x]
    <3>1. fu \in Nat /\ gu \in Nat /\ fx \in Nat /\ gx \in Nat /\ fx * a > gx * b /\ fu * a >= gu * b
      BY <2>4, <2>5
    <3> HIDE DEF fu, gu, fx, gx
    <3>2. (fx + fu) * a > (gx + gu) * b
      <4>1. (fx + fu) * a = fx * a + fu * a /\ (gx + gu) * b = gx * b + gu * b
        BY <3>1
      <4>2. fx * a \in Nat /\ fu * a \in Nat /\ gx * b \in Nat /\ gu * b \in Nat
        BY <3>1
      <4> QED
        BY <3>1, <4>1, <4>2
    <3> QED
      BY <3>2 DEF fu, gu, fx, gx
  <2> QED
    BY <2>3, <2>6
<1>2. D \in Good
  <2>1. \A T \in SUBSET D : (\A x \in T : T \ {x} \in Good) => T \in Good
    BY <1>1
  <2> HIDE DEF Good
  <2> QED
    BY <2>1, SubsetInduction
<1> QED
  BY <1>2

\* Pairs are counted by counting those of each first component.
LEMMA SumOfCounts ==
    ASSUME NEW D, IsFiniteSet(D), NEW S, IsFiniteSet(S), NEW f,
           \A x \in D : f[x] = Cardinality({s \in S : s[1] = x})
    PROVE  SumFunctionOnSet(f, D) = Cardinality({s \in S : s[1] \in D})
<1> DEFINE In(T) == {s \in S : s[1] \in T}
           Good == {T \in SUBSET D : SumFunctionOnSet(f, T) = Cardinality(In(T))}
<1>0. \A T : IsFiniteSet(In(T)) /\ Cardinality(In(T)) \in Nat
  BY FS_Subset, FS_CardinalityType
<1>1. ASSUME NEW T \in SUBSET D, \A x \in T : T \ {x} \in Good
      PROVE  SumFunctionOnSet(f, T) = Cardinality(In(T))
  <2>1. CASE T = {}
    <3>1. In(T) = {}
      BY <2>1
    <3>2. SumFunctionOnSet(f, T) = 0
      BY <2>1, SumOfNone
    <3>3. Cardinality({}) = 0
      BY FS_EmptySet
    <3> HIDE DEF In
    <3> QED
      BY <3>1, <3>2, <3>3
  <2>2. CASE T # {}
    <3>1. PICK x \in T : SumFunctionOnSet(f, T) = f[x] + SumFunctionOnSet(f, T \ {x})
      BY <2>2, SumStep, FS_Subset
    <3>2. SumFunctionOnSet(f, T \ {x}) = Cardinality(In(T \ {x}))
      BY <1>1
    <3> DEFINE A == {s \in S : s[1] = x}
               B == In(T \ {x})
    <3>3. In(T) = A \cup B /\ A \cap B = {}
      OBVIOUS
    <3>4. IsFiniteSet(A) /\ IsFiniteSet(B) /\ Cardinality(A) \in Nat /\ Cardinality(B) \in Nat
      BY FS_Subset, FS_CardinalityType
    <3>5. Cardinality(A \cup B) = Cardinality(A) + Cardinality(B) - Cardinality(A \cap B)
      BY <3>4, FS_Union
    <3>6. Cardinality({}) = 0
      BY FS_EmptySet
    <3>7. f[x] = Cardinality(A)
      OBVIOUS
    <3>8. SumFunctionOnSet(f, T) = Cardinality(A) + Cardinality(B)
      BY <3>1, <3>2, <3>7
    <3>9. Cardinality(A \cup B) = Cardinality(A) + Cardinality(B)
      <4>1. Cardinality(A \cap B) = 0
        BY <3>3, <3>6, Zenon
      <4> HIDE DEF A, B
      <4> QED
        BY <3>4, <3>5, <4>1
    <3>10. Cardinality(In(T)) = Cardinality(A \cup B)
      BY <3>3, Zenon
    <3> QED
      BY <3>8, <3>9, <3>10, Zenon
  <2> QED
    BY <2>1, <2>2
<1>2. D \in Good
  <2>1. \A T \in SUBSET D : (\A x \in T : T \ {x} \in Good) => T \in Good
    BY <1>1
  <2> HIDE DEF Good
  <2> QED
    BY <2>1, SubsetInduction
<1> QED
  BY <1>2
-----------------------------------------------------------------------------
(* Priorities.                                                             *)

LEMMA MulNonNeg == ASSUME NEW a \in Nat, NEW b \in Nat PROVE a * b \in Nat
  OBVIOUS

\* Raising the reference point from a least value at or below 0 to 0 only
\* shortens the distance, also when it is scaled by e.
LEMMA ScaledDistance ==
    ASSUME NEW p \in Int, NEW least \in Int, NEW e \in Nat, NEW d \in Int,
           least <= 0, (p - least) * e <= d
    PROVE  p * e <= d
  <1>1. (p - least) * e = p * e + (-least) * e
    OBVIOUS
  <1>2. (-least) * e \in Nat
    BY MulNonNeg
  <1>. DEFINE pe == p * e
              le == (-least) * e
  <1>3. pe \in Int /\ le \in Nat /\ pe + le <= d
    BY <1>1, <1>2
  <1>. HIDE DEF pe, le
  <1>4. pe <= d
    BY <1>3
  <1>. QED
    BY <1>4 DEF pe

\* With sessions to share, a priority is the cross product of the two shares.
LEMMA PriorityIsCrossProduct ==
    ASSUME NEW m, NEW w \in Nat \ {0}, NEW s \in Nat \ {0}
    PROVE  Priority(m, w, s) = m.sessions * w - m.weight * s
  BY DEF Priority, Share, Whole

\* In an idle farm every priority is negative.
LEMMA PriorityInIdleFarm ==
    ASSUME NEW m \in Member, NEW w \in Nat \ {0}
    PROVE  Priority(m, w, 0) < 0
  <1>1. Priority(m, w, 0) = 0 * w - m.weight * 1
    BY DEF Priority, Share, Whole
  <1>2. 0 * w = 0 /\ m.weight * 1 = m.weight /\ m.weight \in Nat \ {0}
    BY DEF Member
  <1>. QED
    BY <1>1, <1>2

-----------------------------------------------------------------------------
(* The minimum group.                                                      *)

\* Usable members, as many as there may be.
UsableFarm(alive) ==
    /\ IsFiniteSet(DOMAIN alive) /\ DOMAIN alive # {}
    /\ \A k \in DOMAIN alive :
          alive[k].weight \in Nat \ {0} /\ alive[k].sessions \in Nat

\* The totals are positive, or none, and bound their parts (farm.go:75-79).
LEMMA TotalsOfFarm ==
    ASSUME NEW alive, UsableFarm(alive)
    PROVE  /\ TotalWeight(alive) \in Nat \ {0} /\ TotalSessions(alive) \in Nat
           /\ \A k \in DOMAIN alive :
                /\ alive[k].weight <= TotalWeight(alive)
                /\ alive[k].sessions <= TotalSessions(alive)
<1> DEFINE D == DOMAIN alive
           w == [k \in D |-> alive[k].weight]
           s == [k \in D |-> alive[k].sessions]
<1>1. /\ \A k \in D : w[k] \in Nat /\ s[k] \in Nat /\ w[k] = alive[k].weight
                      /\ s[k] = alive[k].sessions /\ w[k] > 0
      /\ IsFiniteSet(D) /\ D # {}
  BY DEF UsableFarm
<1>2. TotalWeight(alive) = SumFunctionOnSet(w, D) /\ TotalSessions(alive) = SumFunctionOnSet(s, D)
  BY DEF TotalWeight, TotalSessions, SumFunction
<1> HIDE DEF w, s, D
<1>3. SumFunctionOnSet(w, D) \in Nat /\ SumFunctionOnSet(s, D) \in Nat
  BY <1>1, SumType
<1>4. \A k \in D : w[k] <= SumFunctionOnSet(w, D)
  BY <1>1, SumBounds
<1>5. \A k \in D : s[k] <= SumFunctionOnSet(s, D)
  BY <1>1, SumBounds
<1>6. SumFunctionOnSet(w, D) > 0
  <2>1. PICK k \in D : TRUE
    BY <1>1
  <2> QED
    BY <1>1, <1>3, <1>4, <2>1
<1> QED
  BY <1>1, <1>2, <1>3, <1>4, <1>5, <1>6 DEF D

\* Some member has no more than its share: the priorities add up to 0.
LEMMA SomeUnderShare ==
    ASSUME NEW alive, UsableFarm(alive)
    PROVE  \E j \in DOMAIN alive :
             alive[j].sessions * TotalWeight(alive) <= alive[j].weight * TotalSessions(alive)
<1> DEFINE D == DOMAIN alive
           w == [k \in D |-> alive[k].weight]
           s == [k \in D |-> alive[k].sessions]
           W == TotalWeight(alive)
           S == TotalSessions(alive)
<1> SUFFICES ASSUME ~\E j \in D : alive[j].sessions * W <= alive[j].weight * S
             PROVE  FALSE
  OBVIOUS
<1>1. /\ \A k \in D : w[k] \in Nat /\ s[k] \in Nat /\ w[k] = alive[k].weight
                      /\ s[k] = alive[k].sessions
      /\ IsFiniteSet(D) /\ D # {}
  BY DEF UsableFarm
<1>2. W = SumFunctionOnSet(w, D) /\ S = SumFunctionOnSet(s, D)
  BY DEF TotalWeight, TotalSessions, SumFunction
<1>3. W \in Nat /\ S \in Nat
  BY TotalsOfFarm
<1> HIDE DEF w, s, D, W, S
<1>4. \A k \in D : s[k] * W > w[k] * S
  BY <1>1, <1>3
<1>5. S * W > W * S
  BY <1>1, <1>2, <1>3, <1>4, SumOfExcess
<1> QED
  BY <1>3, <1>5

\* Whoever may be picked exceeds its share by at most eps (farm.go:47-50,107).
LEMMA GroupIsUnderShare ==
    ASSUME NEW alive, UsableFarm(alive), NEW i \in MinGroup(alive)
    PROVE  (alive[i].sessions * TotalWeight(alive) - alive[i].weight * TotalSessions(alive)) * EpsInv
             <= TotalWeight(alive) * Whole(TotalSessions(alive))
<1> DEFINE W == TotalWeight(alive)
           S == TotalSessions(alive)
           p(k) == Priority(alive[k], W, S)
<1>1. i \in DOMAIN alive /\ \A j \in DOMAIN alive : WithinEps(p(i), p(j), W, S)
  BY DEF MinGroup
<1>2. /\ W \in Nat \ {0} /\ S \in Nat /\ Whole(W) = W
      /\ \A k \in DOMAIN alive : /\ alive[k].weight \in Nat \ {0} /\ alive[k].sessions \in Nat
                                /\ alive[k].sessions <= S
  BY TotalsOfFarm DEF UsableFarm, Whole
<1>3. PICK j \in DOMAIN alive : alive[j].sessions * W <= alive[j].weight * S
  BY SomeUnderShare
<1> HIDE DEF W, S
<1>4. CASE S = 0
  <2>1. alive[i].sessions = 0
    BY <1>1, <1>2, <1>4
  <2>2. alive[i].sessions * W - alive[i].weight * S = 0
    BY <1>1, <1>2, <1>4, <2>1
  <2>3. 0 * EpsInv = 0 /\ W * Whole(S) = W
    BY <1>2, <1>4, EpsInvAssumption DEF Whole
  <2> QED
    BY <1>2, <2>2, <2>3 DEF W, S
<1>5. CASE S # 0
  <2>1. /\ p(i) = alive[i].sessions * W - alive[i].weight * S
        /\ p(j) = alive[j].sessions * W - alive[j].weight * S
        /\ Whole(S) = S
    BY <1>2, <1>5, PriorityIsCrossProduct DEF Whole
  <2>2. /\ p(i) \in Int /\ p(j) \in Int /\ p(j) <= 0 /\ W * Whole(S) \in Int
    <3>1. /\ alive[i].sessions * W \in Nat /\ alive[i].weight * S \in Nat
          /\ alive[j].sessions * W \in Nat /\ alive[j].weight * S \in Nat /\ W * S \in Nat
      BY <1>1, <1>2, MulNonNeg
    <3> QED
      BY <1>3, <2>1, <3>1
  <2>3. (p(i) - p(j)) * EpsInv <= W * Whole(S)
    BY <1>1, <1>2, <1>3 DEF WithinEps
  <2> HIDE DEF p
  <2>4. p(i) * EpsInv <= W * Whole(S)
    BY <2>2, <2>3, EpsInvAssumption, ScaledDistance
  <2> QED
    BY <2>1, <2>4 DEF W, S
<1> QED
  BY <1>4, <1>5
=============================================================================
