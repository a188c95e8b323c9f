------------------------- MODULE FarmBalanceProofs -------------------------
(***************************************************************************)
(* Concurrent launches crowd a member by at most one session each, on a    *)
(* farm of any size with any weights and any number of launches.           *)
(***************************************************************************)
EXTENDS FarmBalance, SelectionProofs

-----------------------------------------------------------------------------
(* Arithmetic.                                                             *)

LEMMA MulMonotone ==
    ASSUME NEW a \in Int, NEW b \in Int, NEW e \in Nat, a <= b
    PROVE  a * e <= b * e
<1>1. b * e = a * e + (b - a) * e
  OBVIOUS
<1>2. (b - a) * e \in Nat
  BY MulNonNeg
<1> DEFINE ae == a * e
           de == (b - a) * e
<1>3. ae \in Int /\ de \in Nat /\ b * e = ae + de
  BY <1>1, <1>2
<1> HIDE DEF ae, de
<1>4. ae <= b * e
  BY <1>3
<1> QED
  BY <1>4 DEF ae

\* x members' sessions of T, of which at most o are elsewhere: what x exceeds
\* the share of T by, it exceeds that of the rest by at least.
LEMMA ExcessOverRest ==
    ASSUME NEW x \in Nat, NEW o \in Nat, NEW o2 \in Nat, NEW w \in Nat, NEW t \in Nat,
           o <= o2
    PROVE  x * (t - w) - w * o2 <= x * t - w * (x + o)
<1>1. x * (t - w) = x * t - x * w
  OBVIOUS
<1>2. w * (x + o) = x * w + w * o
  OBVIOUS
<1>3. o * w <= o2 * w
  BY MulMonotone
<1>4. w * o = o * w /\ w * o2 = o2 * w
  OBVIOUS
<1> DEFINE xt == x * t
           xw == x * w
           ow == o * w
           pw == o2 * w
<1>5. /\ xt \in Int /\ xw \in Int /\ ow \in Int /\ pw \in Int /\ ow <= pw
      /\ x * (t - w) - w * o2 = (xt - xw) - pw
      /\ x * t - w * (x + o) = xt - (xw + ow)
  BY <1>1, <1>2, <1>3, <1>4
<1> HIDE DEF xt, xw, ow, pw
<1>6. (xt - xw) - pw <= xt - (xw + ow)
  BY <1>5
<1> QED
  BY <1>5, <1>6

-----------------------------------------------------------------------------
(* What the definitions say.                                               *)

LEMMA FarmType ==
    /\ Farm = 1..Len(Weight) /\ Len(Weight) \in Nat /\ IsFiniteSet(Farm) /\ Farm # {}
    /\ \A i \in Farm : Weight[i] \in Nat \ {0}
    /\ EpsInv \in Nat
    /\ Cardinality(Launches) \in Nat
<1>1. Weight \in Seq(Nat \ {0}) /\ Weight # <<>>
  BY FarmBalanceAssumption
<1>2. Len(Weight) \in Nat /\ Farm = 1..Len(Weight) /\ \A i \in Farm : Weight[i] \in Nat \ {0}
  BY <1>1 DEF Farm
<1>3. Farm # {}
  BY <1>1, <1>2
<1>4. IsFiniteSet(Farm)
  BY <1>2, FS_Interval
<1> QED
  BY <1>2, <1>3, <1>4, FarmBalanceAssumption, EpsInvAssumption, FS_CardinalityType

LEMMA TotalType ==
    /\ TotalW \in Nat
    /\ \A i \in Farm : Weight[i] <= TotalW
<1>1. IsFiniteSet(Farm) /\ \A i \in Farm : Weight[i] \in Nat
  BY FarmType
<1>2. TotalW = SumFunctionOnSet(Weight, Farm)
  BY DEF TotalW, SumFunction, Farm
<1> QED
  BY <1>1, <1>2, SumType, SumBounds

\* What is counted of a finite set.
LEMMA AtType ==
    ASSUME NEW T, IsFiniteSet(T), NEW i
    PROVE  /\ IsFiniteSet(At(T, i)) /\ At(T, i) \subseteq T
           /\ Cardinality(At(T, i)) \in Nat /\ Cardinality(T) \in Nat
           /\ Cardinality(At(T, i)) <= Cardinality(T)
<1>1. At(T, i) \subseteq T
  BY DEF At
<1> QED
  BY <1>1, FS_Subset, FS_CardinalityType

\* The launches that may come to a member are no more than there are.
LEMMA ComingType ==
    ASSUME NEW i, NEW v
    PROVE  /\ Coming(i, v) \subseteq Launches /\ IsFiniteSet(Coming(i, v))
           /\ Cardinality(Coming(i, v)) \in Nat
           /\ Cardinality(Coming(i, v)) <= Cardinality(Launches)
<1>1. Coming(i, v) \subseteq Launches
  BY DEF Coming
<1> QED
  BY <1>1, FarmBalanceAssumption, FS_Subset, FS_CardinalityType

\* Elsewhere there are some sessions, or none.
LEMMA LoadType ==
    ASSUME TypeOK, NEW i
    PROVE  /\ Load(i) \in Nat /\ Cardinality(open) \in Nat /\ Load(i) <= Cardinality(open)
           /\ Whole(Cardinality(open)) \in Nat \ {0}
           /\ \A l \in Launches :
                /\ IsFiniteSet(seen[l]) /\ seen[l] \subseteq open
                /\ Cardinality(At(seen[l], i)) \in Nat
                /\ Cardinality(seen[l]) <= Cardinality(open)
<1>1. Load(i) \in Nat /\ Cardinality(open) \in Nat /\ Load(i) <= Cardinality(open)
  BY AtType DEF TypeOK, Load
<1>2. ASSUME NEW l \in Launches
      PROVE  IsFiniteSet(seen[l]) /\ seen[l] \subseteq open
  BY FS_Subset DEF TypeOK
<1>3. ASSUME NEW l \in Launches
      PROVE  Cardinality(seen[l]) <= Cardinality(open)
  BY <1>2, FS_Subset DEF TypeOK
<1>4. Whole(Cardinality(open)) \in Nat \ {0}
  BY <1>1 DEF Whole
<1> QED
  BY <1>1, <1>2, <1>3, <1>4, AtType

-----------------------------------------------------------------------------
(* How shares move.                                                        *)

\* A share counts what is elsewhere and what is open; it grows with both.
ShareOf(i, x, elsewhere, all) ==
    (x * (TotalW - Weight[i]) - Weight[i] * elsewhere) * EpsInv <= TotalW * Whole(all)

\* Fewer sessions here, more elsewhere and more in all leave a member within its
\* share.
LEMMA ShareMonotone ==
    ASSUME NEW i \in Farm, NEW x \in Nat, NEW y \in Nat, y <= x,
           NEW e \in Nat, NEW e2 \in Nat, e <= e2, NEW a \in Nat, NEW a2 \in Nat, a <= a2,
           ShareOf(i, x, e, a)
    PROVE  ShareOf(i, y, e2, a2)
<1> DEFINE w == Weight[i]
           d == TotalW - w
           old == x * d - w * e
           new == y * d - w * e2
<1>1. w \in Nat /\ d \in Nat /\ TotalW \in Nat /\ EpsInv \in Nat
  BY FarmType, TotalType
<1> HIDE DEF w, d
<1>2. new <= old /\ new \in Int /\ old \in Int
  <2>1. y * d <= x * d /\ e * w <= e2 * w
    BY <1>1, MulMonotone
  <2>2. w * e = e * w /\ w * e2 = e2 * w /\ x * d \in Int /\ y * d \in Int
        /\ e * w \in Int /\ e2 * w \in Int
    BY <1>1
  <2> QED
    BY <2>1, <2>2
<1>3. TotalW * Whole(a) <= TotalW * Whole(a2)
  <2>1. Whole(a) \in Nat /\ Whole(a2) \in Nat /\ Whole(a) <= Whole(a2)
    BY DEF Whole
  <2>2. Whole(a) * TotalW <= Whole(a2) * TotalW
    BY <1>1, <2>1, MulMonotone
  <2> QED
    BY <1>1, <2>1, <2>2
<1>4. old * EpsInv <= TotalW * Whole(a)
  BY DEF ShareOf, w, d
<1> HIDE DEF old, new
<1>5. new * EpsInv <= old * EpsInv
  BY <1>1, <1>2, MulMonotone
<1>6. new * EpsInv <= TotalW * Whole(a2)
  <2>1. /\ new * EpsInv \in Int /\ old * EpsInv \in Int
        /\ TotalW * Whole(a) \in Int /\ TotalW * Whole(a2) \in Int
    BY <1>1, <1>2 DEF Whole
  <2> QED
    BY <1>3, <1>4, <1>5, <2>1
<1> QED
  BY <1>6 DEF ShareOf, new, w, d

LEMMA WithinShareIs ==
    ASSUME NEW i, NEW x
    PROVE  WithinShare(i, x) <=> ShareOf(i, x, Cardinality(open) - Load(i), Cardinality(open))
BY DEF WithinShare, ShareOf

\* A member stays within its share when no session ends.
LEMMA ShareKept ==
    ASSUME TypeOK, TypeOK', open \subseteq open', NEW i \in Farm, NEW x \in Nat, NEW y \in Nat,
           y <= x, WithinShare(i, x)
    PROVE  WithinShare(i, y)'
<1> DEFINE here == At(open, i)
           rest == open \ here
           rest2 == open' \ At(open', i)
<1>1. rest \subseteq rest2
  BY DEF At
<1>2. IsFiniteSet(open) /\ IsFiniteSet(open')
  BY DEF TypeOK
<1>3. Cardinality(rest) = Cardinality(open) - Load(i) /\ Cardinality(rest) \in Nat
  <2>1. IsFiniteSet(rest)
    BY <1>2, FS_Subset
  <2>2. here \subseteq open
    BY DEF At
  <2>3. Cardinality(rest) = Cardinality(open) - Cardinality(open \cap here)
    BY <1>2, FS_Difference
  <2>4. open \cap here = here
    BY <2>2
  <2> QED
    BY <2>1, <2>3, <2>4, FS_CardinalityType DEF Load
<1>4. Cardinality(rest2) = Cardinality(open') - Load(i)' /\ Cardinality(rest2) \in Nat
  <2>1. IsFiniteSet(rest2)
    BY <1>2, FS_Subset
  <2>2. At(open', i) \subseteq open'
    BY DEF At
  <2>3. Cardinality(rest2) = Cardinality(open') - Cardinality(open' \cap At(open', i))
    BY <1>2, FS_Difference
  <2>4. open' \cap At(open', i) = At(open', i)
    BY <2>2
  <2> QED
    BY <2>1, <2>3, <2>4, FS_CardinalityType DEF Load
<1>5. Cardinality(rest) <= Cardinality(rest2)
  <2>1. IsFiniteSet(rest2)
    BY <1>2, FS_Subset
  <2> QED
    BY <1>1, <2>1, FS_Subset
<1>6. /\ Cardinality(open) \in Nat /\ Cardinality(open') \in Nat
      /\ Cardinality(open) <= Cardinality(open')
  BY <1>2, FS_Subset, FS_CardinalityType
<1> DEFINE e == Cardinality(open) - Load(i)
           e2 == Cardinality(open') - Load(i)'
<1>7. e \in Nat /\ e2 \in Nat /\ e <= e2
  BY <1>3, <1>4, <1>5
<1>8. ShareOf(i, x, e, Cardinality(open))
  BY WithinShareIs
<1> HIDE DEF e, e2
<1>9. ShareOf(i, y, e2, Cardinality(open'))
  BY <1>6, <1>7, <1>8, ShareMonotone
<1> QED
  BY <1>9 DEF WithinShare, ShareOf, e2

-----------------------------------------------------------------------------
(* The pick.                                                               *)

\* What a launch read is a farm selectGateway can choose from.
LEMMA ViewIsFarm ==
    ASSUME TypeOK, NEW l \in Launches
    PROVE  /\ UsableFarm(View(l)) /\ DOMAIN View(l) = Farm
           /\ TotalWeight(View(l)) = TotalW
           /\ TotalSessions(View(l)) = Cardinality(seen[l])
<1>1. DOMAIN View(l) = Farm
  BY DEF View
<1>2. \A i \in Farm : /\ View(l)[i].weight = Weight[i]
                      /\ View(l)[i].sessions = Cardinality(At(seen[l], i))
  BY DEF View
<1>3. UsableFarm(View(l))
  BY <1>1, <1>2, FarmType, LoadType DEF UsableFarm
<1>4. TotalWeight(View(l)) = TotalW
  <2>1. [k \in Farm |-> View(l)[k].weight] = Weight
    <3>1. \A k \in Farm : View(l)[k].weight = Weight[k]
      BY <1>2
    <3>2. Weight = [k \in Farm |-> Weight[k]]
      BY FarmBalanceAssumption DEF Farm
    <3> QED
      BY <3>1, <3>2
  <2> QED
    BY <1>1, <2>1 DEF TotalWeight, TotalW
<1>5. TotalSessions(View(l)) = Cardinality(seen[l])
  <2> DEFINE f == [k \in Farm |-> View(l)[k].sessions]
  <2>1. \A k \in Farm : f[k] = Cardinality({s \in seen[l] : s[1] = k})
    BY <1>2 DEF At
  <2>2. TotalSessions(View(l)) = SumFunctionOnSet(f, Farm)
    BY <1>1 DEF TotalSessions, SumFunction
  <2>3. IsFiniteSet(Farm) /\ IsFiniteSet(seen[l])
    BY FarmType, LoadType
  <2> HIDE DEF f
  <2>4. SumFunctionOnSet(f, Farm) = Cardinality({s \in seen[l] : s[1] \in Farm})
    BY <2>1, <2>3, SumOfCounts
  <2>5. {s \in seen[l] : s[1] \in Farm} = seen[l]
    BY DEF TypeOK
  <2> QED
    BY <2>2, <2>4, <2>5
<1> QED
  BY <1>1, <1>3, <1>4, <1>5

\* The member picked is within its share of what is open: the launch read some of
\* it, and saw the member within its share of that.
LEMMA PickedIsWithinShare ==
    ASSUME TypeOK, NEW l \in Launches, NEW i \in MinGroup(View(l))
    PROVE  i \in Farm /\ WithinShare(i, Cardinality(At(seen[l], i)))
<1> DEFINE s == Cardinality(At(seen[l], i))
           r == Cardinality(seen[l] \ At(seen[l], i))
           e == Cardinality(open) - Load(i)
           w == Weight[i]
           T == Cardinality(seen[l])
<1>1. i \in Farm
  BY ViewIsFarm DEF MinGroup
<1>2. (s * TotalW - w * T) * EpsInv <= TotalW * Whole(T)
  <2>1. View(l)[i].sessions = s /\ View(l)[i].weight = w
    BY <1>1 DEF View
  <2> QED
    BY <2>1, ViewIsFarm, GroupIsUnderShare
<1>3. s \in Nat /\ r \in Nat /\ T = s + r /\ T \in Nat
  <2>1. IsFiniteSet(seen[l]) /\ At(seen[l], i) \subseteq seen[l]
    BY LoadType DEF At
  <2>2. r = T - Cardinality(seen[l] \cap At(seen[l], i))
    BY <2>1, FS_Difference
  <2>3. seen[l] \cap At(seen[l], i) = At(seen[l], i)
    BY <2>1
  <2>4. s \in Nat /\ r \in Nat /\ T \in Nat
    BY <2>1, FS_Subset, FS_CardinalityType
  <2>5. r = T - s
    BY <2>2, <2>3, Zenon
  <2> HIDE DEF s, r, T
  <2> QED
    BY <2>4, <2>5
<1>4. e \in Nat /\ r <= e /\ T <= Cardinality(open) /\ Cardinality(open) \in Nat
  <2>1. IsFiniteSet(open) /\ At(open, i) \subseteq open /\ seen[l] \subseteq open
    BY LoadType DEF At, TypeOK
  <2>2. Cardinality(open \ At(open, i)) = e
    <3>1. Cardinality(open \ At(open, i)) = Cardinality(open) - Cardinality(open \cap At(open, i))
      BY <2>1, FS_Difference
    <3>2. open \cap At(open, i) = At(open, i)
      BY <2>1
    <3> QED
      BY <3>1, <3>2 DEF Load
  <2>3. seen[l] \ At(seen[l], i) \subseteq open \ At(open, i)
    BY <2>1 DEF At
  <2>4. IsFiniteSet(open \ At(open, i))
    BY <2>1, FS_Subset
  <2>5. r <= e /\ e \in Nat
    BY <2>2, <2>3, <2>4, FS_Subset, FS_CardinalityType
  <2> QED
    BY <2>1, <2>5, FS_Subset, FS_CardinalityType
<1>5. w \in Nat /\ TotalW \in Nat /\ EpsInv \in Nat
  BY <1>1, FarmType, TotalType
<1> HIDE DEF s, r, e, w, T
<1>6. ShareOf(i, s, r, T)
  <2>1. s * (TotalW - w) - w * r <= s * TotalW - w * T
    BY <1>3, <1>5, ExcessOverRest
  <2>2. s * (TotalW - w) - w * r \in Int /\ s * TotalW - w * T \in Int
    BY <1>3, <1>5
  <2> DEFINE a == s * (TotalW - w) - w * r
             b == s * TotalW - w * T
  <2>3. a \in Int /\ b \in Int /\ a <= b /\ b * EpsInv <= TotalW * Whole(T)
    BY <1>2, <2>1, <2>2
  <2> HIDE DEF a, b
  <2>4. a * EpsInv <= b * EpsInv
    BY <1>5, <2>3, MulMonotone
  <2>5. a * EpsInv <= TotalW * Whole(T)
    BY <1>3, <1>5, <2>3, <2>4 DEF Whole
  <2> QED
    BY <2>5 DEF ShareOf, a, w
<1>7. ShareOf(i, s, e, Cardinality(open))
  BY <1>1, <1>3, <1>4, <1>6, ShareMonotone
<1> QED
  BY <1>1, <1>7, WithinShareIs DEF s, e

-----------------------------------------------------------------------------
(* The invariant.                                                          *)

LEMMA InvInit == Init => Inv
<1> SUFFICES ASSUME Init PROVE Inv
  OBVIOUS
<1>1. TypeOK
  BY FarmType, FS_EmptySet DEF Init, TypeOK
<1>2. Numbered /\ ReadInOrder /\ PickWasFair
  BY DEF Init, Numbered, ReadInOrder, PickWasFair
<1>3. ASSUME NEW i \in Farm, NEW v \in Nat
      PROVE  Load(i) + Cardinality(Coming(i, v)) <= v + Cardinality(Launches)
  <2>1. Load(i) = 0
    <3>1. At(open, i) = {}
      BY DEF Init, At
    <3> QED
      BY <3>1, FS_EmptySet DEF Load
  <2> QED
    BY <2>1, ComingType, FarmType
<1> QED
  BY <1>1, <1>2, <1>3 DEF Inv, NoMoreThanComing

\* As long as no session comes up, fewer launches coming cannot break the bound.
LEMMA FewerComing ==
    ASSUME Inv, open' = open, NEW i \in Farm, NEW v \in Nat,
           Coming(i, v)' \subseteq Coming(i, v)
    PROVE  \/ WithinShare(i, v + 1)'
           \/ Load(i)' + Cardinality(Coming(i, v)') <= v + Cardinality(Launches)
<1>1. \/ WithinShare(i, v + 1)
      \/ Load(i) + Cardinality(Coming(i, v)) <= v + Cardinality(Launches)
  BY DEF Inv, NoMoreThanComing
<1>2. Cardinality(Coming(i, v)') <= Cardinality(Coming(i, v)) /\ Cardinality(Coming(i, v)') \in Nat
  BY ComingType, FS_Subset, FS_CardinalityType
<1>3. Load(i)' = Load(i) /\ Load(i) \in Nat
  BY LoadType DEF Load, Inv
<1>4. WithinShare(i, v + 1) => WithinShare(i, v + 1)'
  BY <1>3 DEF WithinShare
<1> QED
  BY <1>1, <1>2, <1>3, <1>4, ComingType, FarmType

\* A launch that picks nothing leaves what was picked within its share.
LEMMA FairKept ==
    ASSUME Inv, open' = open, NEW l \in Launches, pc'[l] # "picked",
           \A k \in Launches \ {l} : pc'[k] = pc[k] /\ seen'[k] = seen[k] /\ picked'[k] = picked[k]
    PROVE  PickWasFair'
<1> SUFFICES ASSUME NEW k \in Launches, pc'[k] = "picked"
             PROVE  WithinShare(picked[k], Cardinality(At(seen[k], picked[k])))'
  BY DEF PickWasFair
<1>1. pc[k] = "picked" /\ seen'[k] = seen[k] /\ picked'[k] = picked[k]
  OBVIOUS
<1>2. WithinShare(picked[k], Cardinality(At(seen[k], picked[k])))
  BY <1>1 DEF Inv, PickWasFair
<1> QED
  BY <1>1, <1>2 DEF WithinShare, Load, At

LEMMA BeginStep ==
    ASSUME Inv, NEW l \in Launches, Begin(l)
    PROVE  Inv'
<1> USE DEF Begin, Goto
<1>1. TypeOK'
  BY FarmType DEF Inv, TypeOK
<1>2. Numbered'
  BY DEF Inv, Numbered, Load
<1>3. ReadInOrder'
  BY DEF Inv, ReadInOrder, TypeOK
<1>4. PickWasFair'
  BY FairKept DEF Inv, TypeOK
<1>5. ASSUME NEW i \in Farm, NEW v \in Nat
      PROVE  Coming(i, v)' \subseteq Coming(i, v)
  BY FarmType DEF Inv, TypeOK, Coming
<1>6. NoMoreThanComing'
  BY <1>5, FewerComing DEF NoMoreThanComing
<1> QED
  BY <1>1, <1>2, <1>3, <1>4, <1>6 DEF Inv

LEMMA ProbeStep ==
    ASSUME Inv, NEW l \in Launches, Probe(l)
    PROVE  Inv'
<1> DEFINE m == next[l]
<1> USE DEF Probe
<1>0. m \in Farm /\ open' = open /\ pc' = pc /\ picked' = picked /\ pc[l] = "probe"
  OBVIOUS
<1>1. TypeOK'
  BY FarmType DEF Inv, TypeOK, At
<1>2. Numbered'
  BY DEF Inv, Numbered, Load
<1>3. ReadInOrder'
  BY FarmType DEF Inv, ReadInOrder, TypeOK, At
<1>4. PickWasFair'
  BY FairKept DEF Inv, TypeOK
<1>5. ASSUME NEW i \in Farm, i # m
      PROVE  At(seen'[l], i) = At(seen[l], i)
  BY <1>5 DEF Inv, TypeOK, At
<1>6. At(seen'[l], m) = At(open, m)
  <2>1. At(seen[l], m) = {}
    BY FarmType DEF Inv, ReadInOrder, TypeOK, At
  <2> QED
    BY <2>1 DEF Inv, TypeOK, At
<1>7. ASSUME NEW i \in Farm, NEW v \in Nat
      PROVE  \/ WithinShare(i, v + 1)'
             \/ Load(i)' + Cardinality(Coming(i, v)') <= v + Cardinality(Launches)
  <2>1. CASE Coming(i, v)' \subseteq Coming(i, v)
    BY <2>1, FewerComing
  <2>2. CASE ~(Coming(i, v)' \subseteq Coming(i, v))
    <3>1. PICK k \in Coming(i, v)' : k \notin Coming(i, v)
      BY <2>2
    <3>2. k = l /\ i = m
      <4>1. ASSUME k # l PROVE FALSE
        <5>1. k \in Launches /\ next'[k] = next[k] /\ seen'[k] = seen[k]
          BY <3>1, <4>1 DEF Coming, Inv, TypeOK
        <5> QED
          BY <3>1, <5>1 DEF Coming
      <4>2. ASSUME k = l, i # m PROVE FALSE
        <5>1. At(seen'[k], i) = At(seen[k], i)
          BY <1>5, <4>2
        <5>2. i < next'[l] => i < next[l]
          BY <4>2, FarmType DEF Inv, TypeOK
        <5>3. Cardinality(At(seen[k], i)) <= v /\ (i < next[l] \/ (pc[l] = "picked" /\ picked[l] = i))
          BY <3>1, <4>2, <5>1, <5>2 DEF Coming
        <5> QED
          BY <3>1, <4>2, <5>3 DEF Coming
      <4> QED
        BY <4>1, <4>2
    <3>3. Load(i) <= v
      BY <1>6, <3>1, <3>2 DEF Coming, Load
    <3>4. Load(i)' = Load(i) /\ Load(i) \in Nat
      BY LoadType DEF Load, Inv
    <3>5. Cardinality(Coming(i, v)') <= Cardinality(Launches) /\ Cardinality(Coming(i, v)') \in Nat
      <4>1. Coming(i, v)' \subseteq Launches
        BY DEF Coming
      <4> QED
        BY <4>1, FarmBalanceAssumption, FS_Subset, FS_CardinalityType
    <3> QED
      BY <3>3, <3>4, <3>5, FarmType
  <2> QED
    BY <2>1, <2>2
<1>8. NoMoreThanComing'
  BY <1>7 DEF NoMoreThanComing
<1> QED
  BY <1>1, <1>2, <1>3, <1>4, <1>8 DEF Inv

LEMMA PickStep ==
    ASSUME Inv, NEW l \in Launches, Pick(l)
    PROVE  Inv'
<1> USE DEF Pick, Goto
<1>0. PICK i \in MinGroup(View(l)) : picked' = [picked EXCEPT ![l] = i]
  OBVIOUS
<1>1. i \in Farm /\ WithinShare(i, Cardinality(At(seen[l], i)))
  BY PickedIsWithinShare DEF Inv
<1>2. TypeOK'
  BY <1>0, <1>1 DEF Inv, TypeOK
<1>3. Numbered'
  BY DEF Inv, Numbered, Load
<1>4. ReadInOrder'
  BY DEF Inv, ReadInOrder, TypeOK
<1>5. PickWasFair'
  <2> SUFFICES ASSUME NEW k \in Launches, pc'[k] = "picked"
               PROVE  WithinShare(picked'[k], Cardinality(At(seen[k], picked'[k])))
    BY DEF PickWasFair, WithinShare, Load
  <2>1. CASE k = l
    <3>1. picked'[k] = i
      BY <1>0, <2>1 DEF Inv, TypeOK
    <3> QED
      BY <1>1, <2>1, <3>1
  <2>2. CASE k # l
    <3>1. picked'[k] = picked[k] /\ pc[k] = "picked"
      BY <1>0, <2>2 DEF Inv, TypeOK
    <3> QED
      BY <3>1 DEF Inv, PickWasFair
  <2> QED
    BY <2>1, <2>2
<1>6. ASSUME NEW j \in Farm, NEW v \in Nat
      PROVE  Coming(j, v)' \subseteq Coming(j, v)
  <2> SUFFICES ASSUME NEW k \in Coming(j, v)' PROVE k \in Coming(j, v)
    OBVIOUS
  <2>1. k \in Launches /\ Cardinality(At(seen[k], j)) <= v
    BY DEF Coming
  <2>2. CASE k = l
    <3>1. pc[l] = "probe" /\ j < next[l]
      BY FarmType DEF Inv, TypeOK
    <3> QED
      BY <2>1, <2>2, <3>1 DEF Coming
  <2>3. CASE k # l
    BY <1>0, <2>3 DEF Inv, TypeOK, Coming
  <2> QED
    BY <2>2, <2>3
<1>7. NoMoreThanComing'
  BY <1>6, FewerComing DEF NoMoreThanComing
<1> QED
  BY <1>2, <1>3, <1>4, <1>5, <1>7 DEF Inv

LEMMA AbandonStep ==
    ASSUME Inv, NEW l \in Launches, Abandon(l)
    PROVE  Inv'
<1> USE DEF Abandon, Goto
<1>1. TypeOK'
  BY DEF Inv, TypeOK
<1>2. Numbered'
  BY DEF Inv, Numbered, Load
<1>3. ReadInOrder'
  BY DEF Inv, ReadInOrder, TypeOK
<1>4. PickWasFair'
  BY FairKept DEF Inv, TypeOK
<1>5. ASSUME NEW i \in Farm, NEW v \in Nat
      PROVE  Coming(i, v)' \subseteq Coming(i, v)
  BY DEF Inv, TypeOK, Coming
<1>6. NoMoreThanComing'
  BY <1>5, FewerComing DEF NoMoreThanComing
<1> QED
  BY <1>1, <1>2, <1>3, <1>4, <1>6 DEF Inv

\* The session that comes up is a new one.
LEMMA OpenAdds ==
    ASSUME Inv, NEW l \in Launches, Open(l)
    PROVE  /\ TypeOK' /\ open \subseteq open'
           /\ Load(picked[l])' = Load(picked[l]) + 1
           /\ \A i \in Farm : i # picked[l] => Load(i)' = Load(i)
<1> USE DEF Open, Goto
<1> DEFINE j == picked[l]
           new == <<j, Load(j) + 1>>
<1>1. j \in Farm /\ Load(j) \in Nat /\ new \in Farm \X Nat
  BY LoadType DEF Inv, TypeOK
<1>2. TypeOK'
  <2>1. open' \subseteq Farm \X Nat
    BY <1>1 DEF Inv, TypeOK
  <2>2. IsFiniteSet(open')
    BY FS_AddElement DEF Inv, TypeOK
  <2>3. pc' \in [Launches -> {"idle", "probe", "picked"}]
    BY DEF Inv, TypeOK
  <2>4. seen' \in [Launches -> SUBSET open']
    BY DEF Inv, TypeOK
  <2> QED
    BY <2>1, <2>2, <2>3, <2>4 DEF Inv, TypeOK
<1>3. new \notin open
  BY <1>1 DEF Inv, Numbered
<1>4. At(open', j) = At(open, j) \cup {new} /\ new \notin At(open, j)
  BY <1>3 DEF At
<1>5. Load(j)' = Load(j) + 1
  <2>1. IsFiniteSet(At(open, j))
    BY AtType DEF Inv, TypeOK
  <2>2. Cardinality(At(open, j) \cup {new}) = Cardinality(At(open, j)) + 1
    BY <1>4, <2>1, FS_AddElement
  <2> QED
    BY <1>4, <2>2 DEF Load
<1>6. ASSUME NEW i \in Farm, i # j PROVE Load(i)' = Load(i)
  <2>1. At(open', i) = At(open, i)
    BY <1>6 DEF At
  <2> QED
    BY <2>1 DEF Load
<1> QED
  BY <1>2, <1>5, <1>6

\* Whoever opens a session either leaves the launches that come to its member, or
\* had read so much there that one more is within the share.
LEMMA OpenStep ==
    ASSUME Inv, NEW l \in Launches, Open(l)
    PROVE  Inv'
<1> DEFINE j == picked[l]
<1> USE DEF Open, Goto
<1>1. /\ TypeOK /\ TypeOK' /\ open \subseteq open' /\ j \in Farm
      /\ Load(j)' = Load(j) + 1
      /\ \A i \in Farm : i # j => Load(i)' = Load(i)
      /\ \A i \in Farm : Load(i) \in Nat
  BY OpenAdds, LoadType DEF Inv, TypeOK
<1>2. Numbered'
  <2> SUFFICES ASSUME NEW s \in open' PROVE s[2] <= Load(s[1])'
    BY DEF Numbered
  <2>1. CASE s \in open
    <3>1. s[1] \in Farm /\ s[2] \in Nat /\ s[2] <= Load(s[1])
      BY <2>1 DEF Inv, TypeOK, Numbered
    <3> QED
      BY <1>1, <3>1
  <2>2. CASE s \notin open
    BY <1>1, <2>2
  <2> QED
    BY <2>1, <2>2
<1>3. ReadInOrder'
  BY DEF Inv, ReadInOrder, TypeOK
<1>4. PickWasFair'
  <2> SUFFICES ASSUME NEW k \in Launches, pc'[k] = "picked"
               PROVE  WithinShare(picked[k], Cardinality(At(seen[k], picked[k])))'
    BY DEF PickWasFair
  <2>1. pc[k] = "picked" /\ picked[k] \in Farm
    BY DEF Inv, TypeOK
  <2>2. WithinShare(picked[k], Cardinality(At(seen[k], picked[k])))
    BY <2>1 DEF Inv, PickWasFair
  <2>3. Cardinality(At(seen[k], picked[k])) \in Nat
    BY <1>1, LoadType
  <2>4. \A i \in Farm, x \in Nat : WithinShare(i, x) => WithinShare(i, x)'
    BY <1>1, ShareKept
  <2>5. picked'[k] = picked[k] /\ seen'[k] = seen[k]
    OBVIOUS
  <2> HIDE DEF Open
  <2> QED
    BY <2>1, <2>2, <2>3, <2>4, <2>5 DEF WithinShare, Load, At
<1>5. ASSUME NEW i \in Farm, NEW v \in Nat
      PROVE  \/ WithinShare(i, v + 1)'
             \/ Load(i)' + Cardinality(Coming(i, v)') <= v + Cardinality(Launches)
  <2>1. Coming(i, v)' \subseteq Coming(i, v)
    BY DEF Inv, TypeOK, Coming
  <2>2. /\ Cardinality(Coming(i, v)) \in Nat /\ IsFiniteSet(Coming(i, v))
        /\ Cardinality(Coming(i, v)') \in Nat
        /\ Cardinality(Coming(i, v)') <= Cardinality(Coming(i, v))
    BY <2>1, ComingType, FS_Subset, FS_CardinalityType
  <2>3. CASE WithinShare(i, v + 1)
    BY <1>1, <2>3, ShareKept
  <2>4. CASE Load(i) + Cardinality(Coming(i, v)) <= v + Cardinality(Launches)
    <3>1. CASE i # j
      BY <1>1, <2>2, <2>4, <3>1, FarmType
    <3>2. CASE i = j /\ Cardinality(At(seen[l], j)) <= v
      <4>1. l \in Coming(i, v) /\ l \notin Coming(i, v)'
        BY <3>2 DEF Coming, Inv, TypeOK
      <4>2. Coming(i, v)' \subseteq Coming(i, v) \ {l}
        BY <2>1, <4>1
      <4>3. Cardinality(Coming(i, v) \ {l}) = Cardinality(Coming(i, v)) - 1
        BY <2>2, <4>1, FS_RemoveElement
      <4>4. Cardinality(Coming(i, v)') <= Cardinality(Coming(i, v)) - 1
        <5>1. IsFiniteSet(Coming(i, v) \ {l})
          BY <2>2, FS_Subset
        <5> QED
          BY <4>2, <4>3, <5>1, FS_Subset
      <4> QED
        BY <1>1, <2>2, <2>4, <3>2, <4>4, FarmType
    <3>3. CASE i = j /\ ~(Cardinality(At(seen[l], j)) <= v)
      <4> DEFINE x == Cardinality(At(seen[l], j))
      <4>1. x \in Nat /\ v + 1 <= x
        BY <1>1, <3>3, LoadType
      <4>2. WithinShare(j, x)
        BY DEF Inv, PickWasFair
      <4> HIDE DEF x
      <4>3. WithinShare(i, v + 1)'
        BY <1>1, <3>3, <4>1, <4>2, ShareKept
      <4> QED
        BY <4>3
    <3> QED
      BY <3>1, <3>2, <3>3
  <2> QED
    BY <2>3, <2>4 DEF Inv, NoMoreThanComing
<1>6. NoMoreThanComing'
  BY <1>5 DEF NoMoreThanComing
<1> QED
  BY <1>1, <1>2, <1>3, <1>4, <1>6 DEF Inv

LEMMA InvStep == Inv /\ [Next]_vars => Inv'
<1> SUFFICES ASSUME Inv, [Next]_vars PROVE Inv'
  OBVIOUS
<1>1. ASSUME NEW l \in Launches, Begin(l) PROVE Inv'
  BY <1>1, BeginStep
<1>2. ASSUME NEW l \in Launches, Probe(l) PROVE Inv'
  BY <1>2, ProbeStep
<1>3. ASSUME NEW l \in Launches, Pick(l) PROVE Inv'
  BY <1>3, PickStep
<1>4. ASSUME NEW l \in Launches, Open(l) PROVE Inv'
  BY <1>4, OpenStep
<1>5. ASSUME NEW l \in Launches, Abandon(l) PROVE Inv'
  BY <1>5, AbandonStep
<1>6. CASE UNCHANGED vars
  BY <1>6 DEF vars, Inv, TypeOK, Numbered, ReadInOrder, PickWasFair, NoMoreThanComing,
              WithinShare, Coming, Load
<1> QED
  BY <1>1, <1>2, <1>3, <1>4, <1>5, <1>6 DEF Next

\* With v one less than what is left of a member's load, the launches that may
\* still come are none too few.
LEMMA InvImpliesBurstBound == Inv => BurstBound
<1> DEFINE burst == Cardinality(Launches)
           all == Cardinality(open)
<1> SUFFICES ASSUME Inv, NEW i \in Farm
             PROVE  ((Load(i) - burst) * TotalW - Weight[i] * (all - burst)) * EpsInv
                      <= TotalW * Whole(all)
  BY DEF BurstBound
<1> DEFINE w == Weight[i]
           x == Load(i) - burst
           e == all - Load(i)
           left == x * TotalW - w * (all - burst)
           right == TotalW * Whole(all)
<1>1. /\ w \in Nat /\ TotalW \in Nat /\ w <= TotalW /\ EpsInv \in Nat /\ burst \in Nat
      /\ Load(i) \in Nat /\ all \in Nat /\ Load(i) <= all /\ right \in Nat
  BY FarmType, TotalType, LoadType, MulNonNeg DEF Inv
<1>2. x \in Int /\ e \in Nat
  BY <1>1
<1>3. left = x * (TotalW - w) - w * e
  <2>1. all - burst = x + e
    BY <1>1
  <2> HIDE DEF x, e, w, all, burst
  <2>2. w * (x + e) = x * w + w * e /\ x * (TotalW - w) = x * TotalW - x * w
    BY <1>1, <1>2
  <2>3. x * w \in Int /\ w * e \in Int /\ x * TotalW \in Int
    BY <1>1, <1>2
  <2> QED
    BY <2>1, <2>2, <2>3
<1>4. CASE x <= 0
  <2>1. left <= 0 /\ left \in Int
    <3> DEFINE a == (-x) * (TotalW - w)
               b == w * e
    <3>1. a \in Nat /\ b \in Nat
      <4>1. -x \in Nat /\ TotalW - w \in Nat
        BY <1>1, <1>2, <1>4
      <4> QED
        BY <1>1, <1>2, <4>1, MulNonNeg
    <3>2. left = -a - b
      <4>1. x * (TotalW - w) = -a
        BY <1>1, <1>2
      <4> QED
        BY <1>3, <3>1, <4>1
    <3> HIDE DEF a, b, left
    <3> QED
      BY <3>1, <3>2
  <2> HIDE DEF left, right
  <2>2. left * EpsInv <= 0 * EpsInv
    BY <1>1, <2>1, MulMonotone
  <2>3. left * EpsInv <= right
    BY <1>1, <2>1, <2>2
  <2> QED
    BY <2>3 DEF left, right
<1>5. CASE x > 0
  <2> DEFINE v == x - 1
  <2>1. v \in Nat /\ v + 1 = x
    BY <1>2, <1>5
  <2>2. Cardinality(Coming(i, v)) \in Nat
    BY ComingType
  <2>3. ~(Load(i) + Cardinality(Coming(i, v)) <= v + burst)
    BY <1>1, <2>1, <2>2
  <2>4. WithinShare(i, x)
    BY <2>1, <2>3 DEF Inv, NoMoreThanComing
  <2> QED
    BY <1>3, <2>4 DEF WithinShare
<1> QED
  BY <1>2, <1>4, <1>5

\* A burst of launches, whatever each has read and however long ago, puts no more
\* sessions on a member beyond its share than there are launches, on every farm
\* (farm.go:47-50,68,107).
THEOREM BurstIsBounded == Spec => []BurstBound
<1> QED
  BY InvInit, InvStep, InvImpliesBurstBound, PTL DEF Spec
=============================================================================
