-------------------------- MODULE SelectLoopProofs --------------------------
(***************************************************************************)
(* What selectGateway picks is under-loaded, on a farm of any size with    *)
(* any weights and loads.                                                  *)
(***************************************************************************)
EXTENDS SelectLoop, SelectionProofs

-----------------------------------------------------------------------------
(* Arithmetic *)

\* A new term with a positive cross product keeps the sum of them positive.
LEMMA ExcessGrows ==
    ASSUME NEW s \in Int, NEW w \in Int, NEW ds \in Int, NEW dw \in Int,
           NEW a \in Int, NEW b \in Int,
           s * a - w * b >= 0, ds * a - dw * b > 0
    PROVE  (s + ds) * a - (w + dw) * b > 0
  <1>1. (s + ds) * a = s * a + ds * a
    OBVIOUS
  <1>2. (w + dw) * b = w * b + dw * b
    OBVIOUS
  <1>. DEFINE sa == s * a
              da == ds * a
              wb == w * b
              db == dw * b
  <1>3. sa \in Int /\ da \in Int /\ wb \in Int /\ db \in Int
    OBVIOUS
  <1>4. sa - wb >= 0 /\ da - db > 0
    OBVIOUS
  <1>. HIDE DEF sa, da, wb, db
  <1>5. (sa + da) - (wb + db) > 0
    BY <1>3, <1>4
  <1>. QED
    BY <1>1, <1>2, <1>5 DEF sa, da, wb, db

-----------------------------------------------------------------------------
LEMMA AliveType ==
    ASSUME alive \in Farms
    PROVE  /\ alive \in Seq(Member)
           /\ n \in Nat \ {0}
           /\ DOMAIN alive = 1..n
           /\ \A k \in 1..n : alive[k] \in Member
           /\ \A k \in 1..n : alive[k].weight \in Nat \ {0} /\ alive[k].sessions \in Nat
  <1>1. alive \in Seq(Member) /\ alive # <<>>
    BY FarmsAssumption
  <1>2. n \in Nat \ {0} /\ DOMAIN alive = 1..n
    BY <1>1 DEF n
  <1>3. \A k \in 1..n : alive[k] \in Member
    BY <1>1 DEF n
  <1>. QED
    BY <1>1, <1>2, <1>3 DEF Member

\* Once the totals are in, they are what the scoring loop divides by.
LEMMA TotalsType ==
    ASSUME TypeOK, TotalsInv, phase # "total"
    PROVE  /\ W \in Nat /\ S \in Nat
           /\ \A k \in 1..n : alive[k].weight <= W /\ alive[k].sessions <= S
           /\ W > 0
           /\ Whole(W) = W
  <1>1. n \in Nat \ {0} /\ \A k \in 1..n : alive[k].weight \in Nat \ {0}
    BY AliveType DEF TypeOK
  <1>2. W \in Nat /\ S \in Nat
    BY <1>1 DEF TypeOK, W, S
  <1>3. \A k \in 1..n : alive[k].weight <= W /\ alive[k].sessions <= S
    BY DEF TotalsInv, summed, W, S
  <1>4. W > 0
    BY <1>1, <1>2, <1>3
  <1>. QED
    BY <1>2, <1>3, <1>4 DEF Whole

LEMMA PriorityType ==
    ASSUME NEW m \in [weight : Nat, sessions : Nat], NEW w \in Nat, NEW s \in Nat
    PROVE  Priority(m, w, s) \in Int
  <1>1. Share(m.sessions, s) \in Nat /\ Share(m.weight, w) \in Nat
    BY DEF Share
  <1>2. Whole(w) \in Nat /\ Whole(s) \in Nat
    BY DEF Whole
  <1>3. Share(m.sessions, s) * Whole(w) \in Nat /\ Share(m.weight, w) * Whole(s) \in Nat
    BY <1>1, <1>2, MulNonNeg
  <1>. QED
    BY <1>3 DEF Priority

\* No quotient is 0/0: the loop computes the priorities of the definition.
LEMMA DifferenceIs ==
    ASSUME TypeOK, TotalsInv, phase # "total", NEW k \in 1..n
    PROVE  difference(alive[k]) = Priority(alive[k], W, S)
  <1>1. alive[k].weight \in Nat /\ alive[k].sessions \in Nat
    BY AliveType DEF TypeOK
  <1>2. relWeight(alive[k]) = Share(alive[k].weight, W)
    BY DEF relWeight, Quotient, Share
  <1>3. relLoad(alive[k]) = Share(alive[k].sessions, S)
    BY DEF relLoad, Quotient, Share
  <1>4. Share(alive[k].weight, W) \in Int /\ Share(alive[k].sessions, S) \in Int
    BY <1>1 DEF Share
  <1>5. NaN \notin {relLoad(alive[k]), relWeight(alive[k])}
    BY <1>2, <1>3, <1>4, FloatAssumption
  <1>. QED
    BY <1>2, <1>3, <1>5 DEF difference, Priority

\* What has been scored is a number, and so is the minimum.
LEMMA ScoredType ==
    ASSUME Inv, NEW k \in 1..scored
    PROVE  priorities[k] \in Int /\ priorities[k] # NaN /\ best \in Int
  <1>1. phase # "total" /\ n \in Nat \ {0} /\ i \in 1..n + 1
    BY AliveType DEF Inv, TypeOK, scored
  <1>2. scored # 0 /\ k \in 1..n
    BY <1>1 DEF scored
  <1>3. best \in Int /\ priorities[k] = Priority(alive[k], W, S)
    BY <1>2 DEF Inv, ScoreInv
  <1>4. alive[k] \in Member
    BY <1>2, AliveType DEF Inv, TypeOK
  <1>5. Priority(alive[k], W, S) \in Int
    <2>1. W \in Nat /\ S \in Nat
      BY <1>1, TotalsType DEF Inv
    <2>. QED
      BY <1>4, <2>1, PriorityType DEF Member
  <1>. QED
    BY <1>3, <1>5, FloatAssumption

-----------------------------------------------------------------------------
LEMMA InvInit == Init => Inv
  <1>. SUFFICES ASSUME Init PROVE Inv
    OBVIOUS
  <1>1. n \in Nat \ {0}
    BY AliveType DEF Init
  <1>2. TypeOK
    <2>1. i \in 1..n + 1 /\ 0..i - 1 = {0}
      BY <1>1 DEF Init
    <2>. QED
      BY <2>1 DEF Init, TypeOK
  <1>3. TotalsInv
    BY DEF Init, TotalsInv, summed
  <1>4. ScoreInv
    BY DEF Init, ScoreInv, scored
  <1>5. GroupInv
    BY DEF Init, GroupInv
  <1>. QED
    BY <1>2, <1>3, <1>4, <1>5 DEF Inv

LEMMA AddToTotalsStep ==
    ASSUME Inv, AddToTotals
    PROVE  Inv'
  <1>. USE DEF AddToTotals
  <1>0. /\ n \in Nat \ {0} /\ n' = n
        /\ \A k \in 1..n : alive[k].weight \in Nat \ {0} /\ alive[k].sessions \in Nat
    BY AliveType DEF Inv, TypeOK, n
  <1>1. /\ i \in 1..n
        /\ sumWeight \in [0..i - 1 -> Nat] /\ sumSessions \in [0..i - 1 -> Nat]
        /\ summed = i - 1 /\ summed' = i /\ scored = 0 /\ scored' = 0
    BY <1>0 DEF Inv, TypeOK, summed, scored
  <1>2. /\ sumWeight' \in [0..i -> Nat]
        /\ sumSessions' \in [0..i -> Nat]
    <2>1. /\ sumWeight[i - 1] + alive[i].weight \in Nat
          /\ sumSessions[i - 1] + alive[i].sessions \in Nat
      BY <1>0, <1>1
    <2>2. ASSUME NEW k \in 0..i, k # i
          PROVE  sumWeight[k] \in Nat /\ sumSessions[k] \in Nat
      <3>1. k \in 0..i - 1
        BY <1>1, <2>2
      <3>. QED
        BY <1>1, <3>1
    <2>. QED
      BY <2>1, <2>2
  <1>3. TypeOK'
    BY <1>0, <1>1, <1>2 DEF Inv, TypeOK
  <1>4. TotalsInv'
    <2>1. /\ sumWeight'[i] = sumWeight[i - 1] + alive[i].weight
          /\ sumSessions'[i] = sumSessions[i - 1] + alive[i].sessions
          /\ \A k \in 0..i - 1 : sumWeight'[k] = sumWeight[k] /\ sumSessions'[k] = sumSessions[k]
      BY <1>0, <1>1
    <2>2. sumWeight'[0] = 0 /\ sumSessions'[0] = 0
      BY <1>1, <2>1 DEF Inv, TotalsInv
    <2>3. ASSUME NEW k \in 1..i
          PROVE  /\ sumWeight'[k] = sumWeight'[k - 1] + alive[k].weight
                 /\ sumSessions'[k] = sumSessions'[k - 1] + alive[k].sessions
                 /\ alive[k].weight <= sumWeight'[i]
                 /\ alive[k].sessions <= sumSessions'[i]
      <3>1. sumWeight[i - 1] \in Nat /\ sumSessions[i - 1] \in Nat
        BY <1>1
      <3>2. CASE k = i
        BY <1>0, <1>1, <2>1, <3>1, <3>2
      <3>3. CASE k \in 1..i - 1
        <4>1. k \in 0..i - 1 /\ k - 1 \in 0..i - 1
          BY <1>1, <3>3
        <4>2. /\ sumWeight[k] = sumWeight[k - 1] + alive[k].weight
              /\ sumSessions[k] = sumSessions[k - 1] + alive[k].sessions
              /\ alive[k].weight <= sumWeight[i - 1]
              /\ alive[k].sessions <= sumSessions[i - 1]
          BY <1>1, <3>3 DEF Inv, TotalsInv
        <4>3. /\ sumWeight'[k] = sumWeight[k] /\ sumWeight'[k - 1] = sumWeight[k - 1]
              /\ sumSessions'[k] = sumSessions[k] /\ sumSessions'[k - 1] = sumSessions[k - 1]
          BY <2>1, <4>1
        <4>4. /\ alive[k].weight \in Nat /\ alive[k].sessions \in Nat
              /\ alive[i].weight \in Nat /\ alive[i].sessions \in Nat
          <5>1. k \in 1..n /\ i \in 1..n
            BY <1>0, <1>1, <3>3
          <5>. QED
            BY <1>0, <5>1
        <4>5. alive[k].weight <= sumWeight'[i] /\ alive[k].sessions <= sumSessions'[i]
          <5>. HIDE DEF AddToTotals
          <5>. QED
            BY <2>1, <3>1, <4>2, <4>4
        <4>. QED
          BY <4>2, <4>3, <4>5
      <3>. QED
        BY <1>1, <3>2, <3>3
    <2>. QED
      BY <1>1, <2>2, <2>3 DEF TotalsInv
  <1>5. ScoreInv'
    BY <1>1 DEF Inv, ScoreInv
  <1>6. GroupInv'
    BY DEF Inv, GroupInv
  <1>. QED
    BY <1>3, <1>4, <1>5, <1>6 DEF Inv

LEMMA EndLoopStep ==
    ASSUME NEW from, NEW to,
           <<from, to>> \in {<<"total", "score">>, <<"score", "group">>, <<"group", "pick">>},
           Inv, EndLoop(from, to)
    PROVE  Inv'
  <1>. USE DEF EndLoop
  <1>0. n \in Nat \ {0} /\ n' = n /\ i = n + 1
    BY AliveType DEF Inv, TypeOK, n
  <1>1. summed' = summed /\ summed = n
    BY <1>0 DEF summed
  <1>2. scored' = scored
    BY <1>0 DEF scored
  <1>3. TypeOK'
    BY <1>0 DEF Inv, TypeOK
  <1>4. TotalsInv'
    BY <1>1 DEF Inv, TotalsInv
  <1>5. W' = W /\ S' = S
    BY <1>0 DEF W, S
  <1>6. ScoreInv'
    BY <1>2, <1>5 DEF Inv, ScoreInv
  <1>7. GroupInv'
    BY <1>5 DEF Inv, GroupInv
  <1>. QED
    BY <1>3, <1>4, <1>6, <1>7 DEF Inv

\* A turn of the scoring loop, with the priority of the definition.
ScoreByPriority ==
    LET p == Priority(alive[i], W, S) IN
    /\ phase = "score" /\ i \in 1..n /\ i' = i + 1
    /\ priorities' = Append(priorities, p)
    /\ best' = IF Less(p, best) THEN p ELSE best
    /\ UNCHANGED <<alive, phase, sumWeight, sumSessions, group, pick>>

LEMMA ScoreIsByPriority == Inv /\ Score => ScoreByPriority
  <1>. SUFFICES ASSUME Inv, Score PROVE ScoreByPriority
    OBVIOUS
  <1>1. phase = "score" /\ i \in 1..n
    BY AliveType DEF Score, Inv, TypeOK
  <1>2. difference(alive[i]) = Priority(alive[i], W, S)
    BY <1>1, DifferenceIs DEF Inv
  <1>. QED
    BY <1>1, <1>2 DEF Score, ScoreByPriority

LEMMA ScoreStep ==
    ASSUME Inv, ScoreByPriority
    PROVE  Inv'
  <1>. USE DEF ScoreByPriority
  <1>. DEFINE p == Priority(alive[i], W, S)
  <1>0. /\ n \in Nat \ {0} /\ n' = n
        /\ alive \in Seq(Member)
        /\ \A k \in 1..n : alive[k].weight \in Nat \ {0} /\ alive[k].sessions \in Nat
    BY AliveType DEF Inv, TypeOK, n
  <1>1. /\ i \in 1..n /\ i' = i + 1
        /\ summed = n /\ summed' = n /\ scored = i - 1 /\ scored' = i
    BY <1>0 DEF Inv, TypeOK, summed, scored
  <1>2. /\ W \in Nat \ {0} /\ S \in Nat /\ W' = W /\ S' = S
    BY <1>0, TotalsType DEF Inv, W, S
  <1>3. alive[i] \in Member
    BY <1>0, <1>1 DEF n
  <1>4. p \in Int
    BY <1>2, <1>3, PriorityType DEF Member
  <1>5. /\ priorities \in Seq(Int \cup {NaN}) /\ Len(priorities) = i - 1
        /\ priorities' = Append(priorities, p)
    BY <1>1 DEF Inv, TypeOK, ScoreInv
  <1>5a. IF i = 1 THEN best = Inf ELSE best \in Int
    BY <1>1 DEF Inv, ScoreInv
  <1>6. /\ best' \in Int /\ best' <= p
        /\ best' = IF i = 1 \/ p < best THEN p ELSE best
    BY <1>1, <1>4, <1>5a, FloatAssumption DEF Less
  <1>7. TypeOK'
    <2>1. priorities' \in Seq(Int \cup {NaN})
      BY <1>4, <1>5
    <2>2. i' \in 1..n' + 1 /\ phase' = phase /\ phase = "score"
      BY <1>0, <1>1
    <2>3. UNCHANGED <<alive, sumWeight, sumSessions, group, pick>>
      OBVIOUS
    <2>. HIDE DEF ScoreByPriority
    <2>. QED
      BY <1>0, <1>6, <2>1, <2>2, <2>3 DEF Inv, TypeOK
  <1>8. TotalsInv'
    BY <1>1 DEF Inv, TotalsInv
  <1>9. \A k \in 1..i : priorities'[k] = Priority(alive[k], W, S) /\ best' <= priorities'[k]
    <2>. SUFFICES ASSUME NEW k \in 1..i
                  PROVE  priorities'[k] = Priority(alive[k], W, S) /\ best' <= priorities'[k]
      OBVIOUS
    <2>1. CASE k = i
      BY <1>1, <1>4, <1>5, <1>6, <2>1
    <2>2. CASE k # i
      <3>1. k \in 1..i - 1
        BY <1>1, <2>2
      <3>2. priorities'[k] = priorities[k] /\ priorities[k] \in Int
        BY <1>1, <1>4, <1>5, <3>1, ScoredType
      <3>3. priorities[k] = Priority(alive[k], W, S) /\ best <= priorities[k]
        BY <1>1, <3>1 DEF Inv, ScoreInv
      <3>4. i # 1
        BY <1>1, <3>1
      <3>5. best \in Int
        BY <1>5a, <3>4
      <3>6. best' <= best
        <4>1. p >= best => best' = best
          BY <1>4, <1>6, <3>4, <3>5
        <4>. HIDE DEF ScoreByPriority, p
        <4>. QED
          BY <1>4, <1>6, <3>5, <4>1
      <3>. HIDE DEF ScoreByPriority, p
      <3>. QED
        BY <1>6, <3>2, <3>3, <3>5, <3>6
    <2>. QED
      BY <2>1, <2>2
  <1>10. best' <= 0 \/ (S > 0 /\ sumSessions[i] * W - sumWeight[i] * S > 0)
    <2>1. CASE p <= 0
      BY <1>4, <1>6, <2>1
    <2>2. CASE p > 0
      <3>1. S \in Nat \ {0}
        <4>1. ASSUME S = 0 PROVE FALSE
          <5>1. Priority(alive[i], W, 0) < 0
            BY <1>2, <1>3, PriorityInIdleFarm
          <5>2. p < 0
            BY <4>1, <5>1
          <5>. QED
            BY <1>4, <2>2, <5>2
        <4>. QED
          BY <1>2, <4>1
      <3>2. p = alive[i].sessions * W - alive[i].weight * S
        BY <1>2, <3>1, PriorityIsCrossProduct
      <3>3. /\ sumWeight[i - 1] \in Nat /\ sumSessions[i - 1] \in Nat
            /\ sumWeight[i] = sumWeight[i - 1] + alive[i].weight
            /\ sumSessions[i] = sumSessions[i - 1] + alive[i].sessions
        BY <1>0, <1>1 DEF Inv, TypeOK, TotalsInv
      <3>4. \/ best' <= 0
            \/ sumSessions[i - 1] * W - sumWeight[i - 1] * S >= 0
        <4>1. CASE i = 1
          <5>1. sumWeight[0] = 0 /\ sumSessions[0] = 0
            BY DEF Inv, TotalsInv
          <5>2. 0 * W - 0 * S >= 0
            BY <1>2
          <5>. QED
            BY <4>1, <5>1, <5>2
        <4>2. CASE i # 1
          <5>1. \/ best <= 0
                \/ sumSessions[i - 1] * W - sumWeight[i - 1] * S > 0
            BY <1>1, <4>2 DEF Inv, ScoreInv
          <5>2. CASE best <= 0
            <6>1. best' = best
              BY <1>4, <1>5a, <1>6, <2>2, <4>2, <5>2
            <6>. QED
              BY <5>2, <6>1
          <5>3. CASE sumSessions[i - 1] * W - sumWeight[i - 1] * S > 0
            <6>1. sumSessions[i - 1] * W \in Int /\ sumWeight[i - 1] * S \in Int
              BY <1>2, <3>3
            <6>. QED
              BY <5>3, <6>1
          <5>. QED
            BY <5>1, <5>2, <5>3
        <4>. QED
          BY <4>1, <4>2
      <3>5. ASSUME sumSessions[i - 1] * W - sumWeight[i - 1] * S >= 0
            PROVE  sumSessions[i] * W - sumWeight[i] * S > 0
        <4>1. alive[i].sessions * W - alive[i].weight * S > 0
          BY <2>2, <3>2
        <4>2. alive[i].weight \in Int /\ alive[i].sessions \in Int
          BY <1>0, <1>1
        <4>3. sumWeight[i - 1] \in Int /\ sumSessions[i - 1] \in Int
          BY <3>3
        <4>4. W \in Int /\ S \in Int
          BY <1>2
        <4>. HIDE DEF ScoreByPriority
        <4>5. (sumSessions[i - 1] + alive[i].sessions) * W
                - (sumWeight[i - 1] + alive[i].weight) * S > 0
          BY <3>5, <4>1, <4>2, <4>3, <4>4, ExcessGrows
        <4>. QED
          BY <3>3, <4>5
      <3>. QED
        BY <3>1, <3>4, <3>5
    <2>. QED
      BY <1>4, <2>1, <2>2
  <1>11. ScoreInv'
    <2>1. Len(priorities') = i
      BY <1>1, <1>4, <1>5
    <2>2. sumSessions' = sumSessions /\ sumWeight' = sumWeight /\ alive' = alive
      OBVIOUS
    <2>. HIDE DEF ScoreByPriority
    <2>. QED
      BY <1>1, <1>2, <1>6, <1>9, <1>10, <2>1, <2>2 DEF ScoreInv
  <1>12. GroupInv'
    BY DEF Inv, GroupInv
  <1>. QED
    BY <1>7, <1>8, <1>11, <1>12 DEF Inv

LEMMA CollectStep ==
    ASSUME Inv, Collect
    PROVE  Inv'
  <1>. USE DEF Collect
  <1>0. n \in Nat \ {0} /\ n' = n /\ DOMAIN alive = 1..n
    BY AliveType DEF Inv, TypeOK, n
  <1>1. i \in 1..n /\ summed' = summed /\ scored' = scored
    BY <1>0 DEF Inv, TypeOK, summed, scored
  <1>2. W' = W /\ S' = S
    BY <1>0 DEF W, S
  <1>3. TypeOK'
    BY <1>0, <1>1 DEF Inv, TypeOK
  <1>4. TotalsInv'
    BY <1>1 DEF Inv, TotalsInv
  <1>5. ScoreInv'
    BY <1>1, <1>2 DEF Inv, ScoreInv
  <1>6. GroupInv'
    BY <1>2 DEF Inv, GroupInv, Near
  <1>. QED
    BY <1>3, <1>4, <1>5, <1>6 DEF Inv

LEMMA PickStep ==
    ASSUME Inv, Pick
    PROVE  Inv'
  <1>. USE DEF Pick
  <1>0. n \in Nat \ {0} /\ n' = n
    BY AliveType DEF Inv, TypeOK, n
  <1>1. summed' = summed /\ scored' = scored
    BY <1>0 DEF summed, scored
  <1>2. W' = W /\ S' = S
    BY <1>0 DEF W, S
  <1>3. TypeOK'
    BY <1>0 DEF Inv, TypeOK
  <1>4. TotalsInv'
    BY <1>1 DEF Inv, TotalsInv
  <1>5. ScoreInv'
    BY <1>1, <1>2 DEF Inv, ScoreInv
  <1>6. GroupInv'
    BY <1>2 DEF Inv, GroupInv
  <1>. QED
    BY <1>3, <1>4, <1>5, <1>6 DEF Inv

LEMMA InvStep == Inv /\ [Next]_vars => Inv'
  <1>. SUFFICES ASSUME Inv, [Next]_vars PROVE Inv'
    OBVIOUS
  <1>1. CASE AddToTotals
    BY <1>1, AddToTotalsStep
  <1>2. CASE EndLoop("total", "score")
    BY <1>2, EndLoopStep
  <1>3. CASE Score
    BY <1>3, ScoreIsByPriority, ScoreStep
  <1>4. CASE EndLoop("score", "group")
    BY <1>4, EndLoopStep
  <1>5. CASE Collect
    BY <1>5, CollectStep
  <1>6. CASE EndLoop("group", "pick")
    BY <1>6, EndLoopStep
  <1>7. CASE Pick
    BY <1>7, PickStep
  <1>8. CASE UNCHANGED vars
    BY <1>8 DEF vars, Inv, TypeOK, TotalsInv, ScoreInv, GroupInv, summed, scored, n, W, S
  <1>. QED
    BY <1>1, <1>2, <1>3, <1>4, <1>5, <1>6, <1>7, <1>8 DEF Next

\* At the end the priorities add up to 0 or less, so the least is not positive,
\* and what lies within eps of it exceeds 0 by at most eps.
LEMMA InvImpliesUnderShare == Inv => PickUnderShare
  <1>. SUFFICES ASSUME Inv, phase = "done" PROVE PickUnderShare
    BY DEF PickUnderShare
  <1>. DEFINE m == alive[pick]
  <1>0. /\ n \in Nat \ {0} /\ DOMAIN alive = 1..n
        /\ \A k \in 1..n : alive[k] \in Member
        /\ \A k \in 1..n : alive[k].weight \in Nat \ {0} /\ alive[k].sessions \in Nat
    BY AliveType DEF Inv, TypeOK, n
  <1>1. /\ W \in Nat \ {0} /\ S \in Nat /\ Whole(W) = W
        /\ \A k \in 1..n : alive[k].sessions <= S
    BY TotalsType DEF Inv
  <1>2. pick \in group /\ pick \in 1..n
    BY <1>0 DEF Inv, GroupInv, TypeOK
  <1>3. priorities[pick] = Priority(m, W, S) /\ priorities[pick] \in Int /\ best \in Int
    <2>1. scored = n
      BY DEF scored
    <2>. QED
      BY <1>2, <2>1, ScoredType DEF Inv, ScoreInv
  <1>4. best <= 0
    <2>1. scored = n
      BY DEF scored
    <2>2. sumSessions[n] * W - sumWeight[n] * S = 0
      <3>1. S * W - W * S = 0
        BY <1>1
      <3>. QED
        BY <3>1 DEF W, S
    <2>. QED
      BY <1>0, <2>1, <2>2 DEF Inv, ScoreInv
  <1>5. (priorities[pick] - best) * EpsInv <= Whole(W) * Whole(S)
    BY <1>2 DEF Inv, GroupInv, WithinEps
  <1>6. Whole(W) * Whole(S) \in Int
    BY <1>1 DEF Whole
  <1>7. Priority(m, W, S) * EpsInv <= Whole(W) * Whole(S)
    BY <1>3, <1>4, <1>5, <1>6, EpsInvAssumption, ScaledDistance
  <1>8. CASE S = 0
    <2>1. m.sessions = 0 /\ m.weight \in Nat
      BY <1>0, <1>1, <1>2, <1>8
    <2>2. m.sessions * W - m.weight * S = 0
      BY <1>1, <1>8, <2>1
    <2>3. 0 * EpsInv <= Whole(W) * Whole(S)
      <3>1. Whole(W) * Whole(S) = W
        BY <1>1, <1>8 DEF Whole
      <3>2. 0 * EpsInv = 0
        BY EpsInvAssumption
      <3>. QED
        BY <1>1, <3>1, <3>2
    <2>. QED
      BY <2>2, <2>3 DEF PickUnderShare
  <1>9. CASE S # 0
    <2>1. Priority(m, W, S) = m.sessions * W - m.weight * S
      BY <1>1, <1>9, PriorityIsCrossProduct
    <2>. QED
      BY <1>7, <2>1 DEF PickUnderShare
  <1>. QED
    BY <1>8, <1>9

\* The loops keep their variables well typed on every farm.
THEOREM SelectTypeCorrect == Spec => []TypeOK
  <1>1. Inv => TypeOK
    BY DEF Inv
  <1>. QED
    BY <1>1, InvInit, InvStep, PTL DEF Spec

\* On every farm, whatever its size, weights and loads, the member picked holds
\* a share of the sessions at most eps above its share of the weight.
THEOREM PickIsUnderLoaded == Spec => []PickUnderShare
  <1>. QED
    BY InvInit, InvStep, InvImpliesUnderShare, PTL DEF Spec
-----------------------------------------------------------------------------
(* The loops against the declarative minimum group.                        *)

\* Once the totals are in, they are the sums over the members.
LEMMA TotalsAreSums ==
    ASSUME Inv, phase # "total"
    PROVE  W = TotalWeight(alive) /\ S = TotalSessions(alive)
  <1>. DEFINE weights == [k \in DOMAIN alive |-> alive[k].weight]
              sessions == [k \in DOMAIN alive |-> alive[k].sessions]
  <1>1. /\ n \in Nat /\ DOMAIN alive = 1..n
        /\ \A k \in 1..n : alive[k].weight \in Nat /\ alive[k].sessions \in Nat
    BY AliveType DEF Inv, TypeOK
  <1>2. /\ sumWeight[0] = 0 /\ sumSessions[0] = 0
        /\ \A k \in 1..n : /\ sumWeight[k] = sumWeight[k - 1] + weights[k]
                           /\ sumSessions[k] = sumSessions[k - 1] + sessions[k]
                           /\ weights[k] \in Nat /\ sessions[k] \in Nat
    BY <1>1 DEF Inv, TotalsInv, summed
  <1>3. TotalWeight(alive) = SumFunctionOnSet(weights, 1..n)
    BY <1>1 DEF TotalWeight, SumFunction
  <1>4. TotalSessions(alive) = SumFunctionOnSet(sessions, 1..n)
    BY <1>1 DEF TotalSessions, SumFunction
  <1>. HIDE DEF weights, sessions
  <1>5. SumFunctionOnSet(weights, 1..n) = sumWeight[n]
    <2>1. sumWeight[0] = 0 /\ \A k \in 1..n : sumWeight[k] = sumWeight[k - 1] + weights[k]
      BY <1>2
    <2>2. n \in Nat /\ \A k \in 1..n : weights[k] \in Nat
      BY <1>1, <1>2
    <2>. QED
      BY <2>1, <2>2, SumIsRunningTotal
  <1>6. SumFunctionOnSet(sessions, 1..n) = sumSessions[n]
    <2>1. sumSessions[0] = 0 /\ \A k \in 1..n : sumSessions[k] = sumSessions[k - 1] + sessions[k]
      BY <1>2
    <2>2. n \in Nat /\ \A k \in 1..n : sessions[k] \in Nat
      BY <1>1, <1>2
    <2>. QED
      BY <2>1, <2>2, SumIsRunningTotal
  <1>. QED
    BY <1>3, <1>4, <1>5, <1>6 DEF W, S

\* Moving the reference point up shortens the distance to it.
LEMMA CloserTo ==
    ASSUME NEW p \in Int, NEW least \in Int, NEW q \in Int, NEW e \in Nat, NEW d \in Int,
           least <= q, (p - least) * e <= d
    PROVE  (p - q) * e <= d
  <1>1. (p - least) * e = (p - q) * e + (q - least) * e
    OBVIOUS
  <1>2. (q - least) * e \in Nat
    BY MulNonNeg
  <1>. DEFINE near == (p - q) * e
              step == (q - least) * e
  <1>3. near \in Int /\ step \in Nat /\ near + step <= d
    BY <1>1, <1>2
  <1>. HIDE DEF near, step
  <1>4. near <= d
    BY <1>3
  <1>. QED
    BY <1>4 DEF near

LEMMA InvImpliesInMinGroup == Inv => PickIsInMinGroup
  <1>. SUFFICES ASSUME Inv, phase = "done" PROVE pick \in MinGroup(alive)
    BY DEF PickIsInMinGroup
  <1>0. n \in Nat \ {0} /\ DOMAIN alive = 1..n
    BY AliveType DEF Inv, TypeOK
  <1>1. W = TotalWeight(alive) /\ S = TotalSessions(alive)
    BY TotalsAreSums
  <1>2. W \in Nat \ {0} /\ S \in Nat
    BY TotalsType DEF Inv
  <1>3. pick \in group /\ pick \in 1..n
    BY <1>0 DEF Inv, GroupInv, TypeOK
  <1>4. /\ best \in Int
        /\ \A k \in 1..n : /\ priorities[k] = Priority(alive[k], W, S)
                           /\ priorities[k] \in Int
                           /\ best <= priorities[k]
    <2>1. scored = n /\ best \in Int
      BY <1>0 DEF scored, Inv, ScoreInv
    <2>. QED
      BY <2>1, ScoredType DEF Inv, ScoreInv
  <1>5. Whole(W) * Whole(S) \in Int
    BY <1>2 DEF Whole
  <1>6. ASSUME NEW j \in 1..n PROVE WithinEps(priorities[pick], priorities[j], W, S)
    <2>1. (priorities[pick] - best) * EpsInv <= Whole(W) * Whole(S)
      BY <1>3 DEF Inv, GroupInv, WithinEps
    <2>2. /\ best <= priorities[j] /\ priorities[j] \in Int
          /\ priorities[pick] \in Int /\ best \in Int
      BY <1>3, <1>4
    <2>3. (priorities[pick] - priorities[j]) * EpsInv <= Whole(W) * Whole(S)
      BY <1>5, <2>1, <2>2, EpsInvAssumption, CloserTo
    <2>. QED
      BY <2>3 DEF WithinEps
  <1>7. \A j \in DOMAIN alive :
           WithinEps(Priority(alive[pick], W, S), Priority(alive[j], W, S), W, S)
    BY <1>0, <1>3, <1>4, <1>6
  <1>. QED
    BY <1>0, <1>1, <1>3, <1>7 DEF MinGroup

\* The three loops and the pick, whatever the farm, choose a member that the
\* declarative definition of the minimum group allows (farm.go:74-119).
THEOREM PickIsMinimal == Spec => []PickIsInMinGroup
  <1>. QED
    BY InvInit, InvStep, InvImpliesInMinGroup, PTL DEF Spec
-----------------------------------------------------------------------------
(* The group is never short of a member.                                   *)

\* The collecting loop is past what the scoring loop has filled.
LEMMA CollectedBounds ==
    ASSUME Inv
    PROVE  /\ n \in Nat \ {0} /\ i \in 1..n + 1
           /\ scored \in 0..n /\ collected \in 0..n
           /\ collected > 0 => scored = n
  BY AliveType DEF Inv, TypeOK, scored, collected

LEMMA FoundInit == Init => FoundInv
  BY DEF Init, FoundInv, scored, collected

LEMMA EndLoopFinds ==
    ASSUME NEW from, NEW to,
           <<from, to>> \in {<<"total", "score">>, <<"score", "group">>, <<"group", "pick">>},
           Inv, FoundInv, EndLoop(from, to)
    PROVE  FoundInv'
  <1>. USE DEF EndLoop
  <1>1. n \in Nat \ {0} /\ n' = n /\ i = n + 1
    BY AliveType DEF Inv, TypeOK, n
  <1>2. scored' = scored /\ collected' = collected
    BY <1>1 DEF scored, collected
  <1>3. W' = W /\ S' = S
    BY <1>1 DEF W, S
  <1>. QED
    BY <1>2, <1>3 DEF FoundInv

\* The member scored either becomes the minimum or leaves the former one.
LEMMA ScoreFinds ==
    ASSUME Inv, FoundInv, Score
    PROVE  FoundInv'
  <1>. USE DEF Score
  <1>. DEFINE p == difference(alive[i])
  <1>1. n \in Nat \ {0} /\ n' = n
    BY AliveType DEF Inv, TypeOK, n
  <1>2. /\ i \in 1..n /\ scored = i - 1 /\ scored' = i /\ collected' = 0
    BY <1>1 DEF Inv, TypeOK, scored, collected
  <1>3. /\ Len(priorities) = i - 1 /\ priorities \in Seq(Int \cup {NaN})
        /\ priorities' = Append(priorities, p)
    BY <1>2 DEF Inv, TypeOK, ScoreInv
  <1>4. /\ priorities'[i] = p
        /\ \A k \in 1..i - 1 : priorities'[k] = priorities[k]
    BY <1>2, <1>3
  <1>5. CASE best' = p
    BY <1>2, <1>4, <1>5 DEF FoundInv
  <1>6. CASE best' # p
    <2>0. p \in Int
      <3>1. phase = "score" /\ W \in Nat /\ S \in Nat /\ alive[i] \in Member
        BY <1>2, AliveType, TotalsType DEF Inv, TypeOK
      <3>2. Priority(alive[i], W, S) \in Int
        BY <3>1, PriorityType DEF Member
      <3>. QED
        BY <1>2, <3>1, <3>2, DifferenceIs DEF Inv
    <2>1. i # 1 /\ best' = best
      <3>1. i = 1 => best = Inf
        BY <1>2 DEF Inv, ScoreInv
      <3>. QED
        BY <1>6, <2>0, <3>1, FloatAssumption DEF Less
    <2>2. PICK k \in 1..i - 1 : priorities[k] = best
      BY <1>2, <2>1 DEF FoundInv
    <2>. HIDE DEF Score
    <2>3. k \in 1..i
      BY <1>2
    <2>4. priorities'[k] = best'
      BY <1>4, <2>1, <2>2
    <2>. QED
      BY <1>2, <2>3, <2>4 DEF FoundInv
  <1>. QED
    BY <1>5, <1>6

LEMMA CollectFinds ==
    ASSUME Inv, FoundInv, Collect
    PROVE  FoundInv'
  <1>. USE DEF Collect
  <1>1. n \in Nat \ {0} /\ n' = n
    BY AliveType DEF Inv, TypeOK, n
  <1>2. /\ i \in 1..n /\ collected = i - 1 /\ collected' = i /\ scored' = scored
    BY <1>1 DEF Inv, TypeOK, scored, collected
  <1>3. W' = W /\ S' = S
    BY <1>1 DEF W, S
  <1>4. ASSUME NEW k \in 1..i, WithinEps(priorities[k], best, W, S)
        PROVE  k \in group'
    <2>1. CASE k = i
      <3>1. k \in 1..scored
        BY <1>2, <2>1 DEF scored
      <3>. QED
        BY <1>4, <2>1, <3>1, ScoredType DEF Near
    <2>2. CASE k # i
      <3>1. k \in 1..collected
        BY <1>2, <2>2
      <3>. QED
        BY <1>4, <3>1 DEF FoundInv
    <2>. QED
      BY <2>1, <2>2
  <1>. QED
    BY <1>2, <1>3, <1>4 DEF FoundInv

LEMMA FoundStep == Inv /\ FoundInv /\ [Next]_vars => FoundInv'
  <1>. SUFFICES ASSUME Inv, FoundInv, [Next]_vars PROVE FoundInv'
    OBVIOUS
  <1>1. CASE AddToTotals
    <2>1. scored' = 0 /\ collected' = 0
      BY <1>1 DEF AddToTotals, scored, collected
    <2>. QED
      BY <2>1 DEF FoundInv
  <1>2. CASE EndLoop("total", "score")
    BY <1>2, EndLoopFinds
  <1>3. CASE Score
    BY <1>3, ScoreFinds
  <1>4. CASE EndLoop("score", "group")
    BY <1>4, EndLoopFinds
  <1>5. CASE Collect
    BY <1>5, CollectFinds
  <1>6. CASE EndLoop("group", "pick")
    BY <1>6, EndLoopFinds
  <1>7. CASE Pick
    <2>1. n \in Nat \ {0} /\ n' = n
      BY <1>7, AliveType DEF Inv, TypeOK, n, Pick
    <2>2. scored' = scored /\ collected' = collected
      BY <1>7, <2>1 DEF Pick, scored, collected
    <2>3. W' = W /\ S' = S
      BY <1>7, <2>1 DEF Pick, W, S
    <2>. QED
      BY <1>7, <2>2, <2>3 DEF Pick, FoundInv
  <1>8. CASE UNCHANGED vars
    BY <1>8 DEF vars, FoundInv, scored, collected, n, W, S
  <1>. QED
    BY <1>1, <1>2, <1>3, <1>4, <1>5, <1>6, <1>7, <1>8 DEF Next

\* All scored and all collected, being in the group is being within eps of the
\* minimum, and the member that attains the minimum is.
LEMMA InvImpliesWholeGroup == Inv /\ FoundInv => GroupIsMinGroup
  <1>. SUFFICES ASSUME Inv, FoundInv, phase = "pick"
                PROVE  group = MinGroup(alive) /\ group # {}
    BY DEF GroupIsMinGroup
  <1>0. n \in Nat \ {0} /\ DOMAIN alive = 1..n
    BY AliveType DEF Inv, TypeOK
  <1>1. W = TotalWeight(alive) /\ S = TotalSessions(alive)
    BY TotalsAreSums
  <1>2. Whole(W) * Whole(S) \in Nat
    <2>1. Whole(W) \in Nat /\ Whole(S) \in Nat
      BY TotalsType DEF Inv, Whole
    <2>. QED
      BY <2>1, MulNonNeg
  <1>3. scored = n /\ collected = n
    BY DEF scored, collected
  <1>4. /\ best \in Int
        /\ \A k \in 1..n : /\ priorities[k] = Priority(alive[k], W, S)
                           /\ priorities[k] \in Int
                           /\ best <= priorities[k]
    <2>1. best \in Int
      BY <1>0, <1>3 DEF Inv, ScoreInv
    <2>. QED
      BY <1>3, <2>1, ScoredType DEF Inv, ScoreInv
  <1>5. PICK least \in 1..n : priorities[least] = best
    BY <1>0, <1>3 DEF FoundInv
  <1>6. \A k \in 1..n : k \in group <=> WithinEps(priorities[k], best, W, S)
    BY <1>3 DEF Inv, GroupInv, FoundInv
  <1>7. group \subseteq 1..n
    BY <1>0 DEF Inv, TypeOK
  <1>8. group # {}
    <2>1. (best - best) * EpsInv = 0
      <3>1. best - best = 0 /\ 0 * EpsInv = 0
        BY <1>4, EpsInvAssumption
      <3>. QED
        BY <3>1
    <2>2. WithinEps(best, best, W, S)
      BY <1>2, <2>1 DEF WithinEps
    <2>. QED
      BY <1>5, <1>6, <2>2
  <1>9. ASSUME NEW k \in 1..n
        PROVE  WithinEps(priorities[k], best, W, S)
                 <=> \A j \in 1..n : WithinEps(priorities[k], priorities[j], W, S)
    <2>1. ASSUME WithinEps(priorities[k], best, W, S), NEW j \in 1..n
          PROVE  WithinEps(priorities[k], priorities[j], W, S)
      <3>1. (priorities[k] - best) * EpsInv <= Whole(W) * Whole(S)
        BY <2>1 DEF WithinEps
      <3>2. /\ best <= priorities[j] /\ priorities[j] \in Int
            /\ priorities[k] \in Int /\ best \in Int
        BY <1>4
      <3>3. (priorities[k] - priorities[j]) * EpsInv <= Whole(W) * Whole(S)
        BY <1>2, <3>1, <3>2, EpsInvAssumption, CloserTo
      <3>. QED
        BY <3>3 DEF WithinEps
    <2>2. ASSUME \A j \in 1..n : WithinEps(priorities[k], priorities[j], W, S)
          PROVE  WithinEps(priorities[k], best, W, S)
      BY <1>5, <2>2
    <2>. QED
      BY <2>1, <2>2
  <1>10. MinGroup(alive) =
           {k \in 1..n : \A j \in 1..n : WithinEps(priorities[k], priorities[j], W, S)}
    BY <1>0, <1>1, <1>4 DEF MinGroup
  <1>11. group = MinGroup(alive)
    BY <1>6, <1>7, <1>9, <1>10
  <1>. QED
    BY <1>8, <1>11

\* On every farm the group the pick is drawn from is the whole minimum group and
\* holds a member, so that group[idx] exists (farm.go:102-118).
THEOREM GroupIsNeverShort == Spec => []GroupIsMinGroup
  <1>1. Init => Inv /\ FoundInv
    BY InvInit, FoundInit
  <1>2. Inv /\ FoundInv /\ [Next]_vars => (Inv /\ FoundInv)'
    BY InvStep, FoundStep
  <1>. QED
    BY <1>1, <1>2, InvImpliesWholeGroup, PTL DEF Spec
=============================================================================
