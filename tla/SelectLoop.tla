----------------------------- MODULE SelectLoop -----------------------------
(***************************************************************************)
(* selectGateway after probing: the loop that adds up the totals, the loop *)
(* that scores the members and keeps the minimum, the loop that collects   *)
(* the group within eps of it, and the random pick.                        *)
(***************************************************************************)
EXTENDS Selection

CONSTANTS
    Farms,    \* the non-empty sequences of usable members to select from
    Inf,      \* math.Inf(1)
    NaN       \* the float64 that is not a number

ASSUME FarmsAssumption == Farms \subseteq (Seq(Member) \ {<<>>})

ASSUME FloatAssumption == Inf \notin Int /\ NaN \notin Int

VARIABLES
    alive,        \* the members that survived the filter
    phase,        \* which loop runs: "total", "score", "group", "pick", "done"
    i,            \* its next index
    sumWeight,    \* history of totalWeight: its value after each turn
    sumSessions,  \* history of totalSessions
    priorities,   \* the slice of the same name, as far as it is filled
    best,         \* minPriority
    group,        \* indices of the members collected
    pick          \* index of the member picked; 0 before

vars == <<alive, phase, i, sumWeight, sumSessions, priorities, best, group, pick>>

n == Len(alive)

\* The totals the later loops read: the last value of the accumulators.
W == sumWeight[n]
S == sumSessions[n]

-----------------------------------------------------------------------------
(* The closures of selectGateway, as float64s: 0/0 is NaN, which no          *)
(* comparison holds of.  A number is its numerator, as in Selection.         *)

\* part / total, for a part of that total.
Quotient(part, total) == IF total = 0 THEN NaN ELSE part

relWeight(m) == IF W = 0 THEN 0 ELSE Quotient(m.weight, W)

\* Bug: the load is divided on an idle farm too.
relLoadUnguarded(m) == Quotient(m.sessions, S)

relLoad(m) == IF S = 0 THEN 0 ELSE Quotient(m.sessions, S)

\* relLoad - relWeight
difference(m) ==
    IF NaN \in {relLoad(m), relWeight(m)} THEN NaN
    ELSE relLoad(m) * Whole(W) - relWeight(m) * Whole(S)

Less(p, q) == p # NaN /\ (q = Inf \/ p < q)

\* priorities[k]-minPriority <= eps
Near(k) == priorities[k] # NaN /\ WithinEps(priorities[k], best, W, S)

-----------------------------------------------------------------------------

Init ==
    /\ alive \in Farms
    /\ phase = "total"
    /\ i = 1
    /\ sumWeight = [k \in {0} |-> 0]
    /\ sumSessions = [k \in {0} |-> 0]
    /\ priorities = <<>>
    /\ best = Inf
    /\ group = {}
    /\ pick = 0

\* One turn of `for _, m := range alive { totalWeight += ...; ... }`.
AddToTotals ==
    /\ phase = "total"
    /\ i <= n
    /\ sumWeight' = [k \in 0..i |->
                       IF k = i THEN sumWeight[i - 1] + alive[i].weight ELSE sumWeight[k]]
    /\ sumSessions' = [k \in 0..i |->
                         IF k = i THEN sumSessions[i - 1] + alive[i].sessions ELSE sumSessions[k]]
    /\ i' = i + 1
    /\ UNCHANGED <<alive, phase, priorities, best, group, pick>>

\* Bug: the next loop starts one before the first member.
EndLoopOffByOne(from, to) ==
    /\ phase = from
    /\ i > n
    /\ phase' = to
    /\ i' = 0
    /\ UNCHANGED <<alive, sumWeight, sumSessions, priorities, best, group, pick>>

\* A range loop that has reached its end hands over to the next one.
EndLoop(from, to) ==
    /\ phase = from
    /\ i > n
    /\ phase' = to
    /\ i' = 1
    /\ UNCHANGED <<alive, sumWeight, sumSessions, priorities, best, group, pick>>

\* Bug: the minimum is replaced by every member but the first.
ScoreKeepsLast ==
    /\ phase = "score"
    /\ i <= n
    /\ LET p == difference(alive[i]) IN
         /\ priorities' = Append(priorities, p)
         /\ best' = p
    /\ i' = i + 1
    /\ UNCHANGED <<alive, phase, sumWeight, sumSessions, group, pick>>

\* One turn of the scoring loop.
Score ==
    /\ phase = "score"
    /\ i <= n
    /\ LET p == difference(alive[i]) IN
         /\ priorities' = Append(priorities, p)
         /\ best' = IF Less(p, best) THEN p ELSE best
    /\ i' = i + 1
    /\ UNCHANGED <<alive, phase, sumWeight, sumSessions, group, pick>>

\* One turn of the loop that collects the minimum group.
Collect ==
    /\ phase = "group"
    /\ i <= n
    /\ group' = IF Near(i) THEN group \cup {i} ELSE group
    /\ i' = i + 1
    /\ UNCHANGED <<alive, phase, sumWeight, sumSessions, priorities, best, pick>>

\* Bug: the random index is drawn over all usable members.
PickAny ==
    /\ phase = "pick"
    /\ \E k \in DOMAIN alive : pick' = k
    /\ phase' = "done"
    /\ UNCHANGED <<alive, i, sumWeight, sumSessions, priorities, best, group>>

\* The only member of the group, or a random one.  (A failing entropy source
\* ends the launch instead: Launch!MintFails.)
Pick ==
    /\ phase = "pick"
    /\ \E k \in group : pick' = k
    /\ phase' = "done"
    /\ UNCHANGED <<alive, i, sumWeight, sumSessions, priorities, best, group>>

Next ==
    \/ AddToTotals
    \/ EndLoop("total", "score")
    \/ Score
    \/ EndLoop("score", "group")
    \/ Collect
    \/ EndLoop("group", "pick")
    \/ Pick

Spec == Init /\ [][Next]_vars

\* The loops are sequential code without calls: they run to their end.
FairSpec == Spec /\ WF_vars(Next)

-----------------------------------------------------------------------------
TypeOK ==
    /\ alive \in Farms
    /\ phase \in {"total", "score", "group", "pick", "done"}
    /\ i \in 1..n + 1
    /\ sumWeight \in [0..(IF phase = "total" THEN i - 1 ELSE n) -> Nat]
    /\ sumSessions \in [0..(IF phase = "total" THEN i - 1 ELSE n) -> Nat]
    /\ priorities \in Seq(Int \cup {NaN})
    /\ best \in Int \cup {Inf}
    /\ group \subseteq DOMAIN alive
    /\ pick \in DOMAIN alive \cup {0}

\* The three loops and the pick compute the declarative minimum group: the
\* member picked is within eps of the least priority (farm.go:74-119).
PickIsInMinGroup == phase = "done" => pick \in MinGroup(alive)

\* When the pick is made, the group it is drawn from is the whole minimum group:
\* every least-loaded member has its chance, and there is at least one of them,
\* without which group[idx] would panic (farm.go:102-118).  On an idle farm that
\* hangs on relLoad never dividing by the number of sessions (farm.go:85-90):
\* nothing is within eps of NaN.
GroupIsMinGroup == phase = "pick" => group = MinGroup(alive) /\ group # {}

\* Nobody over-loaded is picked: the picked member's share of the farm's
\* sessions exceeds its share of the weight by at most eps, whatever the
\* weights and the loads are (farm.go:47-50, "most under-loaded vs its
\* weight").  The priorities add up to at most 0, so the least is never
\* positive; a wrong total, a wrong guard for an idle farm or a wrong minimum
\* breaks that.
PickUnderShare ==
    phase = "done" =>
        (alive[pick].sessions * W - alive[pick].weight * S) * EpsInv <= Whole(W) * Whole(S)

\* Selection never comes back empty-handed: on a farm with a usable member the
\* loops run to their end and the pick is made (farm.go:74-119).
SelectionEnds == <>(phase = "done")
-----------------------------------------------------------------------------
\* How far the accumulators and the slice of priorities reach.
summed == IF phase = "total" THEN i - 1 ELSE n
scored == IF phase = "total" THEN 0 ELSE IF phase = "score" THEN i - 1 ELSE n
collected == IF phase \in {"total", "score"} THEN 0 ELSE IF phase = "group" THEN i - 1 ELSE n

\* The accumulators are prefix sums, and bound what was added to them.
TotalsInv ==
    /\ sumWeight[0] = 0 /\ sumSessions[0] = 0
    /\ \A k \in 1..summed :
          /\ sumWeight[k] = sumWeight[k - 1] + alive[k].weight
          /\ sumSessions[k] = sumSessions[k - 1] + alive[k].sessions
          /\ alive[k].weight <= sumWeight[summed]
          /\ alive[k].sessions <= sumSessions[summed]

\* Every priority is a number, the one of the definition, and the minimum is one as
\* soon as a member is scored.  While none at or below 0 has been met, those met so
\* far add up to something positive; over all members they add up to at most 0.
ScoreInv ==
    /\ Len(priorities) = scored
    /\ IF scored = 0 THEN best = Inf ELSE best \in Int
    /\ \A k \in 1..scored :
          /\ priorities[k] = Priority(alive[k], W, S)
          /\ best <= priorities[k]
    /\ \/ scored = 0
       \/ best <= 0
       \/ S > 0 /\ sumSessions[scored] * W - sumWeight[scored] * S > 0

GroupInv ==
    /\ group # {} => phase \in {"group", "pick", "done"}
    /\ \A k \in group : WithinEps(priorities[k], best, W, S)
    /\ phase = "done" => pick \in group

Inv == TypeOK /\ TotalsInv /\ ScoreInv /\ GroupInv

\* The minimum is some member's priority, and no member within eps of it has
\* been passed over.
FoundInv ==
    /\ scored > 0 => \E k \in 1..scored : priorities[k] = best
    /\ \A k \in 1..collected : WithinEps(priorities[k], best, W, S) => k \in group
=============================================================================
