---------------------------- MODULE FarmBalance ----------------------------
(***************************************************************************)
(* How far concurrent launches can unbalance a farm.  Every launch reads   *)
(* the loads one member after the other and picks from what it has read;   *)
(* its session comes up some time later, when others have read the same    *)
(* loads.  All members answer, and no session ends: the farm fills up.     *)
(***************************************************************************)
EXTENDS Selection

CONSTANTS
    Weight,       \* of each member, in the order of the farm
    Launches,     \* the launches that may be on their way at the same time
    MaxSessions   \* bound: sessions opened

Farm == DOMAIN Weight

ASSUME FarmBalanceAssumption ==
    /\ Weight \in Seq(Nat \ {0}) /\ Weight # <<>>
    /\ IsFiniteSet(Launches)
    /\ MaxSessions \in Nat

VARIABLES
    pc,      \* per launch
    next,    \* the candidate to probe
    seen,    \* the sessions the heartbeats have counted
    picked,
    open     \* the sessions that are up: <<member, number>>

vars == <<pc, next, seen, picked, open>>

At(S, i) == {s \in S : s[1] = i}

Load(i) == Cardinality(At(open, i))

\* selectGateway's `alive`: every member with the sessions it reported.
View(l) == [i \in Farm |-> [weight |-> Weight[i], sessions |-> Cardinality(At(seen[l], i))]]

TotalW == SumFunction(Weight)

Init ==
    /\ pc = [l \in Launches |-> "idle"]
    /\ next = [l \in Launches |-> 1]
    /\ seen = [l \in Launches |-> {}]
    /\ picked = [l \in Launches |-> 1]
    /\ open = {}

Goto(l, where) == pc' = [pc EXCEPT ![l] = where]

Begin(l) ==
    /\ pc[l] = "idle"
    /\ Goto(l, "probe")
    /\ next' = [next EXCEPT ![l] = 1]
    /\ seen' = [seen EXCEPT ![l] = {}]
    /\ UNCHANGED <<picked, open>>

\* Bug: the count of a member is kept once it has been read.
ProbeCached(l) ==
    /\ pc[l] = "probe" /\ next[l] \in Farm
    /\ UNCHANGED seen
    /\ next' = [next EXCEPT ![l] = @ + 1]
    /\ UNCHANGED <<pc, picked, open>>

\* The member reports its running_session_count.
Probe(l) ==
    /\ pc[l] = "probe" /\ next[l] \in Farm
    /\ seen' = [seen EXCEPT ![l] = @ \cup At(open, next[l])]
    /\ next' = [next EXCEPT ![l] = @ + 1]
    /\ UNCHANGED <<pc, picked, open>>

Pick(l) ==
    /\ pc[l] = "probe" /\ next[l] \notin Farm
    /\ \E i \in MinGroup(View(l)) : picked' = [picked EXCEPT ![l] = i]
    /\ Goto(l, "picked")
    /\ UNCHANGED <<next, seen, open>>

\* The player connects and the gateway counts one session more.
Open(l) ==
    /\ pc[l] = "picked"
    /\ Cardinality(open) < MaxSessions
    /\ open' = open \cup {<<picked[l], Load(picked[l]) + 1>>}
    /\ Goto(l, "idle")
    /\ UNCHANGED <<next, seen, picked>>

\* The launch fails, or its descriptor is never used.
Abandon(l) ==
    /\ pc[l] = "picked"
    /\ Goto(l, "idle")
    /\ UNCHANGED <<next, seen, picked, open>>

Next == \E l \in Launches : Begin(l) \/ Probe(l) \/ Pick(l) \/ Open(l) \/ Abandon(l)

Spec == Init /\ [][Next]_vars

-----------------------------------------------------------------------------
\* However slow the launches are and however stale what they have read, they
\* crowd a member by no more than one session each: take as many sessions as
\* there are launches off a member that is over its share, and what it has left
\* exceeds its share of the rest by at most eps (farm.go:47-50,68,107).
BurstBound ==
    LET burst == Cardinality(Launches)
        excess(i) == (Load(i) - burst) * TotalW - Weight[i] * (Cardinality(open) - burst)
    IN  \A i \in Farm : excess(i) * EpsInv <= TotalW * Whole(Cardinality(open))

-----------------------------------------------------------------------------
(* Why it holds: the invariant the proof is by.                            *)

TypeOK ==
    /\ pc \in [Launches -> {"idle", "probe", "picked"}]
    /\ next \in [Launches -> 1..Len(Weight) + 1]
    /\ seen \in [Launches -> SUBSET open]
    /\ picked \in [Launches -> Farm]
    /\ open \subseteq Farm \X Nat /\ IsFiniteSet(open)

\* The sessions of a member are numbered without gaps at the end.
Numbered == \A s \in open : s[2] <= Load(s[1])

\* A launch has counted the members before the one to probe, and no other.
ReadInOrder == \A l \in Launches : pc[l] = "probe" => \A s \in seen[l] : s[1] < next[l]

\* x sessions on member i are within its share of x and what is open elsewhere.
WithinShare(i, x) ==
    LET elsewhere == Cardinality(open) - Load(i)
    IN  (x * (TotalW - Weight[i]) - Weight[i] * elsewhere) * EpsInv
          <= TotalW * Whole(Cardinality(open))

\* What a launch has read of the member it picked was within the share then and
\* is now: elsewhere it only gets more.
PickWasFair ==
    \A l \in Launches :
        pc[l] = "picked" => WithinShare(picked[l], Cardinality(At(seen[l], picked[l])))

\* The launches that may still come to i and read at most v sessions there.
Coming(i, v) ==
    {l \in Launches :
        /\ \/ pc[l] = "probe" /\ i < next[l]
           \/ pc[l] = "picked" /\ picked[l] = i
        /\ Cardinality(At(seen[l], i)) <= v}

\* Beyond v sessions on i come only those who read at most v: one each, unless
\* more than v is within its share anyway.
NoMoreThanComing ==
    \A i \in Farm, v \in Nat :
        \/ WithinShare(i, v + 1)
        \/ Load(i) + Cardinality(Coming(i, v)) <= v + Cardinality(Launches)

Inv == TypeOK /\ Numbered /\ ReadInOrder /\ PickWasFair /\ NoMoreThanComing
=============================================================================
