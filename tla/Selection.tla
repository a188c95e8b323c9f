------------------------------ MODULE Selection ------------------------------
(***************************************************************************)
(* The arithmetic of selectGateway: relative load minus relative weight,   *)
(* the minimum, and the group within `eps` of it.                          *)
(*                                                                         *)
(* The code divides float64s.  Here the fractions are exact: a priority is *)
(* its numerator over the common denominator Whole(W) * Whole(S), where W  *)
(* and S are the total weight and the total number of sessions, and eps is *)
(* 1 / EpsInv (EpsInv is 10^9 in the code).  The difference is the         *)
(* rounding of a float64 priority, some 10^-16, far below eps.             *)
(***************************************************************************)
EXTENDS Integers, Sequences, FiniteSets, Functions

CONSTANT EpsInv

ASSUME EpsInvAssumption == EpsInv \in Nat \ {0}

\* A member that passed the weight filter and answered its heartbeat.
Member == [weight : Nat \ {0}, sessions : Nat]

\* relWeight and relLoad: part / total, and 0 when there is nothing to share,
\* as a numerator over Whole(total).
Whole(total) == IF total = 0 THEN 1 ELSE total

Share(part, total) == IF total = 0 THEN 0 ELSE part

\* relLoad(sessions) - relWeight(weight), over Whole(W) * Whole(S).
Priority(m, W, S) ==
    Share(m.sessions, S) * Whole(W) - Share(m.weight, W) * Whole(S)

\* Bug: eps is forgotten and the comparison is strict.
WithinEpsStrict(p, least, W, S) == p < least

\* p - least <= eps, both over Whole(W) * Whole(S).
WithinEps(p, least, W, S) == (p - least) * EpsInv <= Whole(W) * Whole(S)

TotalWeight(alive) == SumFunction([k \in DOMAIN alive |-> alive[k].weight])

TotalSessions(alive) == SumFunction([k \in DOMAIN alive |-> alive[k].sessions])

\* The members selectGateway may pick: no other member's priority is lower by
\* more than eps.
MinGroup(alive) ==
    LET W == TotalWeight(alive)
        S == TotalSessions(alive)
        p(k) == Priority(alive[k], W, S)
    IN  {k \in DOMAIN alive :
            \A j \in DOMAIN alive : WithinEps(p(k), p(j), W, S)}
=============================================================================
