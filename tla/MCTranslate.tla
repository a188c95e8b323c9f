----------------------------- MODULE MCTranslate -----------------------------
(* Instances of Translate for TLC. *)
EXTENDS Translate

CONSTANTS r1, r2, k1, k2, k3, k4

\* One page and a half.
MCListings == {<<k1, k2, k3>>}

\* Bound: others edit the keys only while no second run is at work.  It holds back
\* no step that Fairness asks for: a first call and an edit are nobody's duty.
EditsOrTwoRuns == edits > 0 => \E r \in Runs : pc[r] = "idle"

MCSpec == Init /\ [][Next /\ EditsOrTwoRuns']_vars /\ Fairness
=============================================================================
