--------------------------- MODULE MCFarmBalance ---------------------------
(* Two members of one weight and one of twice that.                        *)
EXTENDS FarmBalance, TLC
ThreeWeights == <<1, 1, 2>>
Symmetry == Permutations(Launches)
=============================================================================
