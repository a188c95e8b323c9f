SPECIFICATION Spec
CONSTANTS
    EpsInv = 1000
    Weight <- ThreeWeights
    Launches = {l1, l2, l3}
    MaxSessions = 6
SYMMETRY Symmetry
INVARIANT
    BurstBound
