CONSTANTS
    MaxOutputs = 3
    Deployments <- ManyDeployments
    Bodies <- ManyBodies
SPECIFICATION MCSpec
INVARIANTS
    LoopInv
    VerdictIsAcceptance
    PageFollowsGateway
    LegsMeet
    DialsTheTarget
CHECK_DEADLOCK FALSE
