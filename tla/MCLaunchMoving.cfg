CONSTANTS
    c1 = c1  c2 = c2
    w1 = w1  w2 = w2
    a = a  b = b  x = x
    idA = idA  idB = idB
    u1 = u1  u2 = u2  f1 = f1
    ad = ad
    Clicks = {c1, c2}
    Workspaces = {w1, w2}
    WorkspaceOf <- OwnWorkspaceOf
    Instances = {a, b, x}
    GatewayId <- MCGatewayId
    NoId = NoId
    Urls = {u1, u2, f1}
    Nobody = Nobody
    BlackHole = BlackHole
    NoFront = NoFront
    Farm <- MovingFarm
    NoDomain = NoDomain
    IdentityDomain <- MixedDomain
    Realm = ad
    ClientTimeout = TRUE
    Routes <- UpRoutes
    MaxGen = 1
    MaxMoves = 3
    EpsInv = 1000
SPECIFICATION FairSpec
INVARIANTS
    TypeOK
    DeliveredIsServed
PROPERTIES
    ImplementsPromise
    EveryClickAnswered
CHECK_DEADLOCK FALSE
