CONSTANTS
    c1 = c1  c2 = c2
    w1 = w1  w2 = w2
    a = a  b = b  x = x
    idA = idA  idB = idB
    u1 = u1  u2 = u2  f1 = f1
    ad = ad
    Clicks = {c1, c2}
    Workspaces = {w1}
    WorkspaceOf <- SharedWorkspaceOf
    Instances = {a, b}
    GatewayId <- MCGatewayId
    NoId = NoId
    Urls = {u1, u2, f1}
    Nobody = Nobody
    BlackHole = BlackHole
    NoFront = NoFront
    Farm <- SharedFarm
    NoDomain = NoDomain
    IdentityDomain <- MixedDomain
    Realm = NoDomain
    ClientTimeout = TRUE
    Routes <- AnyRoutes
    MaxGen = 2
    MaxMoves = 1
    EpsInv = 1000
SPECIFICATION Spec
INVARIANTS
    DeliveredIsServed
    PlayerReachesItsInstance
    NoForeignSession
    PasswordNotOlderThanTarget
    ServerSideOnly
CHECK_DEADLOCK FALSE
