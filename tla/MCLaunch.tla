------------------------------ MODULE MCLaunch ------------------------------
(* Instances of Launch for TLC. *)
EXTENDS Launch

CONSTANTS
    c1, c2,       \* clicks
    w1, w2,       \* workspaces
    a, b, x,      \* gateway instances; x has no id
    idA, idB,
    u1, u2, f1,   \* base URLs; f1 is the front of u1
    ad

Entry(url, front, weight) == [url |-> url, front |-> front, weight |-> weight]

MCGatewayId == [i \in Instances |-> CASE i = a -> idA [] i = b -> idB [] OTHER -> NoId]

\* The declared members are up, maybe both on one instance (a and b are alike);
\* the front leads to either, or to nobody.
AnyRoutes == {r \in [Urls -> {a, b, Nobody}] : r[u1] = a /\ r[u2] # Nobody}

\* The declared members are up; the front leads to either.
UpRoutes == {r \in [Urls -> {a, b}] : r[u1] = a /\ r[u2] = b}

\* Two clicks on one workspace with two members, one of them behind a front.
SharedWorkspaceOf == [c \in Clicks |-> w1]
SharedFarm == [w \in Workspaces |-> <<Entry(u1, f1, 1), Entry(u2, NoFront, 2)>>]

\* One user has a domain of its own, the other is on the local host.
MixedDomain == [c \in Clicks |-> IF c = c2 THEN ad ELSE NoDomain]

\* One click on a farm with a weightless member, the other on an empty farm.
OwnWorkspaceOf == [c \in Clicks |-> IF c = c1 THEN w1 ELSE w2]
MovingFarm ==
    [w \in Workspaces |->
       IF w = w1 THEN <<Entry(u1, f1, 1), Entry(u2, NoFront, 2), Entry(f1, NoFront, 0)>>
       ELSE <<>>]
=============================================================================
