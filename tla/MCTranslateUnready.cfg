CONSTANTS
    r1 = r1  r2 = r2
    k1 = k1  k2 = k2  k3 = k3  k4 = k4
    Runs = {r1}
    NoPrompt = NoPrompt
    Keys = {k1, k2, k3, k4}
    Listings <- MCListings
    PageSize = 2
    MaxEdits = 0
SPECIFICATION Spec
INVARIANT BatchIsReady
CHECK_DEADLOCK FALSE
