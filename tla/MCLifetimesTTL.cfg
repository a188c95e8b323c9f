SPECIFICATION Spec
CONSTANTS
    Unset = Unset
    NotANumber = NotANumber
    NoSettings = NoSettings
    DefaultTTL = 9
    Environments <- LongEnvironments
    HostConfigs <- LongHostConfigs
    Members = 2
    Timeout = 2
    AssocLifetime = 3
    WebAppLifetime = 12
    Cap = 12
    Leeway = 3
    Skews <- SomeSkews
    MaxTime = 18
INVARIANT FailsFastNotPerLaunch
CHECK_DEADLOCK FALSE
