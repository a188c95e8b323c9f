SPECIFICATION Spec
CONSTANTS
    Unset = Unset
    NotANumber = NotANumber
    NoSettings = NoSettings
    DefaultTTL = 9
    Environments <- ManyEnvironments
    HostConfigs <- ManyHostConfigs
    Members = 2
    Timeout = 2
    AssocLifetime = 3
    WebAppLifetime = 12
    Cap = 12
    Leeway = 3
    Skews <- SomeSkews
    MaxTime = 18
INVARIANTS
    TypeOK
    BootsExactly
    ServesAsConfigured
    AnsweredInTime
    FreshWhenSeen
    PromptPlayerServed
    DefaultOutlivesAssociation
CHECK_DEADLOCK FALSE
