\* Three requests of one user share a limit of two in four ticks.
SPECIFICATION FairSpec
CONSTANTS
    Requests = {r1, r2, r3}
    Limit = 2
    Window = 4
INVARIANTS
    KeysExpire
PROPERTIES
    RefusalsEnd
    ImplementsQuota
