SPECIFICATION PartSpec
CONSTANTS
    HostKeys = {h1, h2}
    SessionIds = {s1, s2, s3, s4}
    MaxBindings = 3
    Clients = {c1, c2, c3}
    Limit = 2
    MaxAgents = 2
INVARIANTS
    TypeOK
    ChainConsistent
    SignedOnlyDirect
    PermitsAccountFor
PROPERTIES
    AuthenticatedFailureIsFinal
    ForwardedNeverSigns
    SilentAreLetGo
