SPECIFICATION Spec
CONSTANTS
    Token <- MCToken
    Decimal <- MCDecimal
    Targets <- MCTargets
    ProtoSize = 4
    AuthorizationSize = 5
    HostnameSize = 4
    PathSize = 5
    Addresses <- MCAddresses
    Clients = {c1}
    Servers = {s1}
    Other = other
    Fds = {0, 1, 2}
INVARIANTS
    TypeOK
    SplitsBack
    HeldIsOwn
    LostByReopening
PROPERTIES
    ClosesOwn
