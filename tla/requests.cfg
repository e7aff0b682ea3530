\* Every branch of the three endpoints, and two replicas.
SPECIFICATION RequestsSpec
CONSTANTS
    None = None
    Canonical = Canonical
    other = other
    s1 = s1
    s2 = s2
    w1 = w1
    w2 = w2
    j1 = j1
    j2 = j2
    S256 <- Sha
    Leeway = 0
    Servers <- TwoServers
    Workers <- TwoWorkers
    Home <- OneEach
    Configs <- BaseOrDuplicateGroup
    AuthorizeRequests <- AuthAll
    TokenRequests <- TokenAll
    Spellings <- OneSpelling
    UnparsableUris <- BadUris
    Jtis <- TwoJtis
    MaxSystemTime = 6
    MaxTime = 2
    MaxEpoch = 1
    MaxCodes = 1
SYMMETRY JtiSymmetry
INVARIANTS
    GrantsFollowCode
    GroupsExact
PROPERTY
    UserinfoExact
