\* Two requests at a time in one process; restarts; two texts per code.
SPECIFICATION FairSpec
CONSTANTS
    None = None
    Canonical = Canonical
    other = other
    s1 = s1
    s2 = s2
    w1 = w1
    w2 = w2
    j1 = j1
    j2 = j2
    S256 <- Sha
    Leeway = 0
    Servers <- OneServer
    Workers <- TwoWorkers
    Home <- AllHomeS1
    Configs <- BaseOrHugeTtl
    AuthorizeRequests <- AuthWebOnly
    TokenRequests <- TokenWebOrWrong
    Spellings <- TwoSpellings
    UnparsableUris <- BadUris
    Jtis <- TwoJtis
    MaxSystemTime = 6
    MaxTime = 0
    MaxEpoch = 1
    MaxCodes = 1
INVARIANTS
    TypeOK
    RedeemedOncePerProcess
    ReturnedTokensKnown
PROPERTIES
    BurnedForGood
    RefusalsBurnNothing
    ImplementsOneTimeGrant
    RequestsDrain
