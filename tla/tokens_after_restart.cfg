\* README.md:307 after a restart.
SPECIFICATION FairSpec
CONSTANTS
    None = None
    Canonical = Canonical
    other = other
    s1 = s1
    s2 = s2
    w1 = w1
    w2 = w2
    j1 = j1
    j2 = j2
    S256 <- Sha
    Leeway = 0
    Servers <- OneServer
    Workers <- OneWorker
    Home <- AllHomeS1
    Configs <- BaseOnly
    AuthorizeRequests <- AuthWebOnly
    TokenRequests <- TokenWebOnly
    Spellings <- OneSpelling
    UnparsableUris <- BadUris
    Jtis <- OneJti
    MaxSystemTime = 6
    MaxTime = 0
    MaxEpoch = 1
    MaxCodes = 1
PROPERTY
    TokensRemainValid
