\* protocol.rs:199 with two texts of a code, in one life of one process.
SPECIFICATION Spec
CONSTANTS
    None = None
    Canonical = Canonical
    other = other
    s1 = s1
    s2 = s2
    w1 = w1
    w2 = w2
    j1 = j1
    j2 = j2
    S256 <- Sha
    Leeway = 0
    Servers <- OneServer
    Workers <- OneWorker
    Home <- AllHomeS1
    Configs <- BaseOnly
    AuthorizeRequests <- AuthWebOnly
    TokenRequests <- TokenWebOnly
    Spellings <- TwoSpellings
    UnparsableUris <- BadUris
    Jtis <- TwoJtis
    MaxSystemTime = 6
    MaxTime = 0
    MaxEpoch = 0
    MaxCodes = 1
INVARIANT
    CodesOncePerProcess
