\* Two processes compete for one address; files of every kind.
SPECIFICATION FairSpec

CONSTANTS
    None = None
    Tokens <- MCTokens
    normal <- MCNormal
    Special <- MCSpecial
    Schemes = {"urn:"}
    KeyBytes = 2
    Leeway = 0
    KeyPaths = {"key.pem"}
    s1 = s1
    s2 = s2
    k1 = k1
    k2 = k2
    Servers = {s1, s2}
    HostOf <- OneHost
    ConfigFiles <- StartFiles
    SigningKeys = {k1}
    RelyingParties = {}
    MaxKills = 1

INVARIANTS
    TypeOK
    KeyFollowsText
    IssuerExact
    EndpointsServed

PROPERTY
    ServiceRecovers
