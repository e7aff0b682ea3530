SPECIFICATION Spec

CONSTANTS
    None = None
    Tokens <- MCTokens
    normal <- MCNormal
    Special <- MCSpecial
    Schemes = {"urn:"}
    KeyBytes = 2
    Leeway = 0
    KeyPaths = {"key.pem"}
    s1 = s1
    s2 = s2
    k1 = k1
    k2 = k2
    Servers = {s1, s2}
    HostOf <- OwnHosts
    ConfigFiles <- ReplicaFiles
    SigningKeys = {k1, k2}
    RelyingParties = {"app"}
    MaxKills = 1

SYMMETRY ReplicaSymmetry

INVARIANTS
    AcceptedAcrossReplicas
