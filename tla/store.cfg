\* Three threads on two keys; liveness, hence no symmetry.
CONSTANTS
    None = None
    Threads = {t1, t2, t3}
    Strings = {k1, k2}
    Payloads = {p1}
SPECIFICATION FairSpec
INVARIANT FoundIsCurrent
PROPERTIES
    ImplementsTokenStore
    CallsDrain
