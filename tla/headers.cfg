\* Short texts, and the texts of certificates.
CONSTANTS
    None = None
    Chars <- MCChars
    upper <- MCupper
    Headers <- MCHeaders
    dn_attribute <- MCAttribute
    Keys <- MCKeys
    Values <- MCValues
    MaxRdns = 2
SPECIFICATION HeaderSpec
INVARIANTS
    CutsExact
    SubjectExact
    SubjectFromCertificate
    SubjectIdentifiesValue
CHECK_DEADLOCK FALSE
