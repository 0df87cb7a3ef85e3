\* one address, two handlers at a time, two codes
SPECIFICATION Spec
CONSTANTS
    a = a
    h = h
    p = p
    q = q
    s1 = s1
    s2 = s2
    None = None
    Emails = {a}
    Passwords = {p, q}
    Hosts = {h}
    Slots = {s1, s2}
    MaxMistakes = 1
    MaxFailed = 2
    MaxCodes = 2
    MaxVersion = 2
INVARIANTS TypeOK VerifiedSessions
PROPERTIES PasswordNeedsFreshCode ImplementsVersions
SYMMETRY Symmetry
CHECK_DEADLOCK FALSE
