SPECIFICATION Spec
CONSTANTS
    Tokens = {t1, t2, t3}
    SessionIds = {s1, s2}
    Procs = {p1, p2}
    NoToken = NoToken
    NoSession = NoSession
    MaxPerUser = 1
    ReuseGrace = 1
    RefreshExpiry = 3
    MaxTime = 3
SYMMETRY Symmetry
INVARIANT EndedNeverRenewed
