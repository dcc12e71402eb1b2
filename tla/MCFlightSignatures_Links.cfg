SPECIFICATION Spec
CONSTANTS
    Sigs = {s1}
    NoSig = NoSig
    Contents = {a, b}
    NoHash = NoHash
    Requests = {r1, r2}
    Quota = 2
    CountFails = TRUE
    MaxLinks = 2
SYMMETRY Symmetry
INVARIANT NewestLink
