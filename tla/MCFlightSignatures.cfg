SPECIFICATION Spec
CONSTANTS
    Sigs = {s1, s2}
    NoSig = NoSig
    Contents = {a, b}
    NoHash = NoHash
    Requests = {r1, r2}
    Quota = 1
    CountFails = FALSE
    MaxLinks = 1
SYMMETRY Symmetry
INVARIANTS OnePending LockSoundUnlessStale
PROPERTY LiveHistory
