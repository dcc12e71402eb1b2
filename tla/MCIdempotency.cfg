SPECIFICATION Spec
CONSTANTS
    Reqs = {r1, r2, r3}
    Hashes = {h1, h2}
    NoReq = NoReq
    NoHash = NoHash
    Lease = 2
    TTL = 3
    Budget = 1
    MaxTime = 4
SYMMETRY Symmetry
INVARIANTS OneAtATime NoRerun ReplayFaithful RetryVerdict
CHECK_DEADLOCK FALSE
