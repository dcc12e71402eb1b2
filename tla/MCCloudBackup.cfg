SPECIFICATION Spec
CONSTANTS
    Dests = {d1}
    Requests = {r1}
    Scheduled = scheduled
    Payloads = {x, y}
    NoPayload = NoPayload
    NoDest = NoDest
    Retention = 1
    FailureLimit = 2
    MaxDay = 0
    MaxEdits = 3
    MaxDbErrors = 1
    MaxObjects = 1
SYMMETRY Symmetry
INVARIANTS
    OneRunPerDestination
    LocksHaveOwners
    StatusHonest
    BackedUp
CHECK_DEADLOCK FALSE
