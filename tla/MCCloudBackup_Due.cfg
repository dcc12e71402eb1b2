SPECIFICATION FairSpec
CONSTANTS
    Dests = {d1, d2}
    Requests = {}
    Scheduled = scheduled
    Payloads = {x}
    NoPayload = NoPayload
    NoDest = NoDest
    Retention = 1
    FailureLimit = 3
    MaxDay = 1
    MaxEdits = 3
    MaxDbErrors = 1
    MaxObjects = 1
PROPERTY DueIsServed
CHECK_DEADLOCK FALSE
