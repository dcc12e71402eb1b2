SPECIFICATION FairSpec
CONSTANTS
    Streams = {i}
    NoStream = NoStream
    Checkers = {c1, c2}
    WarningDays = {1, 2}
    Soon = 2
    MaxDay = 3
    MaxEdits = 1
    MaxFailures = 1
INVARIANTS MailedOnce ClaimsAreMails
PROPERTIES NearestOnly EveryNoticeSent
CHECK_DEADLOCK FALSE
