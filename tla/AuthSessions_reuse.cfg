\* Fair handlers and no failed await: what a refresh has begun it finishes.
SPECIFICATION FairSpec
CONSTANTS
    u1 = u1
    Users = {u1}
    Seeded = {u1}
    r1 = r1
    r2 = r2
    Requests = {r1, r2}
    NoUser = NoUser
    MaxSessions = 1
    MaxConfirms = 0
    MaxHashes = 3
    MaxPasswords = 2
    MaxFailures = 0
PROPERTY
    ReuseEndsSession
CHECK_DEADLOCK FALSE
