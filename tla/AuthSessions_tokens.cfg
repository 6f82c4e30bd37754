\* Two concurrent handlers over one user's sessions; no confirmation links.
SPECIFICATION Spec
CONSTANTS
    u1 = u1
    Users = {u1}
    Seeded = {u1}
    r1 = r1
    r2 = r2
    Requests = {r1, r2}
    NoUser = NoUser
    MaxSessions = 2
    MaxConfirms = 0
    MaxHashes = 3
    MaxPasswords = 2
    MaxFailures = 1
SYMMETRY HandlerSymmetry
INVARIANTS
    RevokedOnlyIfReused
    LiveSessionHasHolder
    OldPasswordCutOff
PROPERTY
    SessionsFollowLifecycle
CHECK_DEADLOCK FALSE
