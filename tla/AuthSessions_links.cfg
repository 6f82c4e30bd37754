\* One user from registration on: two handlers race over two links.
SPECIFICATION Spec
CONSTANTS
    u1 = u1
    Users = {u1}
    Seeded = {}
    r1 = r1
    r2 = r2
    Requests = {r1, r2}
    NoUser = NoUser
    MaxSessions = 1
    MaxConfirms = 2
    MaxHashes = 1
    MaxPasswords = 3
    MaxFailures = 1
SYMMETRY HandlerSymmetry
INVARIANTS
    ConsumedLinkSetPassword
    MailedLinkResolves
CHECK_DEADLOCK FALSE
