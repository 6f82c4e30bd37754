SPECIFICATION Spec
CONSTANTS
    Users = {u1, u2}
    Emails = {"admin", "other", "new"}
    AdminEmail = "admin"
    Requests = {r1, r2}
    Bodies <- SomeBodies
    MaxRequests = 6
INVARIANTS SuperAdminsSeeded EmailsUnique
PROPERTY SuperAdminAtMostEmptied
SYMMETRY Symmetry
CHECK_DEADLOCK FALSE
