SPECIFICATION Spec
CONSTANTS
    Posts = {"p"}
    Users = {"ann", "zoe"}
    Topics = {"t"}
    Assigned <- OneAssigned
    Requests = {"r1", "r2"}
    Creations <- SomeCreations
    Changes <- SomeChanges
    MaxRequests = 4
INVARIANTS PublicOnlyOnceApproved ListedIsFound
PROPERTY OutOfTurnOnlyIfOvertaken
CHECK_DEADLOCK FALSE
