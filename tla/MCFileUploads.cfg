SPECIFICATION Spec
CONSTANTS
    Requests = {r1, r2}
    Driver = "object"
    TopicStems = {"a"}
    RandomStems = {x, y}
    Parts <- MixedParts
    Declared = {"jpg", "jpeg"}
    Kinds <- SomeKinds
    MaxParts = 2
    MaxUploads = 3
INVARIANTS RowsServed TypedByBytes
PROPERTY KeepsPromise
SYMMETRY Symmetry
CHECK_DEADLOCK FALSE
