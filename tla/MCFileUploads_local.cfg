SPECIFICATION Spec
CONSTANTS
    Requests = {r1, r2}
    Driver = "local"
    TopicStems = {"a"}
    RandomStems = {x, y}
    Parts <- MixedParts
    Declared = {"jpg", "jpeg"}
    Kinds <- SomeKinds
    MaxParts = 2
    MaxUploads = 2
PROPERTY CorrectionKeepsServed
CHECK_DEADLOCK FALSE
