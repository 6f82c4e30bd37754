\* Two SEO updates and an ordinary edit overlap on two materials.
SPECIFICATION Spec
CONSTANTS
    post = post
    page = page
    Materials = {post, page}
    metaTitle = metaTitle
    ogTitle = ogTitle
    SeoFields = {metaTitle}
    ogImage = ogImage
    OtherColumns = {ogImage}
    text = text
    Texts = {text}
    Null = Null
    r1 = r1
    r2 = r2
    Requests = {r1, r2}
    MaxRows = 2
    MaxEdits = 1
    MaxFailures = 1
SYMMETRY UpdateSymmetry
INVARIANTS
    RowsNotShared
PROPERTIES
    UndisturbedLeavesRest
    AcknowledgedIsShown
CHECK_DEADLOCK FALSE
