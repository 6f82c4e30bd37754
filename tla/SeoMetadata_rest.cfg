\* The fields that an update was not sent, under two overlapping updates.
SPECIFICATION FairSpec
CONSTANTS
    post = post
    page = page
    Materials = {post}
    metaTitle = metaTitle
    ogTitle = ogTitle
    SeoFields = {metaTitle, ogTitle}
    ogImage = ogImage
    OtherColumns = {ogImage}
    text = text
    Texts = {text}
    Null = Null
    r1 = r1
    r2 = r2
    Requests = {r1, r2}
    MaxRows = 1
    MaxEdits = 0
    MaxFailures = 0
PROPERTY
    RestLeftAsWas
CHECK_DEADLOCK FALSE
