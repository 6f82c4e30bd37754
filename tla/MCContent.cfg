SPECIFICATION ContentSpec
CONSTANTS
    Pages = {p, q}
    Texts = {"a", "b"}
    MaxEdits = 2
    MaxRuns = 4
    Rows = {row1, row2}
    Requests = {r1, r2}
    Names <- SomeNames
    Slug <- SlugOf
    Entities = {"post", "page", "category"}
    MaxRequests = 3
    Documents <- SomeDocuments
    Limits = {1308, 12000}
    Tables <- SomeTables
    Queries <- SomeQueries
    Sizes = {1, 2, 3}
    Characters <- SomeCharacters
    Nodes <- SomeNodes
    Height <- HeightOf
    MaxHeight = 3
SYMMETRY Symmetry
INVARIANTS
    TextKept
    NamesExplained
    OnlyBlocksSeparate PlainPiecesFound PagesCover
    ExcerptsCorrect
PROPERTY
    RecordedIsWrapped
CHECK_DEADLOCK FALSE
