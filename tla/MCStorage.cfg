SPECIFICATION StorageSpec
CONSTANTS
    png = png
    webp = webp
    pngFile = pngFile
    pngText = pngText
    webpText = webpText
    Keys = {png, webp}
    Rows = {pngFile, pngText, webpText}
    KeyOf <- MCKeyOf
    Corrections <- MCCorrections
    FieldOf <- MCFieldOf
    Fields = 3
    MaxVersions = 2
    MaxEdits = 1
    MaxRuns = 3
    FileNames <- SomeFiles
    StoredTexts <- AllTexts
    Envs <- SomeEnvs
    MaxRewrites = 3
    N = 2
    Kinds <- ThreeKinds
    Declared = {"jpg", "text"}
    PageSize = 1
    MaxWrites = 1
    MaxScans = 2
    MaxFailures = 1
INVARIANTS
    TypesOK ReferencesResolve RerunCompletes LostOnlyIfExposed
    TextsRepaired KeyOfName RefersAsApp
    CleanExitLeavesNoLie
PROPERTIES
    Idempotent OnlyLiesChange
CHECK_DEADLOCK FALSE
