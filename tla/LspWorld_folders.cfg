SPECIFICATION Spec
CONSTANTS
    d1 = d1
    d2 = d2
    outer = outer
    inner = inner
    detached = detached
    Docs <- NestedDoc
    Folders <- TwoFolders
    InitialFolders <- OneFolder
    Detached <- detached
    PrefixFolders <- PrefixNested
    Traffic = {"open", "change", "close", "folders", "associate", "associate_pattern"}
    Texts = {"none"}
    Filters <- MaybeIncluded
    SchemaOutcomes = {"validated", "unavailable"}
    MaxMessages = 3
PROPERTIES
    TextsNeverGoBack
CHECK_DEADLOCK FALSE
