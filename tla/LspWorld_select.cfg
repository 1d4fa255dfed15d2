SPECIFICATION Spec
CONSTANTS
    d1 = d1
    d2 = d2
    outer = outer
    inner = inner
    detached = detached
    Docs <- OneDoc
    Folders <- OneFolder
    InitialFolders <- OneFolder
    Detached <- detached
    PrefixFolders <- PrefixOne
    Traffic = {"open", "change", "associate"}
    Texts = {"none"}
    Filters <- AllIncluded
    SchemaOutcomes = {"validated"}
    MaxMessages = 4
INVARIANTS
    LockNeverStuck
