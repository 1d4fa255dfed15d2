SPECIFICATION FairSpec
CONSTANTS
    d1 = d1
    d2 = d2
    outer = outer
    inner = inner
    detached = detached
    Docs <- OneDoc
    Folders <- OneFolder
    InitialFolders <- OneFolder
    Detached <- detached
    PrefixFolders <- PrefixOne
    Traffic = {"open", "change", "close", "query", "configuration", "initialized"}
    Texts = {"syntax", "none"}
    Filters <- AllIncluded
    SchemaOutcomes = {"validated"}
    MaxMessages = 4
INVARIANTS
    TypeOK
    
    WritersAlone
    DocumentsFollowEditor
    QueriesSeeTheirText
    ClosedIsClear
PROPERTIES
    
    EveryMessageHandled
    EveryTextDiagnosed
