SPECIFICATION FairSpec
CONSTANTS
    taplo = taplo
    Urls <- OneUrl
    CallKinds = {"validate", "load"}
    Outcomes = {"ok", "failed"}
    CachePaths = {TRUE, FALSE}
    MemoryTime = 1
    DiskTime = 1
    MaxSchemas = 1
    MaxValidators = 1
    MaxPermits = 1
    MaxActive = 2
    MaxCalls = 3
    MaxTime = 2
    MaxVersion = 2
    MaxRestarts = 1

    
    
PROPERTIES
    EveryCallAnswered
