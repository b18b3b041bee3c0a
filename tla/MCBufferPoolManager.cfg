CONSTANTS
    c1 = c1
    c2 = c2
    Clients <- MCClients
    PoolSize <- MCPoolSize
    K <- MCK
    MaxPageId <- MCMaxPageId
    MaxTimestamp <- MCMaxTimestamp
    Data <- MCData
    Zero <- MCZero
    PTNew <- MCPTNew
    PTFindMap <- MCPTFindMap
    PTInsert <- MCPTInsert
    PTRemove <- MCPTRemove
    FetchIds <- MCFetchAllocated

SPECIFICATION Spec

SYMMETRY ClientSymmetry

INVARIANT TypeOK
INVARIANT FramesMatchPageTable
INVARIANT ReplacerTracksPins
INVARIANT HandlesStayValid
INVARIANT NoLostWrite
