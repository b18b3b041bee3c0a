CONSTANTS
    c1 = c1
    c2 = c2
    Clients <- MCClients
    PoolSize <- MCPoolSize
    K <- MCK
    MaxPageId <- MCMaxPageId
    MaxTimestamp <- MCMaxTimestamp
    Data <- MCData
    Zero <- MCZero
    PTNew <- MCHTNew
    PTFindMap <- MCHTFindMap
    PTInsert <- MCHTInsert
    PTRemove <- MCHTRemove
    FetchIds <- MCFetchAllocated

SPECIFICATION Spec

SYMMETRY ClientSymmetry

INVARIANT FramesMatchPageTable
INVARIANT NoLostWrite
