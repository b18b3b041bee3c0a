CONSTANTS
    c1 = c1
    c2 = c2
    Clients <- MCOneClient
    PoolSize <- MCPoolSize3
    K <- MCK
    MaxPageId <- MCMaxPageId4
    MaxTimestamp <- MCMaxTimestamp5
    Data <- MCData2
    Zero <- MCZero
    PTNew <- MCPTNew
    PTFindMap <- MCPTFindMap
    PTInsert <- MCPTInsert
    PTRemove <- MCPTRemove
    FetchIds <- MCFetchAllocated

SPECIFICATION Spec


INVARIANT HandlesStayValid
INVARIANT NoLostWrite
