CONSTANTS
    Keys <- MCKeys
    Values <- MCValues
    BucketSize <- MCBucketSize
    MaxDepth <- MCMaxDepth

SPECIFICATION Spec

INVARIANT TypeOK
INVARIANT DirectoryConsistent
INVARIANT NumBucketsCountsReachable

 
PROPERTY InsertTerminates
