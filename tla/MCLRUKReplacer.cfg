CONSTANTS
    NumFrames <- MCNumFrames
    K <- MCK
    MaxTimestamp <- MCMaxTimestamp

SPECIFICATION Spec

INVARIANT TypeOK
INVARIANT SizeIsEvictableCount

 

CHECK_DEADLOCK FALSE
