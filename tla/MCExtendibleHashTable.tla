----------------------- MODULE MCExtendibleHashTable -----------------------
(* Model-checking instance of ExtendibleHashTable.  With one pair per      *)
(* bucket, keys 0, 4 and 8 agree on their low two bits (0 and 8 on three), *)
(* so inserting them cascades splits and doubles the directory up to      *)
(* depth 4; keys 1 and 3 then force splits of a bucket below the global   *)
(* depth (no doubling).  Keys below 16 are told apart by 4 bits, so        *)
(* MaxDepth = 4 never blocks a split the code would make.                  *)
EXTENDS ExtendibleHashTable

MCKeys == {0, 1, 3, 4, 8}
MCValues == {1, 2}
MCBucketSize == 1
MCMaxDepth == 4
=============================================================================
