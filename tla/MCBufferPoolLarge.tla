------------------------ MODULE MCBufferPoolLarge ------------------------
(* The configuration of spec.md's end-to-end scenarios: three frames and   *)
(* LRU-2, over four page ids, so the pool fills with three unpinned pages  *)
(* and New/Fetch must choose a victim among three (scenario 1, "basic      *)
(* churn": the once-accessed, earliest page goes).  One client and two     *)
(* data values keep the space small; the clock bound 5 lets three loads,   *)
(* a hit and a fourth load happen.                                         *)
EXTENDS MCBufferPoolManager

MCOneClient == {c1}
MCPoolSize3 == 3
MCMaxPageId4 == 4
MCMaxTimestamp5 == 5
MCData2 == {0, 1}
=============================================================================
