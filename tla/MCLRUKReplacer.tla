--------------------------- MODULE MCLRUKReplacer ---------------------------
(* Model-checking instance of LRUKReplacer: three frames, LRU-2, and a     *)
(* clock of seven ticks, enough for every frame to reach k accesses and    *)
(* for +inf and finite candidates to compete in one Evict.                 *)
EXTENDS LRUKReplacer

MCNumFrames == 3
MCK == 2
MCMaxTimestamp == 7
=============================================================================
