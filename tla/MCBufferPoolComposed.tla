----------------------- MODULE MCBufferPoolComposed -----------------------
(* The buffer pool over its real page table: the same instance as          *)
(* MCBufferPoolManager, with page_table_ the ExtendibleHashTable record    *)
(* and Find, Insert (the whole split-and-retry loop) and Remove its        *)
(* operators, called inside the pool's steps as the code calls them under *)
(* the pool latch.  With one pair per bucket two resident pages already    *)
(* force splits; page ids 0 and 2 agree on their low bit, so the directory *)
(* reaches depth 2.  Removes never merge buckets, so the table keeps the   *)
(* shape earlier evictions gave it while other pages come and go.          *)
EXTENDS MCBufferPoolManager

MCBucketSize == 1
MCMaxDepth == 2

(* Page ids below 2^MaxDepth are told apart by MaxDepth bits: no Insert   *)
(* loop of the code needs a split past the bound.                          *)
ASSUME 2 ^ MCMaxDepth >= MCMaxPageId

HT == INSTANCE ExtendibleHashTable
        WITH Keys <- PageIds, Values <- Frames, BucketSize <- MCBucketSize,
             MaxDepth <- MCMaxDepth, table <- page_table,
             pending <- [key |-> -1, value |-> -1]

MCHTNew == HT!NewTable
MCHTFindMap(t) == HT!FindMap(t)
MCHTInsert(t, p, f) == HT!InsertOp(t, p, f)
MCHTRemove(t, p) == HT!RemoveOp(t, p)

=============================================================================
