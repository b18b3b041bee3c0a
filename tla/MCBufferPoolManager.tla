------------------------ MODULE MCBufferPoolManager ------------------------
(* Model-checking instance of BufferPoolManager: two frames and three      *)
(* pages, so that the pool fills and every further page needs an eviction; *)
(* two clients, so a page can be pinned twice and unpinned by one holder;  *)
(* LRU-2, so frames with one access and with two compete as victims; two   *)
(* written values besides Zero, so a second write is told from the first.  *)
EXTENDS BufferPoolManager

CONSTANTS c1, c2

MCClients == {c1, c2}
MCPoolSize == 2
MCK == 2
MCMaxPageId == 3
MCMaxTimestamp == 4
MCData == {0, 1, 2}
MCZero == 0

(* The page table as the map ExtendibleHashTable implements                *)
(* (HashMapRefinement).                                                    *)
LOCAL HM == INSTANCE HashMap WITH Keys <- PageIds, Values <- Frames,
                                  NoCall <- -1, map <- page_table, call <- -1

MCPTNew == HM!EmptyMap
MCPTFindMap(pt) == pt
MCPTInsert(pt, p, f) == HM!Put(pt, p, f)
MCPTRemove(pt, p) == HM!Erase(pt, p)

(* Callers fetch only the page ids NewPg has handed out.                   *)
MCFetchAllocated(n) == 0 .. n - 1

(* A caller may also pass the sentinel INVALID_PAGE_ID (an unset page id). *)
MCFetchInvalid(n) == (0 .. n - 1) \cup {INVALID_PAGE_ID}

(* Callers fetch any page id of the file, allocated by this instance or    *)
(* not: a database file reopened by a new pool, whose next_page_id_ starts *)
(* again at 0.                                                             *)
MCFetchAny(n) == PageIds

(* Clients are interchangeable threads: no action or property names one.  *)
ClientSymmetry == Permutations(MCClients)
=============================================================================
