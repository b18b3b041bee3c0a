-------------------------- MODULE BufferPoolManager --------------------------
(***************************************************************************)
(* BufferPoolManagerInstance                                              *)
(* (src/bustub_initial/src/buffer/buffer_pool_manager_instance.cpp)       *)
(* together with the client threads that call it.                        *)
(*                                                                         *)
(* Every public method takes the pool's latch_ for its whole body, disk    *)
(* I/O included, so each call is one atomic step.  The calls it makes on   *)
(* the replacer are the operators of LRUKReplacer, chained inside the      *)
(* step in the order the code makes them.  The page table is used through *)
(* its interface only: a map from page id to frame id, which is what       *)
(* ExtendibleHashTable is checked to implement (HashMapRefinement).        *)
(*                                                                         *)
(* Clients are threads holding Page* handles.  A handle is the pair        *)
(* <<page id, frame>>: the client knows which page it asked for and gets   *)
(* back a pointer into the frame array.  Clients obey the pin protocol:    *)
(* they write only into pages they hold, unpin each handle once, and pass  *)
(* is_dirty = TRUE when they wrote.  A write into a page takes time: it    *)
(* begins and ends in two steps, and two clients never write one page at  *)
(* once (they hold its rwlatch_).  The pool's own copy of a page to disk  *)
(* takes no page latch, so a flush that overlaps a write copies bytes     *)
(* that are partly old and partly new: a data race, whose outcome is any  *)
(* value of Data.  The disk manager is the function disk from page id to  *)
(* the contents last written there.                                       *)
(***************************************************************************)
EXTENDS Integers, Sequences, FiniteSets, Functions, TLC

CONSTANTS
    PoolSize,      \* pool_size_
    K,             \* replacer_k
    Clients,       \* threads using the pool
    MaxPageId,     \* bound on next_page_id_: pages 0 .. MaxPageId-1 exist
    MaxTimestamp,  \* bound on the replacer's clock
    Data,          \* page contents, abstracted to a few values
    Zero,          \* the contents of a page never written (and ResetMemory)
    FetchIds(_),   \* the page ids callers pass to FetchPg, given next_page_id
    PTNew,         \* the page table the constructor makes
    PTFindMap(_),  \* page id -> frame id as page_table_->Find sees it
    PTInsert(_, _, _), \* page_table_->Insert(page_id, frame_id)
    PTRemove(_, _)     \* page_table_->Remove(page_id)

ASSUME PoolSize \in Nat \ {0}
ASSUME MaxPageId \in Nat \ {0}
ASSUME Zero \in Data

Frames == 0 .. PoolSize - 1
PageIds == 0 .. MaxPageId - 1

INVALID_PAGE_ID == -1

NoWrite == -1

NoHandle == <<INVALID_PAGE_ID, -1>>

VARIABLES
    pages,         \* pages_: frame -> [page_id, pin_count, is_dirty, data]
    free_list,     \* free_list_
    page_table,    \* *page_table_, used only through PTFindMap/PTInsert/PTRemove
    replacer,      \* *replacer_, an LRUKReplacer record
    next_page_id,  \* next_page_id_
    disk,          \* page id -> contents on disk
    held,          \* client -> the handles <<page id, frame>> it holds
    wrote,         \* client -> the held pages it has written into
    writing,       \* client -> the handle it is writing into, or NoHandle
    latest         \* page id -> the contents a client last wrote (history)

(* The replacer's methods, applied to the record replacer.  Only its        *)
(* operators are used; its own history variables are not part of the pool. *)
Rep == INSTANCE LRUKReplacer WITH NumFrames <- PoolSize,
                                  hist <- [f \in {} |-> <<>>],
                                  evicted <- -1

(* The page table as its callers see it through Find.                     *)
PageTable == PTFindMap(page_table)

bpm_vars == <<pages, free_list, page_table, replacer, next_page_id, disk>>
client_vars == <<held, wrote, writing, latest>>
vars == <<bpm_vars, client_vars>>

EmptyFrame == [page_id |-> INVALID_PAGE_ID, pin_count |-> 0,
               is_dirty |-> FALSE, data |-> Zero]

(* The constructor: every frame empty and on the free list, in order.      *)
Init ==
    /\ pages = [f \in Frames |-> EmptyFrame]
    /\ free_list = [i \in 1 .. PoolSize |-> i - 1]
    /\ page_table = PTNew
    /\ replacer = Rep!NewReplacer
    /\ next_page_id = 0
    /\ disk = [p \in PageIds |-> Zero]
    /\ held = [c \in Clients |-> {}]
    /\ wrote = [c \in Clients |-> {}]
    /\ writing = [c \in Clients |-> NoHandle]
    /\ latest = [p \in PageIds |-> NoWrite]

HeldPages(c) == {h[1] : h \in held[c]}

(* DiskManager::ReadPage: the contents last written to a page id (Zero if  *)
(* never written).  The disk manager is not under src/; what it reads for *)
(* an id that is not a page (the sentinel) is left open.                  *)
ReadPage(p) == IF p \in PageIds THEN {disk[p]} ELSE Data

(* What page->GetData() yields to DiskManager::WritePage: the frame's      *)
(* contents, or, while a client is writing into the frame, anything.      *)
FrameBytes(f) ==
    IF \E c \in Clients : writing[c][2] = f THEN Data ELSE {pages[f].data}

-----------------------------------------------------------------------------
(***************************************************************************)
(* Finding a frame, as NewPgImp and FetchPgImp both do: the head of the   *)
(* free list, else a victim of Replacer::Evict, written back if dirty and *)
(* erased from the page table.  The result is the chosen frame and the    *)
(* state after the search; the empty set is the nullptr return.           *)
(***************************************************************************)
(* Mutant of EvictFrame: the victim's page id stays in the page table.     *)
EvictFrameKeepsEntry(v) ==
    LET victim == pages[v]
    IN [frame      |-> v,
        free_list  |-> free_list,
        pages      |-> [pages EXCEPT ![v].is_dirty = FALSE],
        disk       |-> IF victim.is_dirty
                       THEN [disk EXCEPT ![victim.page_id] = victim.data]
                       ELSE disk,
        page_table |-> page_table,
        replacer   |-> Rep!EvictOp(replacer, v)]

EvictFrame(v) ==
    LET victim == pages[v]
    IN [frame      |-> v,
        free_list  |-> free_list,
        pages      |-> [pages EXCEPT ![v].is_dirty = FALSE],
        disk       |-> IF victim.is_dirty
                       THEN [disk EXCEPT ![victim.page_id] = victim.data]
                       ELSE disk,
        page_table |-> PTRemove(page_table, victim.page_id),
        replacer   |-> Rep!EvictOp(replacer, v)]

AcquireFrame ==
    IF free_list # <<>>
    THEN {[frame |-> Head(free_list), free_list |-> Tail(free_list),
           pages |-> pages, disk |-> disk, page_table |-> page_table,
           replacer |-> replacer]}
    ELSE IF replacer.curr_size # 0
    THEN {EvictFrame(v) : v \in Rep!EvictVictims(replacer)}
    ELSE {}

(* Mutant of Touch: SetEvictable(frame_id, false) left out.               *)
TouchNoPin(r, f) == Rep!RecordAccessOp(r, f)

(* RecordAccess then SetEvictable(false), as every successful New/Fetch.   *)
Touch(r, f) == Rep!SetEvictableOp(Rep!RecordAccessOp(r, f), f, FALSE)

-----------------------------------------------------------------------------
(* NewPgImp: a frame, a fresh page id (AllocatePage), pinned once, clean,  *)
(* keeping the frame's old bytes; into the page table; touched.            *)
NewPg(c) ==
    /\ next_page_id < MaxPageId
    /\ replacer.current_timestamp < MaxTimestamp
    /\ IF AcquireFrame = {}
       THEN UNCHANGED vars
       ELSE \E a \in AcquireFrame :
              LET f == a.frame
                  p == next_page_id
              IN /\ pages' = [a.pages EXCEPT ![f].page_id = p,
                                             ![f].pin_count = 1,
                                             ![f].is_dirty = FALSE]
                 /\ free_list' = a.free_list
                 /\ disk' = a.disk
                 /\ page_table' = PTInsert(a.page_table, p, f)
                 /\ replacer' = Touch(a.replacer, f)
                 /\ next_page_id' = p + 1
                 /\ held' = [held EXCEPT ![c] = @ \cup {<<p, f>>}]
                 /\ UNCHANGED <<wrote, writing, latest>>

(* FetchPgImp: a resident page gets one more pin; otherwise a frame is     *)
(* found and the page read into it from disk.                              *)
FetchPg(c, p) ==
    /\ p \notin HeldPages(c)
    /\ replacer.current_timestamp < MaxTimestamp
    /\ IF p \in DOMAIN PageTable
       THEN LET f == PageTable[p]
            IN /\ pages' = [pages EXCEPT ![f].pin_count = @ + 1]
               /\ replacer' = Touch(replacer, f)
               /\ held' = [held EXCEPT ![c] = @ \cup {<<p, f>>}]
               /\ UNCHANGED <<free_list, page_table, next_page_id, disk,
                              wrote, writing, latest>>
       ELSE IF AcquireFrame = {}
       THEN UNCHANGED vars
       ELSE \E a \in AcquireFrame, d \in ReadPage(p) :
              LET f == a.frame
              IN /\ pages' = [a.pages EXCEPT ![f] = [page_id |-> p,
                                 pin_count |-> 1, is_dirty |-> FALSE,
                                 data |-> d]]
                 /\ free_list' = a.free_list
                 /\ disk' = a.disk
                 /\ page_table' = PTInsert(a.page_table, p, f)
                 /\ replacer' = Touch(a.replacer, f)
                 /\ held' = [held EXCEPT ![c] = @ \cup {<<p, f>>}]
                 /\ UNCHANGED <<next_page_id, wrote, writing, latest>>

(* A client starts writing into the frame of a handle it holds (outside   *)
(* the pool's latch: the Page* outlives the call that returned it), once  *)
(* no other client is writing that page.                                  *)
BeginWrite(c, h) ==
    /\ h \in held[c]
    /\ \A c2 \in Clients : writing[c2] # h
    /\ writing' = [writing EXCEPT ![c] = h]
    /\ wrote' = [wrote EXCEPT ![c] = @ \cup {h[1]}]
    /\ UNCHANGED <<bpm_vars, held, latest>>

(* ... and finishes: the frame holds d.                                     *)
EndWrite(c, d) ==
    /\ writing[c] # NoHandle
    /\ pages' = [pages EXCEPT ![writing[c][2]].data = d]
    /\ latest' = [latest EXCEPT ![writing[c][1]] = d]
    /\ writing' = [writing EXCEPT ![c] = NoHandle]
    /\ UNCHANGED <<free_list, page_table, replacer, next_page_id, disk,
                   held, wrote>>

(* Mutant of UnpinRefused: the pin_count_ <= 0 early return dropped.      *)
UnpinRefusedNoPinCheck(p) == p \notin DOMAIN PageTable

(* The early returns of UnpinPgImp: page not resident, or not pinned.      *)
UnpinRefused(p) ==
    p \notin DOMAIN PageTable \/ pages[PageTable[p]].pin_count <= 0

(* Mutant of DirtyAfterUnpin: is_dirty_ = is_dirty.                        *)
DirtyAfterUnpinOverwrite(was, is_dirty) == is_dirty

(* if (is_dirty) page->is_dirty_ = true: the flag is never cleared here.   *)
DirtyAfterUnpin(was, is_dirty) == was \/ is_dirty

(* Mutant of ReplacerAfterUnpin: SetEvictable(true) on every unpin.        *)
ReplacerAfterUnpinAlways(r, f, n) == Rep!SetEvictableOp(r, f, TRUE)

(* The frame becomes evictable when its pin count reaches zero.            *)
ReplacerAfterUnpin(r, f, n) ==
    IF n = 0 THEN Rep!SetEvictableOp(r, f, TRUE) ELSE r

(* UnpinPgImp, called by a client on a page it holds (dropping the handle) *)
(* or on a page no client holds (which returns false).                     *)
UnpinPg(c, p, is_dirty) ==
    /\ \/ p \in HeldPages(c)
       \/ \A c2 \in Clients : p \notin HeldPages(c2)
    /\ writing[c] = NoHandle
    /\ p \in wrote[c] => is_dirty
    /\ IF UnpinRefused(p)
       THEN UNCHANGED vars
       ELSE LET f == PageTable[p]
                n == pages[f].pin_count - 1
            IN /\ pages' = [pages EXCEPT ![f].pin_count = n,
                                         ![f].is_dirty = DirtyAfterUnpin(@, is_dirty)]
               /\ replacer' = ReplacerAfterUnpin(replacer, f, n)
               /\ held' = [held EXCEPT ![c] = {h \in @ : h[1] # p}]
               /\ wrote' = [wrote EXCEPT ![c] = @ \ {p}]
               /\ UNCHANGED <<free_list, page_table, next_page_id, disk,
                              writing, latest>>

(* FlushPgImp: write a resident page to disk and mark it clean.            *)
FlushPg(p) ==
    IF p = INVALID_PAGE_ID \/ p \notin DOMAIN PageTable
    THEN UNCHANGED vars
    ELSE LET f == PageTable[p]
         IN /\ \E d \in FrameBytes(f) : disk' = [disk EXCEPT ![p] = d]
            /\ pages' = [pages EXCEPT ![f].is_dirty = FALSE]
            /\ UNCHANGED <<free_list, page_table, replacer, next_page_id,
                           client_vars>>

(* FlushAllPgsImp: every valid dirty frame written back and cleaned.       *)
FlushAllPgs ==
    LET dirty == {f \in Frames : pages[f].page_id # INVALID_PAGE_ID
                                 /\ pages[f].is_dirty}
    IN /\ \E bytes \in [dirty -> Data] :
            /\ \A f \in dirty : bytes[f] \in FrameBytes(f)
            /\ disk' = [p \in PageIds |->
                         IF \E f \in dirty : pages[f].page_id = p
                         THEN bytes[CHOOSE f \in dirty : pages[f].page_id = p]
                         ELSE disk[p]]
       /\ pages' = [f \in Frames |->
                      IF f \in dirty THEN [pages[f] EXCEPT !.is_dirty = FALSE]
                                     ELSE pages[f]]
       /\ UNCHANGED <<free_list, page_table, replacer, next_page_id,
                      client_vars>>

(* DeletePgImp: a page that is not resident is just deallocated; a pinned  *)
(* one is refused; otherwise it is written back if dirty, dropped from the *)
(* page table and the replacer, its frame reset and appended to the free  *)
(* list.  DeallocatePage changes no state the pool keeps: page ids are     *)
(* never reused (AllocatePage only counts up).  The history forgets the    *)
(* page's contents: nothing is promised about a deleted page.              *)
DeletePg(p) ==
    IF p \notin DOMAIN PageTable
    THEN /\ latest' = [latest EXCEPT ![p] = NoWrite]
         /\ UNCHANGED <<bpm_vars, held, wrote, writing>>
    ELSE LET f == PageTable[p]
         IN IF pages[f].pin_count > 0
            THEN UNCHANGED vars
            ELSE /\ disk' = IF pages[f].is_dirty
                            THEN [disk EXCEPT ![p] = pages[f].data] ELSE disk
                 /\ page_table' = PTRemove(page_table, p)
                 /\ replacer' = Rep!RemoveOp(replacer, f)
                 /\ pages' = [pages EXCEPT ![f] = EmptyFrame]
                 /\ free_list' = Append(free_list, f)
                 /\ latest' = [latest EXCEPT ![p] = NoWrite]
                 /\ UNCHANGED <<next_page_id, held, wrote, writing>>

Next ==
    \/ \E c \in Clients : NewPg(c)
    \/ \E c \in Clients, p \in FetchIds(next_page_id) : FetchPg(c, p)
    \/ \E c \in Clients : writing[c] = NoHandle /\ \E h \in held[c] : BeginWrite(c, h)
    \/ \E c \in Clients, d \in Data \ {Zero} : EndWrite(c, d)
    \/ \E c \in Clients, p \in PageIds, d \in BOOLEAN : UnpinPg(c, p, d)
    \/ \E p \in PageIds \cup {INVALID_PAGE_ID} : FlushPg(p)
    \/ FlushAllPgs
    \/ \E p \in 0 .. next_page_id - 1 : DeletePg(p)

Spec == Init /\ [][Next]_vars

-----------------------------------------------------------------------------
Resident(f) == pages[f].page_id # INVALID_PAGE_ID

TypeOK ==
    /\ pages \in [Frames -> [page_id : PageIds \cup {INVALID_PAGE_ID},
                              pin_count : 0 .. Cardinality(Clients),
                              is_dirty : BOOLEAN, data : Data]]
    /\ free_list \in Seq(Frames)
    /\ DOMAIN PageTable \subseteq PageIds
    /\ \A p \in DOMAIN PageTable : PageTable[p] \in Frames
    /\ next_page_id \in 0 .. MaxPageId
    /\ disk \in [PageIds -> Data]
    /\ held \in [Clients -> SUBSET (PageIds \X Frames)]
    /\ wrote \in [Clients -> SUBSET PageIds]
    /\ DOMAIN writing = Clients
    /\ \A c \in Clients : writing[c] \in held[c] \cup {NoHandle}
    /\ latest \in [PageIds -> Data \cup {NoWrite}]

(* spec.md section 3, invariants 1 and 2: the page table maps exactly the  *)
(* pages held in frames, each to the frame holding it, and every frame is  *)
(* either on the free list (once, empty, unpinned, clean) or holds a page  *)
(* the table maps to it.  New, Fetch and Delete each update the frame, the *)
(* table and the free list in separate statements; an eviction also       *)
(* erases the victim's old page id.                                       *)
FramesMatchPageTable ==
    /\ \A p \in DOMAIN PageTable : pages[PageTable[p]].page_id = p
    /\ \A f \in Frames :
          Resident(f) => /\ pages[f].page_id \in DOMAIN PageTable
                         /\ PageTable[pages[f].page_id] = f
    /\ \A i \in 1 .. Len(free_list) :
          /\ pages[free_list[i]] = EmptyFrame
          /\ \A j \in 1 .. Len(free_list) : free_list[i] = free_list[j] => i = j
    /\ \A f \in Frames : f \in Range(free_list) \/ Resident(f)

(* spec.md section 3, invariants 3 and 4: the replacer has a record for    *)
(* exactly the frames holding a page, a frame is evictable exactly when   *)
(* its pin count is zero, and curr_size_ counts the evictable frames.     *)
(* Unpin sets evictable only when the count reaches zero, New and Fetch    *)
(* reset it after RecordAccess (which keeps the flag of an existing        *)
(* record), and Evict/Remove drop the record: if any of these is wrong, a  *)
(* pinned frame can be chosen as a victim or Remove aborts.                *)
ReplacerTracksPins ==
    /\ DOMAIN replacer.frame_map = {f \in Frames : Resident(f)}
    /\ \A f \in DOMAIN replacer.frame_map :
          replacer.frame_map[f].evictable <=> pages[f].pin_count = 0
    /\ Rep!SizeIsEvictableCount

(* The pin protocol (spec.md 4.3, 9): while a client holds a handle, the   *)
(* frame it points to still holds the page the client asked for, and its  *)
(* pin count is the number of clients holding it.  Breaking it takes a     *)
(* pinned frame being chosen as a victim or reset by a later call.        *)
HandlesStayValid ==
    /\ \A c \in Clients : \A h \in held[c] : pages[h[2]].page_id = h[1]
    /\ \A f \in Frames : Resident(f) =>
          pages[f].pin_count
              = Cardinality({c \in Clients : <<pages[f].page_id, f>> \in held[c]})

(* No write is lost (spec.md 8, "write-unpin(dirty)-evict triggers exactly *)
(* one disk write; a subsequent fetch reads that value"): the contents a   *)
(* client last wrote to a live page are in its frame while it is resident *)
(* and on disk once it is not; and a resident page that is clean and has   *)
(* no write pending in a client's hands is already on disk.  Eviction,     *)
(* Flush, FlushAll, Delete and the dirty flag kept by Unpin all take part. *)
NoLostWrite ==
    \A p \in PageIds : latest[p] # NoWrite =>
        IF p \in DOMAIN PageTable
        THEN LET f == PageTable[p]
             IN /\ pages[f].data = latest[p]
                /\ (~pages[f].is_dirty /\ \A c \in Clients : p \notin wrote[c])
                      => disk[p] = latest[p]
        ELSE disk[p] = latest[p]

(* spec.md 8, law 1 ("fetch-unpin-fetch of the same page returns the same  *)
(* contents without intervening disk write") and law 3 (a clean page is    *)
(* not written on eviction) together need: a resident page that is clean  *)
(* and has no write pending in a client's hands holds what is on disk, so *)
(* dropping it at eviction (line 54) loses nothing.                        *)
CleanPageMatchesDisk ==
    \A p \in DOMAIN PageTable :
        LET f == PageTable[p]
        IN (~pages[f].is_dirty /\ \A c \in Clients : p \notin wrote[c])
               => pages[f].data = disk[p]

=============================================================================
