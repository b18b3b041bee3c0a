------------------------- MODULE ExtendibleHashTable -------------------------
(***************************************************************************)
(* The extendible hash table (src/unnamed/part_000 lines 165-382, class   *)
(* in src/include/buffer/lru_k_replacer.h lines 38-128), instantiated as   *)
(* in the buffer pool with int keys.  std::hash<int> is the identity, so  *)
(* the directory index of key k is its low global_depth_ bits.            *)
(*                                                                         *)
(* The table's state is one record with the fields of the C++ object:     *)
(* dir (slot -> bucket id), buckets (bucket id -> [items, local_depth]),   *)
(* global_depth and num_buckets.  A bucket pointer is an id, handed out   *)
(* in allocation order (0 for the bucket the constructor makes).           *)
(* Bucket::kv_pairs_ never holds a key twice (Bucket::Insert overwrites),  *)
(* so it is a function from the stored keys to their values.              *)
(*                                                                         *)
(* Every method is an operator from a table to a table, so that the buffer *)
(* pool can call them inside its own steps (BufferPoolManager's page       *)
(* table).  Every public method holds latch_ for its whole body.  In the   *)
(* standalone specification at the end, Insert's retry loop is split into  *)
(* its iterations, with pending holding the Insert in progress; no other   *)
(* call can run while pending is set, as none could take the latch.       *)
(***************************************************************************)
EXTENDS Integers, FiniteSets, Functions, TLC

CONSTANTS
    Keys,          \* the int keys callers use
    Values,        \* the values callers store
    BucketSize,    \* bucket_size_
    MaxDepth       \* bound on global_depth_: a split never doubles past it

ASSUME Keys \subseteq Int /\ Keys # {}
ASSUME BucketSize \in Nat \ {0}
ASSUME MaxDepth \in Nat

NoInsert == [key |-> -1, value |-> -1]

Pow2(n) == 2 ^ n

(* Bit b of index i ((i & (1 << b)) != 0).                                  *)
BitSet(i, b) == (i \div Pow2(b)) % 2 = 1

(* Bucket(max_size, local_depth): an empty bucket.                         *)
NewBucket(depth) == [items |-> [k \in {} |-> 0], local_depth |-> depth]

(* The constructor: one empty bucket at depth 0, one directory slot.       *)
NewTable ==
    [dir |-> [i \in {0} |-> 0], buckets |-> [b \in {0} |-> NewBucket(0)],
     global_depth |-> 0, num_buckets |-> 1]

(* IndexOf: std::hash<int>()(key) & ((1 << global_depth_) - 1).  For a     *)
(* negative key the size_t hash has all high bits set, which % agrees     *)
(* with (TLA+'s % is never negative).                                     *)
IndexOf(t, key) == key % Pow2(t.global_depth)

(* The bucket dir_[IndexOf(key)] a key is looked up in.                   *)
BucketOf(t, key) == t.dir[IndexOf(t, key)]

(* Bucket::IsFull: kv_pairs_.size() >= max_size_.                          *)
IsFull(t, b) == Cardinality(DOMAIN t.buckets[b].items) >= BucketSize

(* GetLocalDepthInternal(dir_index): the local depth of a slot's bucket.   *)
GetLocalDepth(t, i) == t.buckets[t.dir[i]].local_depth

(* ExtendibleHashTable::Find: Bucket::Find in the bucket the key indexes.  *)
Found(t, key) == key \in DOMAIN t.buckets[BucketOf(t, key)].items

FindValue(t, key) == t.buckets[BucketOf(t, key)].items[key]

(* The map the table shows its callers through Find.                       *)
FindMap(t) == [k \in {key \in Keys : Found(t, key)} |-> FindValue(t, k)]

(* ExtendibleHashTable::Remove: Bucket::Remove in the indexed bucket; no   *)
(* bucket is ever merged.                                                  *)
RemoveOp(t, key) ==
    [t EXCEPT !.buckets[BucketOf(t, key)].items = Restrict(@, DOMAIN @ \ {key})]

-----------------------------------------------------------------------------
(* Mutant of BucketHasRoom: IsFull tests size > max_size_.                *)
BucketHasRoomOffByOne(t, b, key) ==
    \/ key \in DOMAIN t.buckets[b].items
    \/ Cardinality(DOMAIN t.buckets[b].items) <= BucketSize

(* Bucket::Insert fails only when the key is absent and the bucket is full.*)
BucketHasRoom(t, b, key) ==
    \/ key \in DOMAIN t.buckets[b].items
    \/ ~IsFull(t, b)

(* Bucket::Insert when it succeeds: overwrite, or append the pair.         *)
BucketInsert(t, b, key, value) ==
    [t EXCEPT !.buckets[b].items = (key :> value) @@ @]

(* Mutant of Repoint: the split bit is new_local_depth, not              *)
(* new_local_depth - 1.                                                    *)
RepointHighBit(d, b, sibling, bit) ==
    [i \in DOMAIN d |-> IF d[i] = b /\ BitSet(i, bit + 1) THEN sibling ELSE d[i]]

(* Mutant of Repoint: the dir_[i] == bucket test is dropped.               *)
RepointAllSlots(d, b, sibling, bit) ==
    [i \in DOMAIN d |-> IF BitSet(i, bit) THEN sibling ELSE d[i]]

(* Step 4 of SplitBucket: the slots of b whose split bit is set now point  *)
(* to the sibling.                                                         *)
Repoint(d, b, sibling, bit) ==
    [i \in DOMAIN d |-> IF d[i] = b /\ BitSet(i, bit) THEN sibling ELSE d[i]]

(* Mutant of Moved: the target index is computed with the global depth     *)
(* of t, from before the directory doubled.                                *)
MovedStaleDepth(t, items, d, gd, sibling) ==
    {k \in DOMAIN items : d[k % Pow2(t.global_depth)] = sibling}

(* Mutant of Moved: step 5 (the rehash) is left out.                       *)
MovedNone(t, items, d, gd, sibling) == {}

(* Step 5 of SplitBucket: the pairs whose IndexOf, under the new global    *)
(* depth gd, reaches a slot that now points to the sibling.                *)
Moved(t, items, d, gd, sibling) ==
    {k \in DOMAIN items : d[k % Pow2(gd)] = sibling}

(* A split of b is within the bound MaxDepth.                              *)
CanSplit(t, b) ==
    t.buckets[b].local_depth = t.global_depth => t.global_depth < MaxDepth

(* ExtendibleHashTable::SplitBucket(b): double the directory if b is at    *)
(* global depth, deepen b, allocate its sibling (num_buckets_++), repoint  *)
(* the slots and rehash the pairs of b.                                    *)
SplitBucket(t, b) ==
    LET doubles  == t.buckets[b].local_depth = t.global_depth
        gd       == IF doubles THEN t.global_depth + 1 ELSE t.global_depth
        dir1     == IF doubles
                    THEN [i \in 0 .. 2 * Pow2(t.global_depth) - 1 |->
                             t.dir[i % Pow2(t.global_depth)]]
                    ELSE t.dir
        depth    == t.buckets[b].local_depth + 1
        sibling  == Cardinality(DOMAIN t.buckets)
        dir2     == Repoint(dir1, b, sibling, depth - 1)
        items    == t.buckets[b].items
        moved    == Moved(t, items, dir2, gd, sibling)
    IN [dir          |-> dir2,
        global_depth |-> gd,
        num_buckets  |-> t.num_buckets + 1,
        buckets      |-> (sibling :> [items |-> Restrict(items, moved),
                                      local_depth |-> depth])
                         @@ [t.buckets EXCEPT
                               ![b] = [items |-> Restrict(items, DOMAIN items \ moved),
                                       local_depth |-> depth]]]

(* ExtendibleHashTable::Insert run to completion: try the indexed bucket,  *)
(* else split it and retry.  For distinct keys told apart by their low     *)
(* MaxDepth bits the loop ends before the bound; the last branch (the code *)
(* would loop on) is then unreachable.                                     *)
RECURSIVE InsertOp(_, _, _)
InsertOp(t, key, value) ==
    LET b == BucketOf(t, key)
    IN IF BucketHasRoom(t, b, key) THEN BucketInsert(t, b, key, value)
       ELSE IF CanSplit(t, b) THEN InsertOp(SplitBucket(t, b), key, value)
       ELSE t

-----------------------------------------------------------------------------
(***************************************************************************)
(* Standalone specification: any caller, any order of calls.              *)
(***************************************************************************)
VARIABLES
    table,         \* the ExtendibleHashTable object
    pending        \* the Insert whose loop is running, or NoInsert

vars == <<table, pending>>

Init ==
    /\ table = NewTable
    /\ pending = NoInsert

(* ExtendibleHashTable::Insert is called: the latch is taken and the       *)
(* retry loop starts.                                                      *)
Insert(key, value) ==
    /\ pending = NoInsert
    /\ pending' = [key |-> key, value |-> value]
    /\ UNCHANGED table

(* A loop iteration in which Bucket::Insert succeeds and the loop breaks.  *)
InsertIntoBucket ==
    LET b == BucketOf(table, pending.key)
    IN /\ pending # NoInsert
       /\ BucketHasRoom(table, b, pending.key)
       /\ table' = BucketInsert(table, b, pending.key, pending.value)
       /\ pending' = NoInsert

(* A loop iteration in which Bucket::Insert fails and the bucket is split. *)
InsertSplit ==
    LET b == BucketOf(table, pending.key)
    IN /\ pending # NoInsert
       /\ ~BucketHasRoom(table, b, pending.key)
       /\ CanSplit(table, b)
       /\ table' = SplitBucket(table, b)
       /\ UNCHANGED pending

Remove(key) ==
    /\ pending = NoInsert
    /\ table' = RemoveOp(table, key)
    /\ UNCHANGED pending

(* The public methods that change the table: Insert (one loop iteration   *)
(* per step while pending) and Remove; Find and the getters only read.    *)
Next ==
    \/ \E k \in Keys, v \in Values : Insert(k, v)
    \/ InsertIntoBucket
    \/ InsertSplit
    \/ \E k \in Keys : Remove(k)

(* The thread running Insert holds the latch and keeps running the loop.   *)
Spec == Init /\ [][Next]_vars /\ WF_vars(InsertIntoBucket \/ InsertSplit)

-----------------------------------------------------------------------------
(* The members of class Bucket: kv_pairs_ (at most max_size_ = bucket_size_ *)
(* pairs, keys distinct) and local_depth_.                                 *)
IsBucket(bk) ==
    /\ DOMAIN bk.items \subseteq Keys
    /\ \A k \in DOMAIN bk.items : bk.items[k] \in Values
    /\ Cardinality(DOMAIN bk.items) <= BucketSize
    /\ bk.local_depth \in Nat

(* The members of ExtendibleHashTable: dir_ with 2^global_depth_ slots,    *)
(* each pointing at an allocated bucket, global_depth_, num_buckets_.      *)
IsTable(t) ==
    /\ t.global_depth \in 0 .. MaxDepth
    /\ DOMAIN t.dir = 0 .. Pow2(t.global_depth) - 1
    /\ \A i \in DOMAIN t.dir : t.dir[i] \in DOMAIN t.buckets
    /\ \A b \in DOMAIN t.buckets : IsBucket(t.buckets[b])
    /\ t.num_buckets \in Nat

(* The shape of a table, and no bucket deeper than the directory.          *)
TableOK(t) ==
    /\ IsTable(t)
    /\ \A b \in DOMAIN t.buckets : t.buckets[b].local_depth <= t.global_depth

TypeOK ==
    /\ TableOK(table)
    /\ pending \in [key : Keys, value : Values] \cup {NoInsert}

(* spec.md section 3, invariant 5, in its complete form: two directory     *)
(* slots share a bucket exactly when they agree on that bucket's low       *)
(* local_depth bits.  SplitBucket's doubling, repointing by the split bit  *)
(* and local-depth increments must together keep this after every split,   *)
(* including splits of a bucket below the global depth.                    *)
DirConsistent(t) ==
    \A i, j \in DOMAIN t.dir :
        (t.dir[i] = t.dir[j])
            <=> (i % Pow2(GetLocalDepth(t, i)) = j % Pow2(GetLocalDepth(t, i)))

DirectoryConsistent == DirConsistent(table)

(* spec.md section 3, invariant 6: num_buckets_, counted separately by     *)
(* SplitBucket, equals the number of distinct buckets the directory        *)
(* reaches, and every bucket ever allocated is still reachable (else the   *)
(* destructor's deduplicated delete would leak it).                        *)
BucketsCounted(t) ==
    t.num_buckets = Cardinality(Range(t.dir)) /\ Range(t.dir) = DOMAIN t.buckets

NumBucketsCountsReachable == BucketsCounted(table)

(* The table implements HashMap: seen through Find, every Insert, split    *)
(* and Remove is either a step of the abstract map or leaves it alone.     *)
Abstract == INSTANCE HashMap WITH map <- FindMap(table), call <- pending,
                                  NoCall <- NoInsert

InsertTerminates == pending # NoInsert ~> pending = NoInsert

=============================================================================
