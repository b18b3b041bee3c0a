---------------------------- MODULE LRUKReplacer ----------------------------
(***************************************************************************)
(* The LRU-K replacer of the buffer pool (src/unnamed/part_000, lines     *)
(* 1-164; class declared in src/include/buffer/lru_k_replacer.h).         *)
(*                                                                         *)
(* The replacer's state is one record with the fields of the C++ class:   *)
(* frame_map (frame_id -> FrameInfo), current_timestamp and curr_size.    *)
(* Each public method is an operator from a replacer record to a new one, *)
(* so that the buffer pool model can chain the calls one handler makes    *)
(* (RecordAccess then SetEvictable) inside one atomic step.  The          *)
(* standalone specification at the end lets an arbitrary caller invoke    *)
(* the methods in any order, respecting the documented preconditions.     *)
(*                                                                         *)
(* Every method takes the replacer's latch_ for its whole body, so each    *)
(* call is one atomic step.                                                *)
(***************************************************************************)
EXTENDS Integers, Sequences, FiniteSets, Functions, TLC

LOCAL SX == INSTANCE SequencesExt

CONSTANTS
    NumFrames,     \* replacer_size_: frame ids are 0 .. NumFrames-1
    K,             \* k_ of LRU-K
    MaxTimestamp   \* bound on current_timestamp_ (an unbounded size_t)

ASSUME NumFrames \in Nat \ {0}
ASSUME K \in Nat \ {0}                 \* BUSTUB_ASSERT(k_ >= 1) in the ctor
ASSUME MaxTimestamp \in Nat \ {0}

Frames == 0 .. NumFrames - 1

INVALID_FRAME_ID == -1

(* std::numeric_limits<size_t>::max().  Only its order matters: it is      *)
(* larger than every finite backward distance, which never exceeds         *)
(* current_timestamp_ <= MaxTimestamp.                                     *)
SizeMax == MaxTimestamp + 1

Timestamps == 0 .. MaxTimestamp

FrameInfo == [access_timestamps : Seq(Timestamps), evictable : BOOLEAN]

NewFrameInfo == [access_timestamps |-> <<>>, evictable |-> FALSE]

(* The state a freshly constructed LRUKReplacer is in.                     *)
NewReplacer ==
    [frame_map |-> [f \in {} |-> NewFrameInfo],
     current_timestamp |-> 0,
     curr_size |-> 0]

(* frame_map_.erase(f)                                                     *)
Erase(fm, f) == Restrict(fm, DOMAIN fm \ {f})

-----------------------------------------------------------------------------
RecordAccessOp(r, f) ==
    LET info == IF f \in (DOMAIN r.frame_map) THEN r.frame_map[f]
                                            ELSE NewFrameInfo
        ts   == Append(info.access_timestamps, r.current_timestamp)
        kept == IF Len(ts) > K THEN Tail(ts) ELSE ts
    IN [r EXCEPT !.frame_map = (f :> [info EXCEPT !.access_timestamps = kept])
                                  @@ r.frame_map,
                 !.current_timestamp = @ + 1]

(* Mutant of SetEvictableOp: the "state unchanged" early return dropped.  *)
SetEvictableOpAlwaysCounts(r, f, set_evictable) ==
    IF f \notin (DOMAIN r.frame_map)
    THEN r
    ELSE [r EXCEPT !.frame_map[f].evictable = set_evictable,
                   !.curr_size = IF set_evictable THEN @ + 1 ELSE @ - 1]

(* LRUKReplacer::SetEvictable: a no-op for an unknown frame or when the    *)
(* flag does not change; otherwise curr_size_ follows the flag.           *)
SetEvictableOp(r, f, set_evictable) ==
    IF f \notin (DOMAIN r.frame_map)
       \/ r.frame_map[f].evictable = set_evictable
    THEN r
    ELSE [r EXCEPT !.frame_map[f].evictable = set_evictable,
                   !.curr_size = IF set_evictable THEN @ + 1 ELSE @ - 1]

(* BUSTUB_ASSERT(frame_info.evictable) in LRUKReplacer::Remove: removing a *)
(* known, non-evictable frame aborts the process.                          *)
RemoveAllowed(r, f) ==
    f \in DOMAIN r.frame_map => r.frame_map[f].evictable

(* Mutant of RemoveOp: curr_size_ is not decremented.                     *)
RemoveOpKeepsSize(r, f) ==
    IF f \notin (DOMAIN r.frame_map)
    THEN r
    ELSE [r EXCEPT !.frame_map = Erase(@, f)]

(* LRUKReplacer::Remove: unknown frames are ignored.                       *)
RemoveOp(r, f) ==
    IF f \notin (DOMAIN r.frame_map)
    THEN r
    ELSE [r EXCEPT !.frame_map = Erase(@, f), !.curr_size = @ - 1]

(* One iteration of the scan loop of LRUKReplacer::Evict over the record   *)
(* of frame fid.  acc holds the loop's locals victim_fid,                  *)
(* max_backward_dist and earliest_first_ts.                                *)
ScanStep(r, acc, fid) ==
    LET info == r.frame_map[fid]
        ts   == info.access_timestamps
    IN IF ~info.evictable THEN acc
       ELSE IF Len(ts) < K
            THEN \* backward distance +inf; earliest first access breaks ties
                 IF SizeMax > acc.max_backward_dist
                 THEN [victim_fid |-> fid, max_backward_dist |-> SizeMax,
                       earliest_first_ts |-> Head(ts)]
                 ELSE IF SizeMax = acc.max_backward_dist
                         /\ Head(ts) < acc.earliest_first_ts
                 THEN [acc EXCEPT !.victim_fid = fid,
                                  !.earliest_first_ts = Head(ts)]
                 ELSE acc
            ELSE LET dist == r.current_timestamp - Head(ts)
                 IN IF dist > acc.max_backward_dist
                    THEN [acc EXCEPT !.victim_fid = fid,
                                     !.max_backward_dist = dist]
                    ELSE acc

ScanInit ==
    [victim_fid |-> INVALID_FRAME_ID, max_backward_dist |-> 0,
     earliest_first_ts |-> SizeMax]

(* The victims the scan of Evict can return.  The loop walks an            *)
(* std::unordered_map, whose iteration order is unspecified, so every      *)
(* order of the records is a possible run of the loop.                     *)
EvictVictims(r) ==
    { SX!FoldLeft(LAMBDA acc, fid : ScanStep(r, acc, fid), ScanInit, order).victim_fid
        : order \in SX!SetToSeqs(DOMAIN r.frame_map) }

(* The tail of LRUKReplacer::Evict once the victim is known.               *)
EvictOp(r, victim) ==
    [r EXCEPT !.frame_map = Erase(@, victim), !.curr_size = @ - 1]

-----------------------------------------------------------------------------
(***************************************************************************)
(* Standalone specification: any caller, any order of calls.              *)
(*                                                                         *)
(* hist is a history variable: for every frame the replacer has a record  *)
(* of, every access timestamp since that record was created, never        *)
(* trimmed.  evicted is the frame the last step's Evict returned through   *)
(* *frame_id, or INVALID_FRAME_ID when the last step was not an Evict.     *)
(***************************************************************************)
VARIABLES replacer, hist, evicted

vars == <<replacer, hist, evicted>>

Init ==
    /\ replacer = NewReplacer
    /\ hist = [f \in {} |-> <<>>]
    /\ evicted = INVALID_FRAME_ID

RecordAccess(f) ==
    /\ replacer.current_timestamp < MaxTimestamp
    /\ replacer' = RecordAccessOp(replacer, f)
    /\ hist' = (f :> Append(IF f \in DOMAIN hist THEN hist[f] ELSE <<>>,
                            replacer.current_timestamp)) @@ hist
    /\ evicted' = INVALID_FRAME_ID

SetEvictable(f, b) ==
    /\ replacer' = SetEvictableOp(replacer, f, b)
    /\ evicted' = INVALID_FRAME_ID
    /\ UNCHANGED hist

(* Evict with curr_size_ = 0 returns false and changes nothing.            *)
Evict ==
    /\ replacer.curr_size # 0
    /\ \E v \in EvictVictims(replacer) :
          /\ replacer' = EvictOp(replacer, v)
          /\ hist' = Erase(hist, v)
          /\ evicted' = v

Remove(f) ==
    /\ RemoveAllowed(replacer, f)
    /\ replacer' = RemoveOp(replacer, f)
    /\ hist' = Erase(hist, f)
    /\ evicted' = INVALID_FRAME_ID

(* The public methods, on any frame id in range and in any order; Size()  *)
(* only reads curr_size_.                                                  *)
Next ==
    \/ \E f \in Frames : RecordAccess(f)
    \/ \E f \in Frames, b \in BOOLEAN : SetEvictable(f, b)
    \/ Evict
    \/ \E f \in Frames : Remove(f)

Spec == Init /\ [][Next]_vars

-----------------------------------------------------------------------------
TypeOK ==
    /\ DOMAIN replacer.frame_map \subseteq Frames
    /\ \A f \in DOMAIN replacer.frame_map : replacer.frame_map[f] \in FrameInfo
    /\ replacer.current_timestamp \in Timestamps
    /\ replacer.curr_size \in 0 .. NumFrames
    /\ evicted \in Frames \cup {INVALID_FRAME_ID}

(* curr_size_ is a counter kept beside frame_map_ by SetEvictable, Evict   *)
(* and Remove.  It must equal the number of evictable records: Evict       *)
(* trusts it (curr_size_ > 0 is taken to mean a victim exists, and the     *)
(* BUSTUB_ASSERT after the loop aborts otherwise) and Size() reports it.   *)
SizeIsEvictableCount ==
    replacer.curr_size
        = Cardinality({f \in DOMAIN replacer.frame_map :
                           replacer.frame_map[f].evictable})

(* Reference LRU-K order on the untrimmed history: the backward            *)
(* k-distance of a frame is now minus its k-th most recent access, or      *)
(* +inf with fewer than k accesses; among +inf frames the one first        *)
(* accessed earliest goes first.                                           *)
KDistance(f, now) ==
    IF Len(hist[f]) < K THEN SizeMax ELSE now - hist[f][Len(hist[f]) - K + 1]

EvictsBefore(f, g, now) ==
    \/ KDistance(f, now) > KDistance(g, now)
    \/ /\ KDistance(f, now) = KDistance(g, now)
       /\ hist[f][1] < hist[g][1]

=============================================================================
