------------------------------- MODULE HashMap -------------------------------
(***************************************************************************)
(* What the extendible hash table promises its callers (spec.md 4.2): a   *)
(* finite map from keys to values.  Insert overwrites the value of a key  *)
(* already present, Remove deletes it; Find reads the map.                *)
(*                                                                         *)
(* call is the Insert that has been invoked and has not returned yet (or  *)
(* NoCall): the map changes once, when it returns, and nothing else       *)
(* happens to the map while it runs.  ExtendibleHashTable is checked to   *)
(* implement this module.                                                 *)
(***************************************************************************)
EXTENDS Functions, TLC

CONSTANTS Keys, Values, NoCall

VARIABLES map, call

vars == <<map, call>>

(* The map operations, also the page table the buffer pool model uses     *)
(* when it abstracts from the hash table.                                 *)
EmptyMap == [k \in {} |-> CHOOSE v \in Values : TRUE]

Put(m, k, v) == (k :> v) @@ m

Erase(m, k) == Restrict(m, DOMAIN m \ {k})

Init ==
    /\ map = EmptyMap
    /\ call = NoCall

InvokeInsert(k, v) ==
    /\ call = NoCall
    /\ call' = [key |-> k, value |-> v]
    /\ UNCHANGED map

ReturnInsert ==
    /\ call # NoCall
    /\ map' = Put(map, call.key, call.value)
    /\ call' = NoCall

Remove(k) ==
    /\ call = NoCall
    /\ map' = Erase(map, k)
    /\ UNCHANGED call

Next ==
    \/ \E k \in Keys, v \in Values : InvokeInsert(k, v)
    \/ ReturnInsert
    \/ \E k \in Keys : Remove(k)

Spec == Init /\ [][Next]_vars

=============================================================================
