---------------------------- MODULE BoundedStore ----------------------------
(***************************************************************************)
(* What a shard of the cache (internal/cache/shard.go) promises as long as *)
(* its policy always names a victim: it evicts a resident object only      *)
(* while an insert does not fit, one at a time, no more than that takes,   *)
(* and an insert that it has begun is stored. Which object goes is the     *)
(* policy's choice.                                                        *)
(***************************************************************************)
EXTENDS Integers, FiniteSetsExt, Functions

CONSTANTS Keys, Sizes, Capacity, None

VARIABLES
    store,     \* the sizes of the resident objects, by key
    inserting  \* the insert under way, or None

vars == <<store, inserting>>

Bytes == MapThenSumSet(LAMBDA k : store[k], DOMAIN store)
Without(k) == Restrict(store, DOMAIN store \ {k})
Fits == Bytes + inserting.size <= Capacity

Init == store = [k \in {} |-> 0] /\ inserting = None

\* A deleted object goes, and so does one that is found expired.
Drop(k) ==
    /\ inserting = None /\ k \in DOMAIN store
    /\ store' = Without(k)
    /\ UNCHANGED inserting

\* The old object under the key goes before anything is evicted.
Begin(k, size) ==
    /\ inserting = None /\ size <= Capacity
    /\ store' = Without(k)
    /\ inserting' = [key |-> k, size |-> size]

Evict(k) ==
    /\ inserting # None /\ ~Fits /\ k \in DOMAIN store
    /\ store' = Without(k)
    /\ UNCHANGED inserting

Admit ==
    /\ inserting # None /\ Fits
    /\ store' = [k \in DOMAIN store \cup {inserting.key} |->
                    IF k = inserting.key THEN inserting.size ELSE store[k]]
    /\ inserting' = None

Next ==
    \/ \E k \in Keys : Drop(k) \/ Evict(k)
    \/ \E k \in Keys, size \in Sizes : Begin(k, size)
    \/ Admit

Spec == Init /\ [][Next]_vars
=============================================================================
