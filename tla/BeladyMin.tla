------------------------------ MODULE BeladyMin ------------------------------
(***************************************************************************)
(* Belady's MIN as internal/belady/min.go computes it: one pass over the   *)
(* trace that keeps, for every resident object, the index of its next      *)
(* request, and evicts the one needed furthest away. The heap is not       *)
(* updated in place: an entry whose object has been requested or evicted   *)
(* since is stale and skipped when it is popped.                           *)
(*                                                                         *)
(* The heap is the set of its entries: the same (object, next use) pair is *)
(* pushed once, since no two requests for an object have the same          *)
(* successor. Objects have one size, and indices start at 1.               *)
(***************************************************************************)
EXTENDS Integers, Sequences, FiniteSets

VARIABLES
    scored,     \* the trace MIN runs over
    from,       \* requests before this many are simulated and not counted
    capacity,   \* objects MIN may hold
    at,         \* the request MIN is at
    resident,   \* object -> the next use it is keyed on
    heap,       \* entries <<object, next use>>, some of them stale
    minHits     \* hits counted so far

minVars == <<scored, from, capacity, at, resident, heap, minHits>>

\* next[i]: the following request for the same object, or one past the trace.
NextUse(i) ==
    LET again == {j \in (i + 1)..Len(scored) : scored[j] = scored[i]}
    IN  IF again = {} THEN Len(scored) + 1
        ELSE CHOOSE j \in again : \A k \in again : j <= k

MinInit == scored = <<>> /\ from = 0 /\ capacity = 0 /\ at = 1 /\ resident = <<>> /\ heap = {} /\ minHits = 0

\* MINHitRatioFrom(t, c, f) is called; what it returns follows from minHits.
MinCall(t, c, f) ==
    /\ scored' = t /\ capacity' = c /\ from' = f
    /\ at' = 1 /\ resident' = <<>> /\ heap' = {} /\ minHits' = 0

\* What a Pop skips: the object was evicted, or requested since the push.
Stale(e) == e[1] \notin DOMAIN resident \/ resident[e[1]] # e[2]

Without(f, k) == [x \in DOMAIN f \ {k} |-> f[x]]
With(f, k, v) == [x \in DOMAIN f \cup {k} |-> IF x = k THEN v ELSE f[x]]

\* Mutant: the heap is ordered the other way round.
EvictNearest(key) ==
    LET current == {e \in heap : ~Stale(e)}
    IN  \E e \in {x \in current : \A f \in current : f[2] >= x[2]} :
           /\ resident' = With(Without(resident, e[1]), key, NextUse(at))
           /\ heap' = (heap \ {e}) \cup {<<key, NextUse(at)>>}

\* evictFurthest: pop until an entry is current, and drop its object. Entries of
\* equal next use come off in any order. A heap of stale entries evicts nothing.
EvictFurthest(key) ==
    LET current == {e \in heap : ~Stale(e)}
        victims == {e \in current : \A f \in current : f[2] <= e[2]}
        keep(e) == {f \in heap : f[2] <= e[2]} \ {e}
    IN  IF current = {}
        THEN resident' = With(resident, key, NextUse(at)) /\ heap' = {<<key, NextUse(at)>>}
        ELSE \E e \in victims :
                /\ resident' = With(Without(resident, e[1]), key, NextUse(at))
                /\ heap' = keep(e) \cup {<<key, NextUse(at)>>}

\* Mutant: a hit updates the map and pushes no new entry.
MinStepNoPush ==
    LET key == scored[at]
    IN  /\ at <= Len(scored)
        /\ IF key \in DOMAIN resident
           THEN /\ resident' = With(resident, key, NextUse(at)) /\ UNCHANGED heap
                /\ minHits' = minHits + (IF at > from THEN 1 ELSE 0)
           ELSE /\ IF Cardinality(DOMAIN resident) >= capacity
                   THEN EvictFurthest(key)
                   ELSE /\ resident' = With(resident, key, NextUse(at))
                        /\ heap' = heap \cup {<<key, NextUse(at)>>}
                /\ UNCHANGED minHits
        /\ at' = at + 1
        /\ UNCHANGED <<scored, from, capacity>>

\* One turn of the loop over the trace.
MinStep ==
    LET key == scored[at]
        put == /\ resident' = With(resident, key, NextUse(at))
               /\ heap' = heap \cup {<<key, NextUse(at)>>}
    IN  /\ at <= Len(scored)
        /\ \/ /\ key \in DOMAIN resident
              /\ put
              /\ minHits' = minHits + (IF at > from THEN 1 ELSE 0)
           \/ /\ key \notin DOMAIN resident /\ Cardinality(DOMAIN resident) < capacity
              /\ put
              /\ UNCHANGED minHits
           \/ /\ key \notin DOMAIN resident /\ Cardinality(DOMAIN resident) >= capacity
              /\ EvictFurthest(key)
              /\ UNCHANGED minHits
        /\ at' = at + 1
        /\ UNCHANGED <<scored, from, capacity>>

-----------------------------------------------------------------------------
(* Properties.                                                             *)

\* Lazy deletion never starves evictFurthest ("those are stale and skipped on
\* pop"): every resident object has its current entry in the heap, so an
\* eviction always finds a victim and MIN never holds more than its capacity,
\* which would make the ceiling too high.
HeapCoversResident ==
    /\ \A k \in DOMAIN resident : <<k, resident[k]>> \in heap
    /\ Cardinality(DOMAIN resident) <= capacity
=============================================================================
