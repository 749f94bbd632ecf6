------------------------------- MODULE S3FIFO -------------------------------
(***************************************************************************)
(* One shard of the cache (internal/cache/shard.go) running the default    *)
(* policy, S3-FIFO (internal/cache/s3fifo.go).                             *)
(*                                                                         *)
(* Every operation of a shard runs under the shard's mutex, so operations  *)
(* do not interleave; an insert that has to evict is nevertheless spread   *)
(* over several actions, one per iteration of the policy's Victim loop, so *)
(* that the invariants can speak about the state between two iterations.   *)
(* pc says where the insert that holds the lock is.                        *)
(*                                                                         *)
(* Data abstraction: a key hash is a member of Keys, a value is its size,  *)
(* and time is gone: any resident entry may turn out to be past its TTL    *)
(* when it is read (GetExpired), because the TTL is the client's choice.   *)
(* Counters that only feed Stats and the trace ring are left out here.     *)
(***************************************************************************)
EXTENDS Integers, Sequences, FiniteSets, FiniteSetsExt

CONSTANTS
    Keys,          \* key hashes that map to this shard
    Sizes,         \* object sizes in bytes, some may exceed Capacity
    Capacity,      \* shard.capacity
    GhostTarget,   \* s3fifo.ghostTarget: capacity/1024, at least 16
    CompactSlack,  \* the 64 in compact
    MaxGen,        \* bound on the generation counter, for TLC
    None           \* an absent entry, or no insert in progress

\* s3fifo.smallTarget: a tenth of the capacity (smallFraction), at least 1.
SmallTarget == IF Capacity \div 10 = 0 THEN 1 ELSE Capacity \div 10

Entry == [size : Nat, freq : 0..3]
Request == [key : Keys, size : Nat]

ASSUME S3FIFOAssumption ==
    /\ IsFiniteSet(Keys)
    /\ Sizes \subseteq Nat
    /\ Capacity \in Nat \ {0}
    /\ GhostTarget \in Nat \ {0}
    /\ CompactSlack \in Nat
    /\ MaxGen \in Nat
    /\ None \notin Entry \cup Request

VARIABLES
    m,           \* shard.m: key -> entry, None when absent
    used,        \* shard.used
    small,       \* s3fifo.small, a queue of slots [key, gen]
    main,        \* s3fifo.main
    ghost,       \* s3fifo.ghost, a queue of keys
    inS,         \* generation of a key's live slot in small, 0 when absent
    inM,         \* generation of a key's live slot in main, 0 when absent
    inG,         \* keys the ghost queue remembers
    gen,         \* generation counter; push increments it before use
    smallBytes,  \* s3fifo.smallBytes
    pc,          \* "idle", "loop" (insert's eviction loop), "victim" (Victim's)
    req,         \* the insert in progress
    steps        \* Victim's remaining iterations

queues == <<small, main, ghost, inS, inM, inG, gen, smallBytes>>
vars == <<m, used, queues, pc, req, steps>>

Slot == [key : Keys, gen : Nat]

Resident == {k \in Keys : m[k] # None}
Live(in) == {k \in Keys : in[k] # 0}

-----------------------------------------------------------------------------
(* Helpers of s3fifo.go.                                                   *)

isLive(s, in) == in[s.key] = s.gen

\* The live slots of q, in queue order.
LiveSlots(q, in) ==
    LET I == {i \in 1..Len(q) : isLive(q[i], in)}
        Nth(n) == CHOOSE i \in I : Cardinality({j \in I : j <= i}) = n
    IN  [n \in 1..Cardinality(I) |-> q[Nth(n)]]

\* Mutant: stale slots are never dropped.
compactNever(q, in) == q

\* Drops the stale slots once they outnumber the live ones.
compact(q, in) ==
    IF Len(q) <= 2 * Cardinality(Live(in)) + CompactSlack THEN q
    ELSE LiveSlots(q, in)

\* The queue after push(q, live, key), where g is the fresh generation.
push(q, k, g) == Append(q, [key |-> k, gen |-> g])

\* rememberGhost appends a key and forgets from the front. The queue is never
\* more than one over its target, so the loop pops at most once. A popped key
\* is deleted from inG even when a younger ghost slot for it is still queued.
rememberGhost(k) ==
    LET g == Append(ghost, k)
    IN  IF Len(g) > GhostTarget
        THEN /\ ghost' = Tail(g)
             /\ inG' = (inG \cup {k}) \ {Head(g)}
        ELSE /\ ghost' = g
             /\ inG' = inG \cup {k}

\* Mutant: OnRemove forgets the main queue.
dropFromSmallOnly(k) ==
    /\ m' = [m EXCEPT ![k] = None]
    /\ used' = used - m[k].size
    /\ smallBytes' = IF inS[k] # 0 THEN smallBytes - m[k].size ELSE smallBytes
    /\ inS' = [inS EXCEPT ![k] = 0]
    /\ UNCHANGED inM

\* shard.drop: the map, the byte count and the policy's OnRemove. The dropped
\* slot stays queued and is stale from here on.
drop(k) ==
    /\ m' = [m EXCEPT ![k] = None]
    /\ used' = used - m[k].size
    /\ smallBytes' = IF inS[k] # 0 THEN smallBytes - m[k].size ELSE smallBytes
    /\ inS' = [inS EXCEPT ![k] = 0]
    /\ inM' = [inM EXCEPT ![k] = 0]

-----------------------------------------------------------------------------
Init ==
    /\ m = [k \in Keys |-> None]
    /\ used = 0
    /\ small = <<>> /\ main = <<>> /\ ghost = <<>>
    /\ inS = [k \in Keys |-> 0] /\ inM = [k \in Keys |-> 0] /\ inG = {}
    /\ gen = 0
    /\ smallBytes = 0
    /\ pc = "idle"
    /\ req = None
    /\ steps = 0

\* shard.get on a resident, unexpired entry: Entry.touch saturates freq at 3,
\* and S3-FIFO's OnAccess does nothing.
GetHit(k) ==
    /\ pc = "idle" /\ k \in Resident
    /\ m' = [m EXCEPT ![k].freq = IF @ < 3 THEN @ + 1 ELSE @]
    /\ UNCHANGED <<used, queues, pc, req, steps>>

\* shard.get on an absent key: only counters change.
GetMiss(k) == pc = "idle" /\ k \notin Resident /\ UNCHANGED vars

\* shard.get on an entry past its deadline.
GetExpired(k) ==
    /\ pc = "idle" /\ k \in Resident
    /\ drop(k)
    /\ UNCHANGED <<small, main, ghost, inG, gen, pc, req, steps>>

\* shard.remove.
Remove(k) ==
    /\ pc = "idle" /\ k \in Resident
    /\ drop(k)
    /\ UNCHANGED <<small, main, ghost, inG, gen, pc, req, steps>>

\* shard.insert rejects an object larger than the shard before it looks at the
\* entry under the same key, which stays.
InsertOversize(k, size) == pc = "idle" /\ size > Capacity /\ UNCHANGED vars

\* shard.insert up to its eviction loop: the entry under the same key goes first.
InsertBegin(k, size) ==
    /\ pc = "idle" /\ gen < MaxGen
    /\ size <= Capacity
    /\ req' = [key |-> k, size |-> size]
    /\ pc' = "loop"
    /\ IF k \in Resident THEN drop(k)
       ELSE UNCHANGED <<m, used, inS, inM, smallBytes>>
    /\ UNCHANGED <<small, main, ghost, inG, gen, steps>>

\* Mutant: an insert that would fill the shard exactly evicts once more.
FitsWithRoom == used + req.size < Capacity

\* The negation of the eviction loop's condition.
Fits == used + req.size <= Capacity

\* The object does not fit yet: evictOne calls Victim.
EvictOne ==
    /\ pc = "loop" /\ ~Fits
    /\ steps' = 4 * (Len(small) + Len(main)) + 8
    /\ pc' = "victim"
    /\ UNCHANGED <<m, used, queues, req>>

\* Mutant: a ghost hit leaves the key in inG.
OnAdmitKeepsGhost(k, size) ==
    /\ gen' = gen + 1
    /\ IF k \in inG
       THEN /\ inM' = [inM EXCEPT ![k] = gen']
            /\ main' = compact(push(main, k, gen'), inM')
            /\ UNCHANGED <<small, inS, inG, smallBytes>>
       ELSE /\ inS' = [inS EXCEPT ![k] = gen']
            /\ small' = compact(push(small, k, gen'), inS')
            /\ smallBytes' = smallBytes + size
            /\ UNCHANGED <<main, inM, inG>>

\* A key the ghost queue remembers goes straight into main, any other key into
\* small.
OnAdmit(k, size) ==
    /\ gen' = gen + 1
    /\ IF k \in inG
       THEN /\ inG' = inG \ {k}
            /\ inM' = [inM EXCEPT ![k] = gen']
            /\ main' = compact(push(main, k, gen'), inM')
            /\ UNCHANGED <<small, inS, smallBytes>>
       ELSE /\ inS' = [inS EXCEPT ![k] = gen']
            /\ small' = compact(push(small, k, gen'), inS')
            /\ smallBytes' = smallBytes + size
            /\ UNCHANGED <<main, inM, inG>>

\* The object fits: store it and tell the policy, which resets freq to 0.
Admit ==
    /\ pc = "loop" /\ Fits
    /\ m' = [m EXCEPT ![req.key] = [size |-> req.size, freq |-> 0]]
    /\ used' = used + req.size
    /\ OnAdmit(req.key, req.size)
    /\ pc' = "idle" /\ req' = None
    /\ UNCHANGED <<ghost, steps>>

-----------------------------------------------------------------------------
(* One iteration of Victim, with the drop evictOne does when it returns.   *)

\* Victim steps through small while it is over its target, and when main is
\* empty; otherwise it steps through main.
FromSmall == small # <<>> /\ (smallBytes >= SmallTarget \/ main = <<>>)

\* stepSmall or stepMain on a slot that is stale, or that Lookup does not know.
SkipStale ==
    \/ /\ FromSmall
       /\ ~isLive(Head(small), inS) \/ Head(small).key \notin Resident
       /\ small' = Tail(small)
       /\ UNCHANGED main
    \/ /\ ~FromSmall /\ main # <<>>
       /\ ~isLive(Head(main), inM) \/ Head(main).key \notin Resident
       /\ main' = Tail(main)
       /\ UNCHANGED small

\* Mutant: a promotion leaves the object's bytes counted in small.
PromoteKeepsBytes ==
    LET k == Head(small).key
    IN  /\ FromSmall
        /\ isLive(Head(small), inS) /\ k \in Resident
        /\ m[k].freq > 0
        /\ small' = Tail(small)
        /\ inS' = [inS EXCEPT ![k] = 0]
        /\ UNCHANGED smallBytes
        /\ gen' = gen + 1
        /\ inM' = [inM EXCEPT ![k] = gen']
        /\ main' = push(main, k, gen')
        /\ m' = [m EXCEPT ![k].freq = 0]

\* Mutant: a promotion pushes without a fresh generation.
PromoteReusesGen ==
    LET k == Head(small).key
    IN  /\ FromSmall
        /\ isLive(Head(small), inS) /\ k \in Resident
        /\ m[k].freq > 0
        /\ small' = Tail(small)
        /\ inS' = [inS EXCEPT ![k] = 0]
        /\ smallBytes' = smallBytes - m[k].size
        /\ gen' = gen
        /\ inM' = [inM EXCEPT ![k] = gen']
        /\ main' = push(main, k, gen')
        /\ m' = [m EXCEPT ![k].freq = 0]

\* stepSmall on an object that was requested again during probation. push is
\* not followed by compact here.
Promote ==
    LET k == Head(small).key
    IN  /\ FromSmall
        /\ isLive(Head(small), inS) /\ k \in Resident
        /\ m[k].freq > 0
        /\ small' = Tail(small)
        /\ inS' = [inS EXCEPT ![k] = 0]
        /\ smallBytes' = smallBytes - m[k].size
        /\ gen' = gen + 1
        /\ inM' = [inM EXCEPT ![k] = gen']
        /\ main' = push(main, k, gen')
        /\ m' = [m EXCEPT ![k].freq = 0]

\* Mutant: a lap of main costs nothing.
ReinsertForFree ==
    LET k == Head(main).key
    IN  /\ ~FromSmall /\ main # <<>>
        /\ isLive(Head(main), inM) /\ k \in Resident
        /\ m[k].freq > 0
        /\ main' = Append(Tail(main), Head(main))
        /\ UNCHANGED m

\* stepMain on an object with laps left: one lap fewer, same slot reinserted.
Reinsert ==
    LET k == Head(main).key
    IN  /\ ~FromSmall /\ main # <<>>
        /\ isLive(Head(main), inM) /\ k \in Resident
        /\ m[k].freq > 0
        /\ main' = Append(Tail(main), Head(main))
        /\ m' = [m EXCEPT ![k].freq = @ - 1]

\* stepSmall names its head: it leaves S, is remembered, and is dropped.
EvictSmall ==
    LET k == Head(small).key
    IN  /\ FromSmall
        /\ isLive(Head(small), inS) /\ k \in Resident
        /\ m[k].freq = 0
        /\ small' = Tail(small)
        /\ rememberGhost(k)
        /\ drop(k)

\* stepMain names its head: OnRemove clears inM when the shard drops it.
EvictMain ==
    LET k == Head(main).key
    IN  /\ ~FromSmall /\ main # <<>>
        /\ isLive(Head(main), inM) /\ k \in Resident
        /\ m[k].freq = 0
        /\ main' = Tail(main)
        /\ drop(k)

\* An iteration that names no victim uses up a step.
NextStep == pc' = "victim" /\ steps' = steps - 1

Searching == pc = "victim" /\ steps > 0

VictimSkip ==
    /\ Searching /\ NextStep /\ SkipStale
    /\ UNCHANGED <<m, used, ghost, inS, inM, inG, gen, smallBytes, req>>

VictimPromote ==
    /\ Searching /\ NextStep /\ Promote
    /\ UNCHANGED <<used, ghost, inG, req>>

VictimReinsert ==
    /\ Searching /\ NextStep /\ Reinsert
    /\ UNCHANGED <<used, small, ghost, inS, inM, inG, gen, smallBytes, req>>

\* Victim found, or the search gave up: no step left, or both queues empty. A
\* search that gives up makes insert reject the object, old entry already gone.
VictimReturn ==
    /\ pc = "victim"
    /\ IF steps > 0 /\ (small # <<>> \/ main # <<>>)
       THEN /\ \/ EvictSmall /\ UNCHANGED main
               \/ EvictMain /\ UNCHANGED <<small, ghost, inG>>
            /\ pc' = "loop" /\ steps' = 0
            /\ UNCHANGED <<gen, req>>
       ELSE /\ pc' = "idle" /\ steps' = 0 /\ req' = None
            /\ UNCHANGED <<m, used, queues>>

Next ==
    \/ \E k \in Keys : GetHit(k) \/ GetMiss(k) \/ GetExpired(k) \/ Remove(k)
    \/ \E k \in Keys, size \in Sizes : InsertOversize(k, size) \/ InsertBegin(k, size)
    \/ EvictOne \/ Admit
    \/ VictimSkip \/ VictimPromote \/ VictimReinsert \/ VictimReturn

Spec == Init /\ [][Next]_vars

-----------------------------------------------------------------------------
(* Properties.                                                             *)

\* Types: freq stays within the 0..3 that Victim's step bound relies on, and an
\* insert is in progress exactly when the shard is not idle.
TypeOK ==
    /\ m \in [Keys -> Entry \cup {None}]
    /\ used \in Int /\ smallBytes \in Int
    /\ small \in Seq(Slot) /\ main \in Seq(Slot) /\ ghost \in Seq(Keys)
    /\ inS \in [Keys -> Nat] /\ inM \in [Keys -> Nat] /\ inG \subseteq Keys
    /\ gen \in Nat
    /\ pc \in {"idle", "loop", "victim"}
    /\ req \in Request \cup {None}
    /\ pc = "idle" <=> req = None
    /\ steps \in Nat

\* The policy and the map agree: every resident key is in exactly one of the
\* two queues' live maps and nothing else is, also between two iterations of
\* Victim. A key in neither could never be evicted (its bytes would be lost to
\* the shard), and one in both would be evicted twice.
Partition ==
    /\ Live(inS) \cup Live(inM) = Resident
    /\ Live(inS) \cap Live(inM) = {}

\* Generations do their job: every live key has exactly one slot carrying its
\* live generation, and a generation is never in two slots, so a stale slot
\* left by a delete or an overwrite is never mistaken for the live one.
OneLiveSlot ==
    /\ \A k \in Live(inS) : \E i \in 1..Len(small) :
          small[i] = [key |-> k, gen |-> inS[k]]
    /\ \A k \in Live(inM) : \E i \in 1..Len(main) :
          main[i] = [key |-> k, gen |-> inM[k]]
    /\ \A i, j \in 1..Len(small) : small[i].gen = small[j].gen => i = j
    /\ \A i, j \in 1..Len(main) : main[i].gen = main[j].gen => i = j

\* The byte counts are exact, so the shard neither overruns its capacity nor
\* evicts for space it already has: used is the size of what is resident and
\* smallBytes the size of what is on probation.
BytesExact ==
    /\ used = MapThenSumSet(LAMBDA k : m[k].size, Resident)
    /\ smallBytes = MapThenSumSet(LAMBDA k : m[k].size, Live(inS))

\* The shard never holds more bytes than its capacity, at any point of an
\* insert: insert evicts until the object fits before it stores it.
CapacityRespected == used <= Capacity

\* "A victim is guaranteed" (s3fifo.go:134): when the shard asks for a victim,
\* Victim's step bound is never what ends the search and the queues are never
\* both empty, so an object that fits an empty shard is always admitted.
VictimGuaranteed == pc = "victim" => steps > 0 /\ (small # <<>> \/ main # <<>>)

\* The ghost queue never overruns its target, whatever inG claims to remember is
\* still queued, and a resident key is not remembered: one that were would skip
\* probation after its next eviction without having been seen again.
GhostConsistent ==
    /\ Len(ghost) <= GhostTarget
    /\ \A k \in inG : \E i \in 1..Len(ghost) : ghost[i] = k
    /\ inG \cap Resident = {}

\* Put/Delete churn cannot grow the probationary queue (s3fifo.go:112): only
\* OnAdmit pushes to small, and each push is followed by compact.
SmallBounded == Len(small) <= 2 * Cardinality(Keys) + CompactSlack

\* S3-FIFO keeps the shard's promises: every victim is a resident object and is
\* taken only while the insert does not fit, by incremental byte counts and lazily
\* cleaned queues, and no insert that was begun is given up.
Shard == INSTANCE BoundedStore WITH store <- [k \in Resident |-> m[k].size], inserting <- req
ImplementsStore == Shard!Spec
=============================================================================
