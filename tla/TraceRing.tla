------------------------------ MODULE TraceRing ------------------------------
(***************************************************************************)
(* The access-trace ring of one shard (internal/trace/ring.go): a lock-    *)
(* free single-producer single-consumer queue. The producer is whichever   *)
(* goroutine holds the shard's lock, the consumer is the recorder's drain  *)
(* goroutine. Each access to shared memory is one action: Go's atomics are *)
(* sequentially consistent, and a slot of buf is plain memory, so a write  *)
(* and a read of the same slot at the same time would be a data race       *)
(* (NoRace).                                                               *)
(*                                                                         *)
(* head and tail are free-running. The code's uint64 cursors wrap after    *)
(* 2^64 pushes, which no run reaches, so they are natural numbers here.    *)
(* accepted, delivered and attempts are history variables.                 *)
(*                                                                         *)
(* The ring's names differ from the recorder's: TraceProofs extends both.  *)
(***************************************************************************)
EXTENDS Integers, Sequences

CONSTANTS
    Accesses,     \* what a push may carry
    Sampled,      \* records whose key hash passes the sample mask
    Capacity,     \* len(buf): a power of two, at least 2
    DrainBatch,   \* len(dst) of a Drain
    Zero,         \* the zero Record a fresh buf holds
    MaxAttempts   \* bound on sampled pushes, for TLC

ASSUME TraceRingAssumption ==
    /\ Sampled \subseteq Accesses
    /\ Capacity \in Nat \ {0}
    /\ DrainBatch \in Nat \ {0}
    /\ Zero \notin Accesses
    /\ MaxAttempts \in Nat

VARIABLES
    buf,          \* Ring.buf
    tail,         \* Ring.tail
    head,         \* Ring.head
    cachedHead,   \* Ring.cachedHead, the producer's view of head
    ringDrops,    \* Ring.drops
    pushed,       \* Ring.pushed
    ppc,          \* where the push in progress is
    rec,          \* the record being pushed
    cpc,          \* where the drain in progress is
    taking,       \* Drain's n
    dst,          \* the part of dst copied so far
    accepted,     \* every record published, in order
    delivered,    \* every record a finished Drain returned, in order
    attempts      \* how many sampled pushes were begun

producer == <<ppc, rec, cachedHead, attempts>>
consumer == <<cpc, taking, dst>>
ringVars == <<buf, tail, head, ringDrops, pushed, accepted, delivered, producer, consumer>>

Min2(a, b) == IF a <= b THEN a ELSE b

RingInit ==
    /\ buf = [i \in 0..(Capacity - 1) |-> Zero]
    /\ tail = 0 /\ head = 0 /\ cachedHead = 0
    /\ ringDrops = 0 /\ pushed = 0
    /\ ppc = "idle" /\ rec = Zero
    /\ cpc = "idle" /\ taking = 0 /\ dst = <<>>
    /\ accepted = <<>> /\ delivered = <<>> /\ attempts = 0

-----------------------------------------------------------------------------
(* Push.                                                                   *)

\* Full is uint64 arithmetic in the code; the cursors never cross.
LooksFull(h) == tail - h >= Capacity

\* A record that is not sampled leaves no trace.
PushUnsampled(r) ==
    /\ ppc = "idle" /\ r \notin Sampled
    /\ UNCHANGED ringVars

\* Load tail and compare it with the cached head.
PushBegin(r) ==
    /\ ppc = "idle" /\ r \in Sampled /\ attempts < MaxAttempts
    /\ rec' = r
    /\ attempts' = attempts + 1
    /\ ppc' = IF LooksFull(cachedHead) THEN "refresh" ELSE "write"
    /\ UNCHANGED <<buf, tail, head, cachedHead, ringDrops, pushed, accepted, delivered, consumer>>

\* Mutant: the drop is not counted.
PushRefreshSilently ==
    /\ ppc = "refresh"
    /\ cachedHead' = head
    /\ ppc' = IF LooksFull(head) THEN "idle" ELSE "write"
    /\ UNCHANGED <<buf, tail, head, ringDrops, pushed, rec, attempts, accepted, delivered, consumer>>

\* Mutant: the push goes ahead after the refresh whatever it read.
PushRefreshNoCheck ==
    /\ ppc = "refresh"
    /\ cachedHead' = head
    /\ ppc' = "write"
    /\ UNCHANGED <<buf, tail, head, ringDrops, pushed, rec, attempts, accepted, delivered, consumer>>

\* Mutant: the drop is decided on the cached cursor, without the refresh.
PushRefreshStale ==
    /\ ppc = "refresh"
    /\ ppc' = "idle" /\ ringDrops' = ringDrops + 1
    /\ cachedHead' = head
    /\ UNCHANGED <<buf, tail, head, pushed, rec, attempts, accepted, delivered, consumer>>

\* The ring looked full: read the consumer's cursor, and drop if it is full.
PushRefresh ==
    /\ ppc = "refresh"
    /\ cachedHead' = head
    /\ IF LooksFull(head) THEN ppc' = "idle" /\ ringDrops' = ringDrops + 1
                          ELSE ppc' = "write" /\ UNCHANGED ringDrops
    /\ UNCHANGED <<buf, tail, head, pushed, rec, attempts, accepted, delivered, consumer>>

\* The plain store of the record.
PushWrite ==
    /\ ppc = "write"
    /\ buf' = [buf EXCEPT ![tail % Capacity] = rec]
    /\ ppc' = "publish"
    /\ UNCHANGED <<tail, head, ringDrops, pushed, rec, cachedHead, attempts, accepted, delivered, consumer>>

\* The atomic store of tail makes the record visible.
PushPublish ==
    /\ ppc = "publish"
    /\ tail' = tail + 1
    /\ accepted' = Append(accepted, rec)
    /\ ppc' = "count"
    /\ UNCHANGED <<buf, head, ringDrops, pushed, rec, cachedHead, attempts, delivered, consumer>>

PushCount ==
    /\ ppc = "count"
    /\ pushed' = pushed + 1
    /\ ppc' = "idle"
    /\ UNCHANGED <<buf, tail, head, ringDrops, rec, cachedHead, attempts, accepted, delivered, consumer>>

-----------------------------------------------------------------------------
(* Drain. Only the consumer writes head, so its own load of head cannot be *)
(* stale and is merged with the load of tail.                              *)

\* Mutant: a lone record is not worth draining.
DrainBeginLeavesOne ==
    /\ cpc = "idle" /\ tail - head > 1
    /\ taking' = Min2(tail - head, DrainBatch)
    /\ cpc' = "copy"
    /\ dst' = <<>>
    /\ UNCHANGED <<buf, tail, head, ringDrops, pushed, accepted, delivered, producer>>

\* Nothing queued returns at once, without a change.
DrainBegin ==
    /\ cpc = "idle" /\ tail - head > 0
    /\ taking' = Min2(tail - head, DrainBatch)
    /\ cpc' = "copy"
    /\ dst' = <<>>
    /\ UNCHANGED <<buf, tail, head, ringDrops, pushed, accepted, delivered, producer>>

\* One iteration of the copy loop: a plain read of one slot.
DrainCopy ==
    /\ cpc = "copy" /\ Len(dst) < taking
    /\ dst' = Append(dst, buf[(head + Len(dst)) % Capacity])
    /\ UNCHANGED <<buf, tail, head, ringDrops, pushed, accepted, delivered, producer, cpc, taking>>

\* Mutant: the slots are released before they have been copied.
DrainEndEarly ==
    /\ cpc = "copy" /\ Len(dst) <= taking
    /\ head' = head + taking
    /\ delivered' = delivered \o dst
    /\ cpc' = "idle"
    /\ UNCHANGED <<buf, tail, ringDrops, pushed, accepted, producer, taking, dst>>

\* The atomic store of head gives the slots back to the producer.
DrainEnd ==
    /\ cpc = "copy" /\ Len(dst) = taking
    /\ head' = head + taking
    /\ delivered' = delivered \o dst
    /\ cpc' = "idle"
    /\ UNCHANGED <<buf, tail, ringDrops, pushed, accepted, producer, taking, dst>>

-----------------------------------------------------------------------------
PushSteps == PushRefresh \/ PushWrite \/ PushPublish \/ PushCount
DrainSteps == DrainBegin \/ DrainCopy \/ DrainEnd

RingNext ==
    \/ \E r \in Accesses : PushUnsampled(r) \/ PushBegin(r)
    \/ PushRefresh \/ PushWrite \/ PushPublish \/ PushCount
    \/ DrainBegin \/ DrainCopy \/ DrainEnd

RingSpec == RingInit /\ [][RingNext]_ringVars

\* The shard that holds its lock finishes the push, and the recorder's ticker
\* keeps calling Drain.
FairRingSpec == RingSpec /\ WF_ringVars(PushSteps) /\ WF_ringVars(DrainSteps)

-----------------------------------------------------------------------------
(* Properties.                                                             *)

\* Types of the slots, of the cursors and of the two goroutines' local state.
RingTypeOK ==
    /\ buf \in [0..(Capacity - 1) -> Accesses \cup {Zero}]
    /\ tail \in Nat /\ head \in Nat /\ cachedHead \in Nat
    /\ ringDrops \in Nat /\ pushed \in Nat /\ attempts \in Nat
    /\ ppc \in {"idle", "refresh", "write", "publish", "count"}
    /\ rec \in Accesses \cup {Zero}
    /\ cpc \in {"idle", "copy"} /\ taking \in Nat
    /\ dst \in Seq(Accesses \cup {Zero})
    /\ accepted \in Seq(Accesses \cup {Zero})
    /\ delivered \in Seq(Accesses \cup {Zero})

\* The cursors never cross and the producer's stale view of the consumer is
\* always behind it, so the uint64 subtractions of Push and Drain never wrap and
\* the ring never holds more than its slots.
CursorsOrdered ==
    /\ cachedHead <= head /\ head <= tail
    /\ tail <= head + Capacity

\* The plain memory of a slot is never written while the consumer reads it:
\* single-producer single-consumer needs no lock because of this.
NoRace ==
    (ppc = "write" /\ cpc = "copy" /\ Len(dst) < taking) =>
        tail % Capacity # (head + Len(dst)) % Capacity

\* What Drain returns is what Push accepted, in order, with none skipped, torn,
\* repeated or overwritten while it waited.
Fifo == delivered = SubSeq(accepted, 1, head)

\* No sampled record vanishes without trace: every push is accepted and counted
\* in pushed, counted in drops, or still under way.
Accounted ==
    /\ attempts = tail + ringDrops + (IF ppc \in {"refresh", "write", "publish"} THEN 1 ELSE 0)
    /\ tail = pushed + (IF ppc = "count" THEN 1 ELSE 0)

\* The ring implements the lossy queue: it drops only when it really is full,
\* even though the producer decides on a cached cursor.
Queue == INSTANCE LossyQueue WITH Records <- Sampled, Batch <- DrainBatch, drops <- ringDrops
ImplementsQueue == Queue!Spec

\* Every accepted record is delivered: nothing is stranded in the ring while the
\* recorder keeps draining.
EventuallyDrained == \A i \in 1..MaxAttempts : (tail = i) ~> (head >= i)
=============================================================================
