----------------------------- MODULE TraceProofs -----------------------------
(***************************************************************************)
(* Proofs about the trace package. First TraceRing, for every capacity,    *)
(* batch size and set of records, and with no bound that matters on the    *)
(* number of pushes: one ring is a lossy queue. Then Recorder, in which a  *)
(* ring is such a queue, for any number of rings, any capacity, batch and  *)
(* segment size, and any sequence of failed file operations. The two parts *)
(* share no variable.                                                      *)
(***************************************************************************)
EXTENDS TraceRing, Recorder, FiniteSetTheorems, SequenceTheorems, WellFoundedInduction, TLAPS

-----------------------------------------------------------------------------
(* The ring.                                                                *)

\* The slots between the cursors hold the records that were accepted at those
\* positions; a slot the producer has written but not published holds rec.
SlotsHold ==
    /\ Len(accepted) = tail
    /\ \A i \in head..(tail - 1) : buf[i % Capacity] = accepted[i + 1]
    /\ ppc = "publish" => buf[tail % Capacity] = rec

\* A producer past the full check has a free slot, seen even from its stale
\* view of the consumer, and carries a sampled record.
ProducerSafe ==
    /\ ppc \in {"write", "publish"} => tail < cachedHead + Capacity
    /\ ppc # "idle" => rec \in Sampled

\* A consumer copies only published slots, and has copied what was accepted.
ConsumerSafe ==
    cpc = "copy" =>
        /\ taking <= tail - head /\ taking <= DrainBatch /\ taking >= 1
        /\ Len(dst) <= taking
        /\ \A j \in 1..Len(dst) : dst[j] = accepted[head + j]

DeliveredHold ==
    /\ Len(delivered) = head
    /\ \A i \in 1..head : delivered[i] = accepted[i]

RingInv ==
    /\ RingTypeOK
    /\ CursorsOrdered
    /\ SlotsHold
    /\ ProducerSafe
    /\ ConsumerSafe
    /\ DeliveredHold

-----------------------------------------------------------------------------
\* Positions less than a capacity apart fall into different slots.
LEMMA DistinctSlots ==
    ASSUME NEW c \in Nat \ {0}, NEW i \in Nat, NEW j \in Nat, i < j, j < i + c
    PROVE  i % c # j % c
<1> SUFFICES ASSUME i % c = j % c PROVE FALSE
    OBVIOUS
<1> DEFINE p == i \div c
           q == j \div c
<1>1. i = (c * p) + (i % c) /\ j = (c * q) + (j % c) /\ p \in Int /\ q \in Int
    OBVIOUS
<1> HIDE DEF p, q
<1>2. j - i = c * (q - p)
    BY <1>1
<1>3. q - p >= 1
  <2>1. CASE q - p <= 0
    <3>1. c * (q - p) <= 0
        BY <2>1, <1>1
    <3> QED BY <3>1, <1>2
  <2> QED BY <2>1, <1>1
<1>4. c * (q - p) >= c
    BY <1>3, <1>1
<1> QED BY <1>2, <1>4

\* Masking a cursor always yields an index of buf.
LEMMA SlotInRange ==
    ASSUME NEW i \in Nat PROVE i % Capacity \in 0..(Capacity - 1)
    BY TraceRingAssumption

\* Appending a drained batch keeps what was delivered before it.
LEMMA AppendBatch ==
    ASSUME NEW S, NEW a \in Seq(S), NEW b \in Seq(S)
    PROVE  /\ Len(a \o b) = Len(a) + Len(b)
           /\ \A i \in 1..Len(a) : (a \o b)[i] = a[i]
           /\ \A j \in 1..Len(b) : (a \o b)[Len(a) + j] = b[j]
    OBVIOUS

\* A fresh ring (NewRing) satisfies the inductive invariant.
LEMMA RingInitInv == RingInit => RingInv
    BY TraceRingAssumption
    DEF RingInit, RingInv, RingTypeOK, CursorsOrdered, SlotsHold, ProducerSafe, ConsumerSafe, DeliveredHold

\* Each atomic step of Push and of Drain preserves the inductive invariant.
LEMMA RingNextInv == RingInv /\ [RingNext]_ringVars => RingInv'
<1> SUFFICES ASSUME RingInv, [RingNext]_ringVars PROVE RingInv'
    OBVIOUS
<1> USE TraceRingAssumption
<1> USE DEF RingInv
<1>1. ASSUME NEW r \in Accesses, PushBegin(r) PROVE RingInv'
    BY <1>1 DEF PushBegin, LooksFull, RingTypeOK, CursorsOrdered, SlotsHold,
                ProducerSafe, ConsumerSafe, DeliveredHold, consumer
<1>2. CASE PushRefresh
    BY <1>2 DEF PushRefresh, LooksFull, RingTypeOK, CursorsOrdered, SlotsHold,
                ProducerSafe, ConsumerSafe, DeliveredHold, consumer
<1>3. CASE PushWrite
  <2>1. RingTypeOK' /\ CursorsOrdered' /\ ProducerSafe' /\ ConsumerSafe' /\ DeliveredHold'
    BY <1>3 DEF PushWrite, RingTypeOK, CursorsOrdered, ProducerSafe, ConsumerSafe,
                DeliveredHold, consumer
  <2>2. tail \in Nat /\ tail % Capacity \in 0..(Capacity - 1)
    BY SlotInRange DEF RingTypeOK
  <2>3. ASSUME NEW i \in head..(tail - 1)
        PROVE  buf'[i % Capacity] = accepted[i + 1]
    <3>1. i \in Nat /\ i < tail /\ tail < i + Capacity
        BY <1>3 DEF PushWrite, RingTypeOK, CursorsOrdered, ProducerSafe
    <3>2. i % Capacity # tail % Capacity
        BY <3>1, <2>2, DistinctSlots
    <3>3. i % Capacity \in 0..(Capacity - 1)
        BY <3>1, SlotInRange
    <3> QED BY <1>3, <3>2, <3>3 DEF PushWrite, RingTypeOK, SlotsHold
  <2>4. SlotsHold'
    BY <1>3, <2>2, <2>3 DEF PushWrite, RingTypeOK, SlotsHold
  <2> QED BY <2>1, <2>4
<1>4. CASE PushPublish
  <2>1. RingTypeOK' /\ CursorsOrdered' /\ ProducerSafe'
    BY <1>4 DEF PushPublish, RingTypeOK, CursorsOrdered, ProducerSafe, consumer
  <2>2. /\ Len(accepted') = tail + 1
        /\ \A i \in 1..tail : accepted'[i] = accepted[i]
        /\ accepted'[tail + 1] = rec
    BY <1>4 DEF PushPublish, RingTypeOK, SlotsHold
  <2>3. ASSUME NEW i \in head..tail
        PROVE  buf[i % Capacity] = accepted'[i + 1]
    <3>1. CASE i = tail
        BY <3>1, <2>2, <1>4 DEF PushPublish, SlotsHold, RingTypeOK
    <3>2. CASE i # tail
      <4>1. i \in head..(tail - 1) /\ i + 1 \in 1..tail
          BY <3>2 DEF RingTypeOK
      <4>2. buf[i % Capacity] = accepted[i + 1]
          BY <4>1 DEF SlotsHold
      <4> QED BY <4>1, <4>2, <2>2
    <3> QED BY <3>1, <3>2
  <2>4. SlotsHold'
    <3>1. tail' = tail + 1 /\ buf' = buf /\ head' = head /\ ppc' = "count" /\ tail \in Nat
        BY <1>4 DEF PushPublish, RingTypeOK
    <3>2. head'..(tail' - 1) = head..tail
        BY <3>1
    <3> QED BY <3>1, <3>2, <2>2, <2>3 DEF SlotsHold
  <2>5. DeliveredHold'
    <3>1. UNCHANGED <<head, delivered>> /\ head \in Nat /\ tail \in Nat /\ head <= tail
        BY <1>4 DEF PushPublish, RingTypeOK, CursorsOrdered, consumer
    <3>2. \A i \in 1..head : accepted'[i] = accepted[i]
        BY <3>1, <2>2
    <3> QED BY <3>1, <3>2 DEF DeliveredHold
  <2>6. ConsumerSafe'
    <3>1. /\ UNCHANGED <<head, taking, dst, cpc>> /\ tail' = tail + 1
          /\ head \in Nat /\ tail \in Nat /\ taking \in Nat /\ Len(dst) \in Nat
        BY <1>4 DEF PushPublish, RingTypeOK, consumer
    <3>2. CASE cpc # "copy"
        BY <3>1, <3>2 DEF ConsumerSafe
    <3>3. CASE cpc = "copy"
        BY <3>1, <3>3, <2>2 DEF ConsumerSafe
    <3> QED BY <3>2, <3>3
  <2> QED BY <2>1, <2>4, <2>5, <2>6
<1>5. CASE PushCount
    BY <1>5 DEF PushCount, RingTypeOK, CursorsOrdered, SlotsHold,
                ProducerSafe, ConsumerSafe, DeliveredHold, consumer
<1>6. CASE DrainBegin
    BY <1>6 DEF DrainBegin, Min2, RingTypeOK, CursorsOrdered, SlotsHold,
                ProducerSafe, ConsumerSafe, DeliveredHold, producer
<1>7. CASE DrainCopy
  <2> DEFINE pos == head + Len(dst)
  <2>1. pos \in head..(tail - 1) /\ pos \in Nat
    <3>1. Len(dst) \in Nat /\ head \in Nat /\ tail \in Nat /\ taking \in Nat
        BY DEF RingTypeOK
    <3>2. Len(dst) < taking /\ taking <= tail - head
        BY <1>7 DEF DrainCopy, ConsumerSafe
    <3> QED BY <3>1, <3>2
  <2>2. buf[pos % Capacity] = accepted[pos + 1] /\ buf[pos % Capacity] \in Accesses \cup {Zero}
    BY <2>1, SlotInRange DEF SlotsHold, RingTypeOK
  <2>3. RingTypeOK' /\ CursorsOrdered' /\ ProducerSafe' /\ SlotsHold' /\ DeliveredHold'
    BY <1>7, <2>2 DEF DrainCopy, RingTypeOK, CursorsOrdered, ProducerSafe, SlotsHold,
                      DeliveredHold, producer
  <2>4. ConsumerSafe'
    <3>1. /\ Len(dst') = Len(dst) + 1 /\ Len(dst) \in Nat
          /\ \A j \in 1..Len(dst) : dst'[j] = dst[j]
          /\ dst'[Len(dst) + 1] = accepted[head + (Len(dst) + 1)]
        BY <1>7, <2>1, <2>2 DEF DrainCopy, RingTypeOK
    <3>2. ASSUME NEW j \in 1..(Len(dst) + 1) PROVE dst'[j] = accepted[head + j]
        BY <1>7, <3>1 DEF DrainCopy, ConsumerSafe
    <3>3. Len(dst) + 1 <= taking
        BY <1>7, <3>1 DEF DrainCopy, RingTypeOK
    <3> QED BY <1>7, <3>1, <3>2, <3>3 DEF DrainCopy, ConsumerSafe, producer
  <2> QED BY <2>3, <2>4
<1>8. CASE DrainEnd
  <2>1. /\ head' = head + taking /\ head' <= tail /\ Len(dst) = taking
        /\ \A j \in 1..taking : dst[j] = accepted[head + j]
    BY <1>8 DEF DrainEnd, ConsumerSafe, RingTypeOK, CursorsOrdered
  <2>2. RingTypeOK'
    BY <1>8 DEF DrainEnd, RingTypeOK, producer
  <2>6. CursorsOrdered' /\ ProducerSafe' /\ ConsumerSafe'
    BY <1>8, <2>1 DEF DrainEnd, RingTypeOK, CursorsOrdered, ProducerSafe, ConsumerSafe, producer
  <2>7. SlotsHold'
    <3>1. UNCHANGED <<buf, tail, accepted, ppc, rec>> /\ head \in Nat /\ tail \in Nat /\ taking \in Nat
        BY <1>8 DEF DrainEnd, RingTypeOK, producer
    <3>2. \A i \in head'..(tail - 1) : i \in head..(tail - 1)
        BY <2>1, <3>1
    <3>3. \A i \in head'..(tail - 1) : buf[i % Capacity] = accepted[i + 1]
        BY <3>2 DEF SlotsHold
    <3> QED BY <3>1, <3>3 DEF SlotsHold
  <2>3. /\ Len(delivered') = head + taking
        /\ \A i \in 1..head : delivered'[i] = delivered[i]
        /\ \A j \in 1..taking : delivered'[head + j] = dst[j]
    <3>1. delivered' = delivered \o dst /\ Len(delivered) = head /\ Len(dst) = taking
        BY <1>8, <2>1 DEF DrainEnd, DeliveredHold
    <3>2. delivered \in Seq(Accesses \cup {Zero}) /\ dst \in Seq(Accesses \cup {Zero})
        BY DEF RingTypeOK
    <3>3. /\ Len(delivered \o dst) = Len(delivered) + Len(dst)
          /\ \A i \in 1..Len(delivered) : (delivered \o dst)[i] = delivered[i]
          /\ \A j \in 1..Len(dst) : (delivered \o dst)[Len(delivered) + j] = dst[j]
        BY ONLY <3>2, AppendBatch
    <3> QED BY ONLY <3>1, <3>3
  <2>4. ASSUME NEW i \in 1..(head + taking) PROVE delivered'[i] = accepted[i]
    <3>1. CASE i <= head
        BY <3>1, <2>3 DEF DeliveredHold, RingTypeOK
    <3>2. CASE i > head
      <4>1. (i - head) \in 1..taking /\ i = head + (i - head)
          BY <3>2 DEF RingTypeOK
      <4>2. delivered'[head + (i - head)] = accepted[head + (i - head)]
          BY ONLY <4>1, <2>1, <2>3
      <4> QED BY ONLY <4>1, <4>2
    <3> QED BY <3>1, <3>2 DEF RingTypeOK
  <2>5. DeliveredHold'
    BY <1>8, <2>1, <2>3, <2>4 DEF DrainEnd, DeliveredHold, RingTypeOK
  <2> QED BY <2>2, <2>5, <2>6, <2>7
<1>9. CASE UNCHANGED ringVars
    BY <1>9 DEF ringVars, producer, consumer, RingTypeOK, CursorsOrdered, SlotsHold,
                ProducerSafe, ConsumerSafe, DeliveredHold
<1> QED
    BY <1>1, <1>2, <1>3, <1>4, <1>5, <1>6, <1>7, <1>8, <1>9 DEF RingNext, PushUnsampled

\* The state predicates of the model are preserved by every step of every ring.
THEOREM RingInvariant == RingSpec => []RingInv
    BY RingInitInv, RingNextInv, PTL DEF RingSpec

\* Cursors never cross and the ring never overfills (the subtractions in Push
\* and Drain cannot wrap), for every capacity and batch size.
THEOREM CursorsSafe == RingSpec => [](RingTypeOK /\ CursorsOrdered)
<1>1. RingInv => RingTypeOK /\ CursorsOrdered
    BY DEF RingInv
<1> QED BY <1>1, RingInvariant, PTL

\* Push never writes the slot Drain is about to read.
THEOREM RaceFree == RingSpec => []NoRace
<1>1. RingInv => NoRace
  <2> SUFFICES ASSUME RingInv, ppc = "write", cpc = "copy", Len(dst) < taking
               PROVE  tail % Capacity # (head + Len(dst)) % Capacity
      BY DEF NoRace
  <2>1. /\ head + Len(dst) \in Nat /\ tail \in Nat
        /\ head + Len(dst) < tail /\ tail < head + Len(dst) + Capacity
      BY TraceRingAssumption
      DEF RingInv, RingTypeOK, CursorsOrdered, ProducerSafe, ConsumerSafe
  <2> QED BY <2>1, TraceRingAssumption, DistinctSlots
<1> QED BY <1>1, RingInvariant, PTL

\* What the drains return is a prefix of what the pushes accepted.
THEOREM FifoSafe == RingSpec => []Fifo
<1>1. RingInv => Fifo
  <2> SUFFICES ASSUME RingInv PROVE delivered = SubSeq(accepted, 1, head)
      BY DEF Fifo
  <2>1. /\ head \in Nat /\ head <= Len(accepted)
        /\ accepted \in Seq(Accesses \cup {Zero}) /\ delivered \in Seq(Accesses \cup {Zero})
      BY DEF RingInv, RingTypeOK, CursorsOrdered, SlotsHold
  <2> DEFINE prefix == SubSeq(accepted, 1, head)
  <2>2. Len(prefix) = head /\ prefix \in Seq(Accesses \cup {Zero})
      BY <2>1
  <2>3. \A i \in 1..head : prefix[i] = accepted[i]
      BY <2>1
  <2>4. Len(delivered) = head /\ \A i \in 1..head : delivered[i] = accepted[i]
      BY DEF RingInv, DeliveredHold
  <2> HIDE DEF prefix
  <2>5. delivered = prefix
      BY <2>1, <2>2, <2>3, <2>4
  <2> QED BY <2>5 DEF prefix
<1> QED BY <1>1, RingInvariant, PTL

\* Every sampled push is accepted, counted as a drop, or still under way.
THEOREM AccountedSafe == RingSpec => []Accounted
<1>1. RingInit => Accounted
    BY DEF RingInit, Accounted
<1>2. RingInv /\ Accounted /\ [RingNext]_ringVars => Accounted'
  <2> SUFFICES ASSUME RingInv, Accounted, [RingNext]_ringVars PROVE Accounted'
      OBVIOUS
  <2>0. /\ attempts \in Nat /\ tail \in Nat /\ ringDrops \in Nat /\ pushed \in Nat
        /\ ppc \in {"idle", "refresh", "write", "publish", "count"}
      BY DEF RingInv, RingTypeOK
  <2>1. ASSUME NEW r \in Accesses, PushBegin(r) PROVE Accounted'
      BY <2>0, <2>1 DEF PushBegin, Accounted
  <2>2. CASE PushRefresh
      BY <2>0, <2>2 DEF PushRefresh, Accounted
  <2>3. CASE PushWrite
      BY <2>0, <2>3 DEF PushWrite, Accounted
  <2>4. CASE PushPublish
      BY <2>0, <2>4 DEF PushPublish, Accounted
  <2>5. CASE PushCount
      BY <2>0, <2>5 DEF PushCount, Accounted
  <2>6. CASE UNCHANGED <<tail, ringDrops, pushed, ppc, attempts>>
      BY <2>6 DEF Accounted
  <2> QED
      BY <2>1, <2>2, <2>3, <2>4, <2>5, <2>6
      DEF RingNext, ringVars, producer, PushUnsampled, DrainBegin, DrainCopy, DrainEnd
<1> QED BY <1>1, <1>2, RingInvariant, PTL DEF RingSpec

-----------------------------------------------------------------------------
\* The ring is a lossy queue: PushPublish is an Accept, a PushRefresh that gives
\* up is a Drop of a queue that is full at that instant, DrainEnd is a Deliver,
\* and every other step changes nothing the queue shows.
LEMMA StepRefines == RingInv /\ RingInv' /\ [RingNext]_ringVars => [Queue!Next]_(Queue!vars)
<1> SUFFICES ASSUME RingInv, RingInv', [RingNext]_ringVars PROVE [Queue!Next]_(Queue!vars)
    OBVIOUS
<1> USE TraceRingAssumption
<1>0. /\ Len(accepted) = tail /\ Len(delivered) = head
      /\ tail \in Nat /\ head \in Nat /\ Queue!Queued = tail - head
    BY DEF RingInv, RingTypeOK, SlotsHold, DeliveredHold, Queue!Queued
<1>1. CASE PushRefresh
    BY <1>0, <1>1 DEF PushRefresh, LooksFull, RingInv, CursorsOrdered, Queue!Next, Queue!Drop, Queue!vars
<1>2. CASE PushPublish
  <2>1. rec \in Sampled /\ tail - head < Capacity
      BY <1>0, <1>2 DEF PushPublish, RingInv, RingTypeOK, CursorsOrdered, ProducerSafe
  <2>2. Queue!Accept(rec)
      BY <1>0, <1>2, <2>1 DEF PushPublish, Queue!Accept
  <2> QED BY <2>1, <2>2 DEF Queue!Next
<1>3. CASE DrainEnd
  <2>1. taking \in 1..DrainBatch /\ taking <= tail - head /\ head' = head + taking /\ accepted' = accepted
      BY <1>3 DEF DrainEnd, RingInv, RingTypeOK, ConsumerSafe
  <2>2. delivered' = SubSeq(accepted, 1, head + taking)
    <3>1. /\ head + taking \in Nat /\ head + taking <= Len(accepted)
          /\ Len(delivered') = head + taking
          /\ \A i \in 1..(head + taking) : delivered'[i] = accepted[i]
          /\ delivered' \in Seq(Accesses \cup {Zero})
          /\ accepted \in Seq(Accesses \cup {Zero})
      <4>1. RingTypeOK /\ RingTypeOK' /\ DeliveredHold'
          BY DEF RingInv
      <4>2. taking \in Nat /\ delivered' \in Seq(Accesses \cup {Zero}) /\ accepted \in Seq(Accesses \cup {Zero})
          BY <4>1 DEF RingTypeOK
      <4>3. Len(delivered') = head + taking /\ \A i \in 1..(head + taking) : delivered'[i] = accepted[i]
          BY <2>1, <4>1 DEF DeliveredHold
      <4> QED BY <1>0, <2>1, <4>2, <4>3
    <3>2. /\ Len(SubSeq(accepted, 1, head + taking)) = head + taking
          /\ \A i \in 1..(head + taking) : SubSeq(accepted, 1, head + taking)[i] = accepted[i]
          /\ SubSeq(accepted, 1, head + taking) \in Seq(Accesses \cup {Zero})
        BY <3>1
    <3> QED BY <3>1, <3>2
  <2>3. Queue!Deliver(taking)
      BY <1>0, <1>3, <2>1, <2>2 DEF DrainEnd, Queue!Deliver
  <2> QED BY <2>1, <2>3 DEF Queue!Next
<1>4. CASE UNCHANGED <<accepted, delivered, ringDrops>>
    BY <1>4 DEF Queue!vars
<1> QED
    BY <1>1, <1>2, <1>3, <1>4
    DEF RingNext, ringVars, PushUnsampled, PushBegin, PushWrite, PushCount, DrainBegin, DrainCopy

\* Every behaviour of Push and Drain is one of the lossy queue: order is kept and
\* a record is refused only while the ring really holds Capacity records.
THEOREM QueueRefinement == RingSpec => ImplementsQueue
<1>1. RingInit => Queue!Init
    BY DEF RingInit, Queue!Init
<1> QED BY <1>1, RingInvariant, StepRefines, PTL DEF RingSpec, ImplementsQueue, Queue!Spec

-----------------------------------------------------------------------------
(* Folds. Sums over the rings, the records of a file and the reader's pass  *)
(* over the segments are all folds of the library, which chooses the next   *)
(* element of a set.                                                        *)

\* A set of naturals that holds 0 and is closed under successor is all of them.
LEMMA NatSetInduction ==
    ASSUME NEW S, 0 \in S, \A n \in Nat : n \in S => n + 1 \in S
    PROVE  Nat \subseteq S
<1> DEFINE T == Nat \ S
<1> SUFFICES ASSUME T # {} PROVE FALSE
    OBVIOUS
<1>1. \E x \in T : \A y \in T : ~(y < x)
  <2>1. PICK x \in T : \A y \in T : <<y, x>> \notin OpToRel(<, Nat)
    <3>1. T \subseteq Nat
        OBVIOUS
    <3> HIDE DEF T
    <3> QED BY <3>1, NatLessThanWellFounded, WFMin
  <2>2. \A y \in T : y < x => <<y, x>> \in OpToRel(<, Nat)
      BY DEF OpToRel
  <2> QED BY <2>1, <2>2
<1>2. PICK x \in T : \A y \in T : ~(y < x)
    BY <1>1
<1>3. x # 0 /\ x \in Nat /\ x \notin S
    BY <1>2
<1>4. x - 1 \in Nat /\ x - 1 < x /\ (x - 1) + 1 = x
    BY <1>3
<1>5. x - 1 \in S
    BY <1>2, <1>4
<1> QED BY <1>3, <1>4, <1>5

\* A finite, non-empty set of integers has a largest element.
LEMMA MaxExists ==
    ASSUME NEW S \in SUBSET Int, IsFiniteSet(S), S # {}
    PROVE  Max(S) \in S /\ \A s \in S : Max(S) >= s
<1> DEFINE HasMax(U) == \E m \in U : \A s \in U : m >= s
           T == {U \in SUBSET S : U # {} /\ ~HasMax(U)}
<1>1. HasMax(S)
  <2> SUFFICES ASSUME S \in T PROVE FALSE
      OBVIOUS
  <2>1. IsWellFoundedOn(StrictSubsetOrdering(S), FiniteSubsetsOf(S))
      BY FS_StrictSubsetOrderingWellFounded
  <2>2. T \subseteq FiniteSubsetsOf(S)
      BY FS_Subset DEF FiniteSubsetsOf
  <2>3. PICK U \in T : \A V \in T : <<V, U>> \notin StrictSubsetOrdering(S)
    <3> HIDE DEF T
    <3> QED BY <2>1, <2>2, WFMin
  <2>4. PICK u \in U : TRUE
      BY <2>3
  <2>5. <<U \ {u}, U>> \in StrictSubsetOrdering(S)
      BY <2>3, <2>4 DEF StrictSubsetOrdering
  <2>6. U \ {u} \notin T
      BY <2>3, <2>5
  <2>7. CASE U \ {u} = {}
    <3>1. \A s \in U : u >= s
        BY <2>3, <2>4, <2>7
    <3> QED BY <3>1, <2>3, <2>4
  <2>8. CASE U \ {u} # {}
    <3>1. PICK m \in U \ {u} : \A s \in U \ {u} : m >= s
        BY <2>3, <2>6, <2>8
    <3>2. CASE m >= u
      <4>1. \A s \in U : m >= s
          BY <3>1, <3>2
      <4> QED BY <4>1, <3>1, <2>3
    <3>3. CASE ~(m >= u)
      <4>1. \A s \in U : u >= s
          BY <2>3, <2>4, <3>1, <3>3
      <4> QED BY <4>1, <2>4, <2>3
    <3> QED BY <3>2, <3>3
  <2> QED BY <2>7, <2>8
<1> QED BY <1>1 DEF Max

\* A set of subsets of a finite set that holds the empty one, and each one all
\* of whose one-smaller subsets it holds, holds them all.
LEMMA SubsetInduction ==
    ASSUME NEW S, IsFiniteSet(S), NEW T, {} \in T,
           \A s \in SUBSET S : s # {} /\ (\A x \in s : s \ {x} \in T) => s \in T
    PROVE  SUBSET S \subseteq T
<1> DEFINE U == (SUBSET S) \ T
<1> SUFFICES ASSUME U # {} PROVE FALSE
    OBVIOUS
<1>1. IsWellFoundedOn(StrictSubsetOrdering(S), FiniteSubsetsOf(S))
    BY FS_StrictSubsetOrderingWellFounded
<1>2. U \subseteq FiniteSubsetsOf(S)
    BY FS_Subset DEF FiniteSubsetsOf
<1>3. PICK s \in U : \A t \in U : <<t, s>> \notin StrictSubsetOrdering(S)
  <2> HIDE DEF U
  <2> QED BY <1>1, <1>2, WFMin
<1>4. \A x \in s : s \ {x} \in T
  <2> SUFFICES ASSUME NEW x \in s PROVE s \ {x} \in T
      OBVIOUS
  <2>1. <<s \ {x}, s>> \in StrictSubsetOrdering(S)
      BY <1>3 DEF StrictSubsetOrdering
  <2>2. s \ {x} \notin U /\ s \ {x} \in SUBSET S
    <3> HIDE DEF U
    <3>1. s \ {x} \notin U
        BY <1>3, <2>1
    <3>2. s \ {x} \in SUBSET S
        BY <1>3 DEF U
    <3> QED BY <3>1, <3>2
  <2> QED BY <2>2
<1>5. s \in SUBSET S /\ s # {} /\ s \notin T
    BY <1>3
<1> QED BY <1>4, <1>5

\* g holds the fold of each subset of S, which takes the element c[s] off s.
Folds(g, S, base, op, c) ==
    \A s \in SUBSET S : g[s] = IF s = {} THEN base ELSE op[<<g[s \ {c[s]}], c[s]>>]

\* A recursion that takes a chosen element off a finite set has a solution.
LEMMA FoldExists ==
    ASSUME NEW S, IsFiniteSet(S), NEW V, NEW base \in V, NEW op \in [V \X S -> V],
           NEW c, \A s \in SUBSET S : s # {} => c[s] \in s
    PROVE  \E g \in [SUBSET S -> V] : Folds(g, S, base, op, c)
<1> DEFINE Turn(g, s) == IF s = {} THEN base ELSE op[<<g[s \ {c[s]}], c[s]>>]
           \* The sets up to n elements, solved by one function.
           Upto(n) == \E g \in [SUBSET S -> V] :
                         \A s \in SUBSET S : Cardinality(s) <= n => g[s] = Turn(g, s)
           K == {n \in Nat : Upto(n)}
<1>1. \A s \in SUBSET S : Cardinality(s) \in Nat /\ Cardinality(s) <= Cardinality(S)
    BY FS_Subset, FS_CardinalityType
<1>2. \A s \in SUBSET S : Cardinality(s) = 0 <=> s = {}
    BY FS_Subset, FS_EmptySet
<1>3. \A s \in SUBSET S : s # {} =>
        /\ c[s] \in S /\ s \ {c[s]} \in SUBSET S
        /\ Cardinality(s \ {c[s]}) = Cardinality(s) - 1
  <2> SUFFICES ASSUME NEW s \in SUBSET S, s # {}
               PROVE  /\ c[s] \in S /\ s \ {c[s]} \in SUBSET S
                      /\ Cardinality(s \ {c[s]}) = Cardinality(s) - 1
      OBVIOUS
  <2>1. c[s] \in s /\ IsFiniteSet(s)
      BY FS_Subset
  <2> QED BY <2>1, FS_RemoveElement
<1>4. 0 \in K
  <2> DEFINE g == [s \in SUBSET S |-> base]
  <2>1. g \in [SUBSET S -> V]
      OBVIOUS
  <2>2. ASSUME NEW s \in SUBSET S, Cardinality(s) <= 0 PROVE g[s] = Turn(g, s)
      BY <1>1, <1>2, <2>2
  <2> HIDE DEF g, Turn
  <2> QED BY <2>1, <2>2
<1>5. ASSUME NEW n \in Nat, n \in K PROVE n + 1 \in K
  <2>1. PICK g \in [SUBSET S -> V] :
            \A s \in SUBSET S : Cardinality(s) <= n => g[s] = Turn(g, s)
      BY <1>5
  <2> DEFINE h == [s \in SUBSET S |-> Turn(g, s)]
  <2>2. h \in [SUBSET S -> V]
    <3>1. ASSUME NEW s \in SUBSET S PROVE Turn(g, s) \in V
      <4>1. CASE s = {}
          BY <4>1
      <4>2. CASE s # {}
        <5>1. <<g[s \ {c[s]}], c[s]>> \in V \X S
            BY <4>2, <1>3
        <5> QED BY <4>2, <5>1
      <4> QED BY <4>1, <4>2
    <3> HIDE DEF Turn
    <3> QED BY <3>1
  <2>3. ASSUME NEW s \in SUBSET S, Cardinality(s) <= n + 1 PROVE h[s] = Turn(h, s)
    <3>1. CASE s = {}
        BY <3>1
    <3>2. CASE s # {}
      <4> DEFINE t == s \ {c[s]}
      <4>1. t \in SUBSET S /\ Cardinality(t) <= n
          BY <3>2, <2>3, <1>1, <1>3
      <4>2. h[t] = g[t]
        <5> HIDE DEF Turn, t
        <5> QED BY <4>1, <2>1
      <4>3. h[s] = op[<<g[t], c[s]>>]
          BY <3>2
      <4> HIDE DEF h
      <4> QED BY <3>2, <4>2, <4>3
    <3> QED BY <3>1, <3>2
  <2> HIDE DEF h, Turn
  <2> QED BY <2>2, <2>3
<1> HIDE DEF K
<1>6. Nat \subseteq K
    BY <1>4, <1>5, NatSetInduction
<1>7. PICK g \in [SUBSET S -> V] :
          \A s \in SUBSET S : Cardinality(s) <= Cardinality(S) => g[s] = Turn(g, s)
  <2>1. Cardinality(S) \in K
      BY <1>6, FS_CardinalityType
  <2> QED BY <2>1 DEF K
<1> HIDE DEF Turn
<1>8. \A s \in SUBSET S : g[s] = Turn(g, s)
    BY <1>1, <1>7
<1> QED BY <1>8 DEF Turn, Folds

-----------------------------------------------------------------------------
(* Sums over the rings.                                                     *)

Total(f) == MapThenSumSet(LAMBDA i : f[i], Rings)

\* g holds the sum of f over each set of rings.
Sums(g, f) ==
    \A s \in SUBSET Rings :
        g[s] = IF s = {} THEN 0
               ELSE f[CHOOSE x \in s : TRUE] + g[s \ {CHOOSE x \in s : TRUE}]

LEMMA RingsFinite == IsFiniteSet(Rings) /\ Rings \subseteq Int
  BY FS_Interval, RecorderAssumption DEF Rings

LEMMA TotalSums ==
    ASSUME NEW f \in [Rings -> Int]
    PROVE  \E g \in [SUBSET Rings -> Int] : Sums(g, f) /\ Total(f) = g[Rings]
<1> DEFINE c == [s \in SUBSET Rings |-> CHOOSE x \in s : TRUE]
           op == [p \in Int \X Rings |-> f[p[2]] + p[1]]
           Eq(g) == g = [s \in SUBSET Rings |->
                            IF s = {} THEN 0
                            ELSE f[CHOOSE x \in s : TRUE] + g[s \ {CHOOSE x \in s : TRUE}]]
<1>1. Total(f) = (CHOOSE g : Eq(g))[Rings]
    BY DEF Total, MapThenSumSet, MapThenFoldSet
<1>2. \E g : Eq(g)
  <2>1. \A s \in SUBSET Rings : s # {} => c[s] \in s
      OBVIOUS
  <2>2. op \in [Int \X Rings -> Int]
      OBVIOUS
  <2>3. PICK g \in [SUBSET Rings -> Int] : \A s \in SUBSET Rings :
            g[s] = IF s = {} THEN 0 ELSE op[<<g[s \ {c[s]}], c[s]>>]
    <3> HIDE DEF c, op
    <3>1. 0 \in Int /\ IsFiniteSet(Rings)
        BY RingsFinite
    <3>2. \E g \in [SUBSET Rings -> Int] : Folds(g, Rings, 0, op, c)
        BY <2>1, <2>2, <3>1, FoldExists
    <3> QED BY <3>2 DEF Folds
  <2>4. \A s \in SUBSET Rings : s # {} =>
          op[<<g[s \ {c[s]}], c[s]>>]
             = f[CHOOSE x \in s : TRUE] + g[s \ {CHOOSE x \in s : TRUE}]
    <3> SUFFICES ASSUME NEW s \in SUBSET Rings, s # {}
                 PROVE  op[<<g[s \ {c[s]}], c[s]>>] = f[c[s]] + g[s \ {c[s]}]
        OBVIOUS
    <3>1. c[s] \in Rings /\ s \ {c[s]} \in SUBSET Rings
        BY <2>1
    <3> HIDE DEF c
    <3> QED BY <3>1
  <2>5. Eq(g)
    <3> HIDE DEF op
    <3> QED BY <2>3, <2>4
  <2> QED BY <2>5
<1>3. PICK g : Eq(g) /\ Total(f) = g[Rings]
  <2> HIDE DEF Eq
  <2> QED BY <1>1, <1>2
<1>4. Sums(g, f)
    BY <1>3 DEF Sums
<1>5. g \in [SUBSET Rings -> Int]
  <2> DEFINE T == {s \in SUBSET Rings : g[s] \in Int}
  <2>1. {} \in T
    <3>1. g[{}] = 0
        BY <1>4 DEF Sums
    <3>2. g[{}] \in Int
        BY <3>1
    <3> QED BY <3>2
  <2>2. ASSUME NEW s \in SUBSET Rings, s # {}, \A x \in s : s \ {x} \in T
        PROVE  s \in T
    <3> DEFINE x == CHOOSE x \in s : TRUE
    <3>1. x \in s
        BY <2>2
    <3>2. g[s] = f[x] + g[s \ {x}]
        BY <1>4, <2>2 DEF Sums
    <3> HIDE DEF x
    <3>3. g[s \ {x}] \in Int /\ f[x] \in Int
        BY <2>2, <3>1
    <3>4. g[s] \in Int
        BY <3>2, <3>3
    <3> QED BY <3>4
  <2> HIDE DEF T
  <2>3. SUBSET Rings \subseteq T
      BY <2>1, <2>2, RingsFinite, SubsetInduction
  <2>4. \A s \in SUBSET Rings : g[s] \in Int
      BY <2>3 DEF T
  <2>5. g = [s \in SUBSET Rings |-> g[s]]
      BY <1>3
  <2> QED BY <2>4, <2>5
<1> QED BY <1>3, <1>4, <1>5

LEMMA TotalInt ==
    ASSUME NEW f \in [Rings -> Int]
    PROVE  Total(f) \in Int
BY TotalSums

\* Nothing sums to nothing.
LEMMA TotalZero == Total([i \in Rings |-> 0]) = 0
<1> DEFINE f == [i \in Rings |-> 0]
<1>1. f \in [Rings -> Int] /\ \A i \in Rings : f[i] = 0
    OBVIOUS
<1> HIDE DEF f
<1>2. PICK g \in [SUBSET Rings -> Int] : Sums(g, f) /\ Total(f) = g[Rings]
    BY <1>1, TotalSums
<1> DEFINE T == {s \in SUBSET Rings : g[s] = 0}
<1>3. {} \in T
    BY <1>2 DEF Sums
<1>4. ASSUME NEW s \in SUBSET Rings, s # {}, \A x \in s : s \ {x} \in T
      PROVE  s \in T
  <2> DEFINE x == CHOOSE x \in s : TRUE
  <2>1. x \in s
      BY <1>4
  <2>2. g[s] = f[x] + g[s \ {x}]
      BY <1>2, <1>4 DEF Sums
  <2> HIDE DEF x
  <2> QED BY <1>1, <1>4, <2>1, <2>2
<1> HIDE DEF T
<1>5. SUBSET Rings \subseteq T
    BY <1>3, <1>4, RingsFinite, SubsetInduction
<1>6. g[Rings] = 0
    BY <1>5 DEF T
<1> QED BY <1>2, <1>6 DEF f

\* A change of one ring changes the sum by as much.
LEMMA TotalUpdate ==
    ASSUME NEW f \in [Rings -> Int], NEW h \in [Rings -> Int], NEW i \in Rings, NEW d \in Int,
           h[i] = f[i] + d, \A j \in Rings : j # i => h[j] = f[j]
    PROVE  Total(h) = Total(f) + d
<1>1. PICK g \in [SUBSET Rings -> Int] : Sums(g, f) /\ Total(f) = g[Rings]
    BY TotalSums
<1>2. PICK k \in [SUBSET Rings -> Int] : Sums(k, h) /\ Total(h) = k[Rings]
    BY TotalSums
<1> DEFINE T == {s \in SUBSET Rings : k[s] = g[s] + (IF i \in s THEN d ELSE 0)}
<1>3. {} \in T
  <2>1. g[{}] = 0 /\ k[{}] = 0
      BY <1>1, <1>2 DEF Sums
  <2> QED BY <2>1
<1>4. ASSUME NEW s \in SUBSET Rings, s # {}, \A x \in s : s \ {x} \in T
      PROVE  s \in T
  <2> DEFINE x == CHOOSE x \in s : TRUE
  <2>1. x \in s
      BY <1>4
  <2>2. g[s] = f[x] + g[s \ {x}] /\ k[s] = h[x] + k[s \ {x}]
      BY <1>1, <1>2, <1>4 DEF Sums
  <2> HIDE DEF x
  <2>3. k[s \ {x}] = g[s \ {x}] + (IF i \in s \ {x} THEN d ELSE 0)
      BY <1>4, <2>1
  <2>4. g[s \ {x}] \in Int /\ f[x] \in Int /\ h[x] \in Int
      BY <2>1
  <2>5. CASE x = i
      BY <2>1, <2>2, <2>3, <2>4, <2>5
  <2>6. CASE x # i
      BY <2>1, <2>2, <2>3, <2>4, <2>6
  <2> QED BY <2>5, <2>6
<1> HIDE DEF T
<1>5. SUBSET Rings \subseteq T
    BY <1>3, <1>4, RingsFinite, SubsetInduction
<1>6. k[Rings] = g[Rings] + d
    BY <1>5 DEF T
<1> QED BY <1>1, <1>2, <1>6

-----------------------------------------------------------------------------
(* The records of a file.                                                   *)

\* A frame that a batch was written as, and what may stand in a file.
Frames == [sequence : Nat \ {0}, records : Nat \ {0}]
Pieces == Frames \cup {Half}

\* A fold over a sequence takes its elements from the left.
LEMMA PrefixMax ==
    ASSUME NEW n \in Nat, NEW k \in 0..(n - 1)
    PROVE  /\ 1..(k + 1) \in SUBSET (1..n) /\ 1..(k + 1) # {}
           /\ Max(1..(k + 1)) = k + 1 /\ (1..(k + 1)) \ {k + 1} = 1..k
<1> DEFINE s == 1..(k + 1)
<1>1. k + 1 \in s /\ s \in SUBSET Int /\ IsFiniteSet(s)
    BY FS_Interval
<1>2. \A i \in s : i \in 1..n
    OBVIOUS
<1>3. s \ {k + 1} = 1..k
    OBVIOUS
<1>4. Max(s) \in s /\ Max(s) >= k + 1
  <2> HIDE DEF s
  <2> QED BY <1>1, MaxExists
<1>5. Max(s) = k + 1
    BY <1>4
<1> QED BY <1>1, <1>2, <1>3, <1>5

LEMMA MaxOfSome ==
    ASSUME NEW n \in Nat, NEW s \in SUBSET (1..n), s # {}
    PROVE  Max(s) \in s
<1>1. IsFiniteSet(1..n)
    BY FS_Interval
<1>2. IsFiniteSet(s)
    BY <1>1, FS_Subset
<1>3. s \in SUBSET Int
    OBVIOUS
<1> QED BY <1>2, <1>3, MaxExists

\* g counts the records of the first frames of s.
Counts(g, s) ==
    /\ g \in [0..Len(s) -> Nat]
    /\ g[0] = 0
    /\ \A k \in 0..(Len(s) - 1) : g[k + 1] = g[k] + s[k + 1].records

LEMMA RecordsCounts ==
    ASSUME NEW s \in Seq(Pieces)
    PROVE  \E g : Counts(g, s) /\ Records(s) = g[Len(s)]
<1> DEFINE n == Len(s)
           c == [t \in SUBSET (1..n) |-> Max(t)]
           op == [p \in Nat \X (1..n) |-> p[1] + s[p[2]].records]
           Eq(g) == g = [t \in SUBSET (1..n) |->
                            IF t = {} THEN 0 ELSE g[t \ {Max(t)}] + s[Max(t)].records]
<1>1. n \in Nat /\ DOMAIN s = 1..n /\ \A i \in 1..n : s[i].records \in Nat
    BY DEF Pieces, Frames, Half
<1>2. Records(s) = (CHOOSE g : Eq(g))[1..n]
  <2>1. Records(s) = (CHOOSE g : g = [t \in SUBSET DOMAIN s |->
                            IF t = {} THEN 0 ELSE g[t \ {Max(t)}] + s[Max(t)].records])[DOMAIN s]
      BY DEF Records, FoldLeft, MapThenFoldSet
  <2> HIDE DEF n
  <2> QED BY <2>1, <1>1
<1> HIDE DEF n
<1>3. \E g : Eq(g)
  <2>1. \A t \in SUBSET (1..n) : t # {} => c[t] \in t /\ c[t] = Max(t)
      BY <1>1, MaxOfSome
  <2>2. op \in [Nat \X (1..n) -> Nat]
      BY <1>1
  <2>3. PICK g \in [SUBSET (1..n) -> Nat] : Folds(g, 1..n, 0, op, c)
    <3>1. 0 \in Nat /\ IsFiniteSet(1..n)
        BY <1>1, FS_Interval
    <3> HIDE DEF c, op
    <3> QED BY <2>1, <2>2, <3>1, FoldExists
  <2>4. \A t \in SUBSET (1..n) : t # {} =>
          op[<<g[t \ {c[t]}], c[t]>>] = g[t \ {Max(t)}] + s[Max(t)].records
    <3> SUFFICES ASSUME NEW t \in SUBSET (1..n), t # {}
                 PROVE  op[<<g[t \ {c[t]}], c[t]>>] = g[t \ {c[t]}] + s[c[t]].records
        BY <2>1
    <3>1. c[t] \in 1..n /\ t \ {c[t]} \in SUBSET (1..n)
        BY <2>1
    <3>2. g[t \ {c[t]}] \in Nat
        BY <3>1
    <3> HIDE DEF c
    <3> QED BY <3>1, <3>2
  <2>5. Eq(g)
    <3> HIDE DEF op
    <3> QED BY <2>3, <2>4 DEF Folds
  <2> QED BY <2>5
<1>4. PICK g : Eq(g) /\ Records(s) = g[1..n]
  <2> HIDE DEF Eq
  <2> QED BY <1>2, <1>3
<1> DEFINE h == [k \in 0..n |-> g[1..k]]
<1>5. h[0] = 0
  <2>1. 1..0 = {} /\ {} \in SUBSET (1..n)
      OBVIOUS
  <2> QED BY <1>1, <1>4, <2>1
<1>6. \A k \in 0..(n - 1) : h[k + 1] = h[k] + s[k + 1].records
  <2> SUFFICES ASSUME NEW k \in 0..(n - 1)
               PROVE  g[1..(k + 1)] = g[1..k] + s[k + 1].records
      BY <1>1
  <2>1. /\ 1..(k + 1) \in SUBSET (1..n) /\ 1..(k + 1) # {}
        /\ Max(1..(k + 1)) = k + 1 /\ (1..(k + 1)) \ {k + 1} = 1..k
      BY <1>1, PrefixMax
  <2> DEFINE t == 1..(k + 1)
  <2>2. g[t] = g[t \ {Max(t)}] + s[Max(t)].records
    <3> HIDE DEF t
    <3> QED BY <1>4, <2>1 DEF t
  <2> QED BY <2>1, <2>2
<1> HIDE DEF h
<1>7. \A k \in 0..n : h[k] \in Nat
  <2> DEFINE K == {k \in Nat : k <= n => h[k] \in Nat}
  <2>1. 0 \in K
      BY <1>5
  <2>2. ASSUME NEW k \in Nat, k \in K PROVE k + 1 \in K
      BY <1>1, <1>6, <2>2
  <2> HIDE DEF K
  <2>3. Nat \subseteq K
      BY <2>1, <2>2, NatSetInduction
  <2> QED BY <2>3, <1>1 DEF K
<1>8. h \in [0..n -> Nat]
    BY <1>7 DEF h
<1>9. Records(s) = h[n]
  <2>1. n \in 0..n
      BY <1>1
  <2>2. h[n] = g[1..n]
      BY <2>1 DEF h
  <2> QED BY <1>4, <2>2
<1> QED BY <1>5, <1>6, <1>8, <1>9 DEF Counts, n

LEMMA RecordsNat ==
    ASSUME NEW s \in Seq(Pieces)
    PROVE  Records(s) \in Nat
<1>1. PICK g : Counts(g, s) /\ Records(s) = g[Len(s)]
    BY RecordsCounts
<1>2. Len(s) \in Nat /\ Len(s) \in 0..Len(s)
    OBVIOUS
<1> QED BY <1>1, <1>2 DEF Counts

LEMMA RecordsEmpty == Records(<<>>) = 0
<1>1. <<>> \in Seq(Pieces) /\ Len(<<>>) = 0
    OBVIOUS
<1>2. PICK g : Counts(g, <<>>) /\ Records(<<>>) = g[Len(<<>>)]
    BY <1>1, RecordsCounts
<1> QED BY <1>1, <1>2 DEF Counts

\* The records of a concatenation are those of its parts.
LEMMA RecordsConcat ==
    ASSUME NEW s \in Seq(Pieces), NEW t \in Seq(Pieces)
    PROVE  Records(s \o t) = Records(s) + Records(t)
<1> DEFINE st == s \o t
           m == Len(s)
           n == Len(t)
<1>1. /\ st \in Seq(Pieces) /\ Len(st) = m + n
      /\ m \in Nat /\ n \in Nat
      /\ \A i \in 1..m : st[i] = s[i]
      /\ \A i \in 1..n : st[m + i] = t[i]
  <2>1. /\ st \in Seq(Pieces) /\ Len(st) = m + n /\ m \in Nat /\ n \in Nat
        /\ \A i \in 1..(m + n) : st[i] = IF i <= m THEN s[i] ELSE t[i - m]
      BY ConcatProperties
  <2> HIDE DEF st, m, n
  <2>2. ASSUME NEW i \in 1..m PROVE st[i] = s[i]
      BY <2>1
  <2>3. ASSUME NEW i \in 1..n PROVE st[m + i] = t[i]
    <3>1. m + i \in 1..(m + n) /\ ~(m + i <= m) /\ (m + i) - m = i
        BY <2>1
    <3> QED BY <2>1, <3>1
  <2> QED BY <2>1, <2>2, <2>3
<1>2. PICK g : Counts(g, st) /\ Records(st) = g[Len(st)]
    BY <1>1, RecordsCounts
<1>3. PICK a : Counts(a, s) /\ Records(s) = a[m]
    BY RecordsCounts
<1>4. PICK b : Counts(b, t) /\ Records(t) = b[n]
    BY RecordsCounts
<1> HIDE DEF st, m, n
<1> USE DEF Counts
<1>5. \A k \in 0..m : g[k] = a[k]
  <2> DEFINE K == {k \in Nat : k <= m => g[k] = a[k]}
  <2>1. 0 \in K
      BY <1>2, <1>3
  <2>2. ASSUME NEW k \in Nat, k \in K PROVE k + 1 \in K
    <3> SUFFICES ASSUME k + 1 <= m PROVE g[k + 1] = a[k + 1]
        OBVIOUS
    <3>1. k \in 0..(m - 1) /\ k \in 0..(Len(st) - 1) /\ k + 1 \in 1..m /\ g[k] = a[k]
        BY <1>1, <2>2
    <3>2. g[k + 1] = g[k] + st[k + 1].records /\ st[k + 1] = s[k + 1]
        BY <1>1, <1>2, <3>1
    <3>3. a[k + 1] = a[k] + s[k + 1].records
        BY <1>3, <3>1 DEF m
    <3> QED BY <3>1, <3>2, <3>3
  <2> HIDE DEF K
  <2>3. Nat \subseteq K
      BY <2>1, <2>2, NatSetInduction
  <2> QED BY <2>3, <1>1 DEF K
<1>6. \A k \in 0..n : g[m + k] = a[m] + b[k]
  <2>1. m \in 0..m /\ a[m] \in Nat
    <3>1. a \in [0..m -> Nat] /\ m \in 0..m
        BY <1>1, <1>3 DEF m
    <3> QED BY <3>1
  <2> DEFINE K == {k \in Nat : k <= n => g[m + k] = a[m] + b[k]}
  <2>2. 0 \in K
    <3>1. g[m + 0] = a[m] /\ b[0] = 0
        BY <1>1, <1>4, <1>5, <2>1
    <3> QED BY <2>1, <3>1
  <2>3. ASSUME NEW k \in Nat, k \in K PROVE k + 1 \in K
    <3> SUFFICES ASSUME k + 1 <= n PROVE g[m + (k + 1)] = a[m] + b[k + 1]
        OBVIOUS
    <3>1. /\ m + k \in 0..(Len(st) - 1) /\ k \in 0..(n - 1) /\ k + 1 \in 1..n
          /\ k \in 0..n /\ k + 1 \in 0..n
          /\ (m + k) + 1 = m + (k + 1) /\ g[m + k] = a[m] + b[k]
        BY <1>1, <2>3
    <3>2. g[m + (k + 1)] = g[m + k] + t[k + 1].records
      <4>1. g[(m + k) + 1] = g[m + k] + st[(m + k) + 1].records
          BY <1>2, <3>1
      <4>2. st[m + (k + 1)] = t[k + 1]
          BY <1>1, <3>1
      <4> QED BY <3>1, <4>1, <4>2
    <3>3. b[k + 1] = b[k] + t[k + 1].records
        BY <1>4, <3>1 DEF n
    <3>4. b[k] \in Nat /\ b[k + 1] \in Nat /\ t[k + 1].records \in Int
      <4>1. b[k] \in Nat /\ b[k + 1] \in Nat
          BY <1>4, <3>1 DEF n
      <4>2. t[k + 1] \in Pieces
          BY <3>1 DEF n
      <4>3. t[k + 1].records \in Int
          BY <4>2 DEF Pieces, Frames, Half
      <4> QED BY <4>1, <4>3
    <3>5. a[m] + (b[k] + t[k + 1].records) = (a[m] + b[k]) + t[k + 1].records
        BY <2>1, <3>4, Z3
    <3>6. g[m + k] = a[m] + b[k]
        BY <3>1
    <3> QED BY <3>2, <3>3, <3>5, <3>6
  <2> HIDE DEF K
  <2>4. Nat \subseteq K
      BY <2>2, <2>3, NatSetInduction
  <2> QED BY <2>4, <1>1 DEF K
<1>7. g[m + n] = a[m] + b[n]
    BY <1>1, <1>6
<1>8. Records(st) = Records(s) + Records(t)
    BY <1>1, <1>2, <1>3, <1>4, <1>7
<1> QED BY <1>8 DEF st

\* One more frame adds its records.
LEMMA RecordsAppend ==
    ASSUME NEW s \in Seq(Pieces), NEW f \in Pieces
    PROVE  Records(Append(s, f)) = Records(s) + f.records
<1> DEFINE t == <<f>>
<1>1. t \in Seq(Pieces) /\ Len(t) = 1 /\ t[1] = f
    OBVIOUS
<1> HIDE DEF t
<1>2. PICK g : Counts(g, t) /\ Records(t) = g[Len(t)]
    BY <1>1, RecordsCounts
<1>3. g[0] = 0 /\ g[0 + 1] = g[0] + t[0 + 1].records
    BY <1>1, <1>2 DEF Counts
<1>4. Records(t) = f.records
  <2>1. f.records \in Int
      BY DEF Pieces, Frames, Half
  <2> QED BY <1>1, <1>2, <1>3, <2>1
<1>5. Records(s \o t) = Records(s) + Records(t)
    BY <1>1, RecordsConcat
<1>6. Append(s, f) = s \o t
    BY DEF t
<1> QED BY <1>4, <1>5, <1>6

-----------------------------------------------------------------------------
(* The reader.                                                              *)

\* What a reader that met no corrupt file has.
Reading == [frames : Seq(Frames), err : {"none", "torn"}]

\* The files in which a half frame stands at the end if anywhere.
SoundFiles == {f \in Seq(Pieces) : ReadFile(f) \in Reading}

LEMMA HalfIsNoFrame == Half \notin Frames
  BY DEF Half, Frames

LEMMA ReadWhole ==
    ASSUME NEW s \in Seq(Frames)
    PROVE  ReadFile(s) = [frames |-> s, err |-> "none"]
<1>1. {i \in DOMAIN s : s[i] = Half} = {}
  <2>1. \A i \in DOMAIN s : s[i] \in Frames
      OBVIOUS
  <2> QED BY <2>1, HalfIsNoFrame
<1>2. SubSeq(s, 1, Len(s)) = s
    BY SubSeqFull
<1> QED BY <1>1, <1>2 DEF ReadFile

LEMMA ReadTorn ==
    ASSUME NEW s \in Seq(Frames)
    PROVE  ReadFile(Append(s, Half)) = [frames |-> s, err |-> "torn"]
<1> DEFINE f == Append(s, Half)
           m == Len(s)
           bad == {i \in DOMAIN f : f[i] = Half}
<1>1. /\ f \in Seq(Pieces) /\ Len(f) = m + 1 /\ m \in Nat /\ DOMAIN f = 1..(m + 1)
      /\ \A i \in 1..m : f[i] = s[i]
      /\ f[m + 1] = Half
  <2>1. s \in Seq(Pieces)
      BY DEF Pieces
  <2>2. Half \in Pieces
      BY DEF Pieces
  <2> QED BY <2>1, <2>2
<1>2. \A i \in 1..m : f[i] # Half
  <2>1. \A i \in 1..m : s[i] \in Frames
      OBVIOUS
  <2> QED BY <1>1, <2>1, HalfIsNoFrame
<1> HIDE DEF f, m
<1>3. bad = {m + 1}
    BY <1>1, <1>2
<1>4. Min(bad) = m + 1
    BY <1>1, <1>3 DEF Min
<1>5. SubSeq(f, 1, m) = s
  <2>1. \A i \in 1..m : f[i] \in Frames
    <3>1. \A i \in 1..m : s[i] \in Frames
        BY DEF m
    <3> QED BY <1>1, <3>1
  <2>2. /\ SubSeq(f, 1, m) \in Seq(Frames)
        /\ Len(SubSeq(f, 1, m)) = IF 1 <= m THEN m - 1 + 1 ELSE 0
        /\ \A i \in 1..(m - 1 + 1) : SubSeq(f, 1, m)[i] = f[1 + i - 1]
      BY <1>1, <2>1, SubSeqProperties
  <2>3. Len(SubSeq(f, 1, m)) = Len(s)
      BY <1>1, <2>2 DEF m
  <2>4. \A i \in 1..Len(s) : SubSeq(f, 1, m)[i] = s[i]
    <3> SUFFICES ASSUME NEW i \in 1..m PROVE SubSeq(f, 1, m)[i] = s[i]
        BY DEF m
    <3>1. i \in 1..(m - 1 + 1) /\ 1 + i - 1 = i
        BY <1>1
    <3> QED BY <1>1, <2>2, <3>1
  <2> QED BY <2>2, <2>3, <2>4, SeqEqual
<1>6. /\ bad # {} /\ Min(bad) - 1 = m /\ (Min(bad) - 1) + 1 = Len(f)
    BY <1>1, <1>3, <1>4
<1>7. ReadFile(f) = [frames |-> s, err |-> "torn"]
  <2>1. ReadFile(f) = [frames |-> SubSeq(f, 1, Min(bad) - 1),
                       err |-> IF (Min(bad) - 1) + 1 = Len(f) THEN "torn" ELSE "corrupt"]
      BY <1>6 DEF ReadFile
  <2> HIDE DEF bad
  <2> QED BY <1>5, <1>6, <2>1
<1> QED BY <1>7 DEF f

\* g holds what ReadDir has after the first files of p.
Reads(g, p) ==
    /\ g \in [0..Len(p) -> Reading]
    /\ g[0] = [frames |-> <<>>, err |-> "none"]
    /\ \A k \in 0..(Len(p) - 1) : g[k + 1] = ReadNext(g[k], p[k + 1])

LEMMA ReadNextTyped ==
    ASSUME NEW got \in Reading, NEW f \in SoundFiles
    PROVE  /\ ReadNext(got, f) \in Reading
           /\ ReadNext(got, f).frames = got.frames \o ReadFile(f).frames
BY DEF ReadNext, Reading, SoundFiles

LEMMA ReadAllReads ==
    ASSUME NEW p \in Seq(SoundFiles)
    PROVE  \E g : Reads(g, p) /\ ReadAll(p) = g[Len(p)]
<1> DEFINE n == Len(p)
           none == [frames |-> <<>>, err |-> "none"]
           c == [t \in SUBSET (1..n) |-> Max(t)]
           op == [q \in Reading \X (1..n) |-> ReadNext(q[1], p[q[2]])]
           Eq(g) == g = [t \in SUBSET (1..n) |->
                            IF t = {} THEN none ELSE ReadNext(g[t \ {Max(t)}], p[Max(t)])]
<1>1. n \in Nat /\ DOMAIN p = 1..n /\ \A i \in 1..n : p[i] \in SoundFiles
    OBVIOUS
<1>2. ReadAll(p) = (CHOOSE g : Eq(g))[1..n]
  <2>1. ReadAll(p) = (CHOOSE g : g = [t \in SUBSET DOMAIN p |->
                         IF t = {} THEN none ELSE ReadNext(g[t \ {Max(t)}], p[Max(t)])])[DOMAIN p]
      BY DEF ReadAll, FoldLeft, MapThenFoldSet
  <2> HIDE DEF n, none
  <2> QED BY <2>1, <1>1
<1> HIDE DEF n
<1>none. none \in Reading
    BY DEF Reading
<1> HIDE DEF none
<1>3. \E g : Eq(g)
  <2>1. \A t \in SUBSET (1..n) : t # {} => c[t] \in t /\ c[t] = Max(t)
      BY <1>1, MaxOfSome
  <2>2. op \in [Reading \X (1..n) -> Reading]
      BY <1>1, ReadNextTyped
  <2>3. PICK g \in [SUBSET (1..n) -> Reading] : Folds(g, 1..n, none, op, c)
    <3>1. IsFiniteSet(1..n)
        BY <1>1, FS_Interval
    <3> HIDE DEF c, op
    <3> QED BY <2>1, <2>2, <1>none, <3>1, FoldExists
  <2>4. \A t \in SUBSET (1..n) : t # {} =>
          op[<<g[t \ {c[t]}], c[t]>>] = ReadNext(g[t \ {Max(t)}], p[Max(t)])
    <3> SUFFICES ASSUME NEW t \in SUBSET (1..n), t # {}
                 PROVE  op[<<g[t \ {c[t]}], c[t]>>] = ReadNext(g[t \ {c[t]}], p[c[t]])
        BY <2>1
    <3>1. c[t] \in 1..n /\ t \ {c[t]} \in SUBSET (1..n)
        BY <2>1
    <3>2. g[t \ {c[t]}] \in Reading
        BY <3>1
    <3> HIDE DEF c
    <3> QED BY <3>1, <3>2
  <2>5. Eq(g)
    <3> HIDE DEF op
    <3> QED BY <2>3, <2>4 DEF Folds
  <2> QED BY <2>5
<1>4. PICK g : Eq(g) /\ ReadAll(p) = g[1..n]
  <2> HIDE DEF Eq
  <2> QED BY <1>2, <1>3
<1> DEFINE h == [k \in 0..n |-> g[1..k]]
<1>5. h[0] = none
  <2>1. 1..0 = {} /\ {} \in SUBSET (1..n)
      OBVIOUS
  <2> QED BY <1>1, <1>4, <2>1
<1>6. \A k \in 0..(n - 1) : h[k + 1] = ReadNext(h[k], p[k + 1])
  <2> SUFFICES ASSUME NEW k \in 0..(n - 1)
               PROVE  g[1..(k + 1)] = ReadNext(g[1..k], p[k + 1])
      BY <1>1
  <2>1. /\ 1..(k + 1) \in SUBSET (1..n) /\ 1..(k + 1) # {}
        /\ Max(1..(k + 1)) = k + 1 /\ (1..(k + 1)) \ {k + 1} = 1..k
      BY <1>1, PrefixMax
  <2> DEFINE t == 1..(k + 1)
  <2>2. g[t] = ReadNext(g[t \ {Max(t)}], p[Max(t)])
    <3> HIDE DEF t
    <3> QED BY <1>4, <2>1 DEF t
  <2> QED BY <2>1, <2>2
<1> HIDE DEF h
<1>7. \A k \in 0..n : h[k] \in Reading
  <2> DEFINE K == {k \in Nat : k <= n => h[k] \in Reading}
  <2>1. 0 \in K
      BY <1>5, <1>none
  <2>2. ASSUME NEW k \in Nat, k \in K PROVE k + 1 \in K
    <3> SUFFICES ASSUME k + 1 <= n PROVE h[k + 1] \in Reading
        OBVIOUS
    <3>1. k \in 0..(n - 1) /\ k + 1 \in 1..n /\ h[k] \in Reading
        BY <1>1, <2>2
    <3> QED BY <1>1, <1>6, <3>1, ReadNextTyped
  <2> HIDE DEF K
  <2>3. Nat \subseteq K
      BY <2>1, <2>2, NatSetInduction
  <2> QED BY <2>3, <1>1 DEF K
<1>8. h \in [0..n -> Reading]
    BY <1>7 DEF h
<1>9. ReadAll(p) = h[n]
  <2>1. n \in 0..n
      BY <1>1
  <2>2. h[n] = g[1..n]
      BY <2>1 DEF h
  <2> QED BY <1>4, <2>2
<1> QED BY <1>5, <1>6, <1>8, <1>9 DEF Reads, n, none

\* The reader of one more segment gets the frames of that one after the others.
LEMMA ReadAllAppend ==
    ASSUME NEW p \in Seq(SoundFiles), NEW f \in SoundFiles
    PROVE  /\ ReadAll(p).frames \in Seq(Frames)
           /\ ReadAll(Append(p, f)).frames = ReadAll(p).frames \o ReadFile(f).frames
<1> DEFINE q == Append(p, f)
           n == Len(p)
<1>1. /\ q \in Seq(SoundFiles) /\ Len(q) = n + 1 /\ n \in Nat
      /\ \A i \in 1..n : q[i] = p[i]
      /\ q[n + 1] = f
    OBVIOUS
<1>2. PICK g : Reads(g, p) /\ ReadAll(p) = g[n]
    BY ReadAllReads
<1> HIDE DEF q
<1>3. PICK h : Reads(h, q) /\ ReadAll(q) = h[n + 1]
    BY <1>1, ReadAllReads
<1> HIDE DEF n
<1>4. \A k \in 0..n : h[k] = g[k]
  <2> DEFINE K == {k \in Nat : k <= n => h[k] = g[k]}
  <2>1. 0 \in K
      BY <1>2, <1>3 DEF Reads
  <2>2. ASSUME NEW k \in Nat, k \in K PROVE k + 1 \in K
    <3> SUFFICES ASSUME k + 1 <= n PROVE h[k + 1] = g[k + 1]
        OBVIOUS
    <3>1. k \in 0..(n - 1) /\ k \in 0..(Len(q) - 1) /\ k + 1 \in 1..n /\ h[k] = g[k]
        BY <1>1, <2>2
    <3>2. h[k + 1] = ReadNext(h[k], q[k + 1]) /\ q[k + 1] = p[k + 1]
        BY <1>1, <1>3, <3>1 DEF Reads
    <3>3. g[k + 1] = ReadNext(g[k], p[k + 1])
        BY <1>2, <3>1 DEF Reads, n
    <3> QED BY <3>1, <3>2, <3>3
  <2> HIDE DEF K
  <2>3. Nat \subseteq K
      BY <2>1, <2>2, NatSetInduction
  <2> QED BY <2>3, <1>1 DEF K
<1>5. h[n + 1] = ReadNext(h[n], f)
  <2>1. n \in 0..(Len(q) - 1)
      BY <1>1
  <2> QED BY <1>1, <1>3, <2>1 DEF Reads
<1>6. g[n] \in Reading
  <2>1. g \in [0..n -> Reading] /\ n \in 0..n
      BY <1>1, <1>2 DEF Reads, n
  <2> QED BY <2>1
<1>7. h[n] = g[n]
    BY <1>1, <1>4
<1>8. ReadAll(q).frames = ReadAll(p).frames \o ReadFile(f).frames
  <2>1. ReadAll(q) = ReadNext(ReadAll(p), f)
      BY <1>2, <1>3, <1>5, <1>7
  <2>2. ReadAll(p) \in Reading
      BY <1>2, <1>6
  <2> QED BY <2>1, <2>2, ReadNextTyped
<1> QED BY <1>2, <1>6, <1>8 DEF q, Reading

LEMMA ReadAllEmpty == ReadAll(<<>>).frames = <<>>
<1>1. <<>> \in Seq(SoundFiles) /\ Len(<<>>) = 0
    OBVIOUS
<1>2. PICK g : Reads(g, <<>>) /\ ReadAll(<<>>) = g[Len(<<>>)]
    BY <1>1, ReadAllReads
<1> QED BY <1>1, <1>2 DEF Reads

-----------------------------------------------------------------------------
(* The inductive invariant.                                                 *)

TypeOK ==
    /\ ring \in [Rings -> Nat]
    /\ pc \in {"select", "drain", "write", "drained", "exited"}
    /\ cur \in Rings
    /\ held \in 0..Batch /\ (pc = "write" <=> held > 0)
    /\ final \in BOOLEAN /\ canceled \in BOOLEAN
    /\ segment \in Seq(Frames) /\ published \in Seq(SoundFiles)
    /\ stranded \in Nat /\ sequence \in Nat
    /\ written \in Nat /\ lost \in Nat /\ drops \in Nat
    /\ pushes \in Nat /\ latePushes \in Nat /\ ioErrors \in Nat

\* Frames carry growing numbers, up to q.
Numbered(frames, q) ==
    /\ \A i \in 2..Len(frames) : frames[i - 1].sequence < frames[i].sequence
    /\ \A i \in 1..Len(frames) : frames[i].sequence <= q

\* What the reader gets from the files p, and the open segment s after them, hold
\* the w records counted as written but for n stranded ones, in the order of their
\* numbers, of which q have been given out.
Accounts(p, s, n, w, q) ==
    /\ Records(ReadAll(p).frames) + Records(s) + n = w
    /\ Numbered(ReadAll(p).frames \o s, q)

FilesInv == Accounts(published, segment, stranded, written, sequence)

\* The last pass has left ring i: it emptied the ring, or met its end in a batch
\* that was not full.
Left(i) ==
    \/ pc \in {"drained", "exited"}
    \/ i < cur
    \/ i = cur /\ pc = "write" /\ held < Batch

\* What the rings that it has left hold.
Behind == [i \in Rings |-> IF Left(i) THEN ring[i] ELSE 0]

\* When no file operation fails, the rings that the last pass has left hold no more
\* than was pushed since the signal.
FlushInv ==
    /\ final => canceled
    /\ pc = "exited" => final
    /\ final /\ ioErrors = 0 => Total(Behind) <= latePushes

Inv == TypeOK /\ Conserved /\ FilesInv /\ FlushInv

LEMMA FramesArePieces == \A s \in Seq(Frames) : s \in Seq(Pieces)
BY DEF Pieces

\* A file of whole frames, whether or not a half one follows, is a sound file that
\* the reader gets all whole frames of.
LEMMA SoundFile ==
    ASSUME NEW s \in Seq(Frames), NEW f \in {s, Append(s, Half)}
    PROVE  f \in SoundFiles /\ ReadFile(f).frames = s /\ Records(f) = Records(s)
<1>1. s \in Seq(Pieces) /\ Half \in Pieces
    BY DEF Pieces
<1>2. CASE f = s
  <2>1. ReadFile(f) = [frames |-> s, err |-> "none"]
      BY <1>2, ReadWhole
  <2> QED BY <1>1, <1>2, <2>1 DEF SoundFiles, Reading
<1>3. CASE f = Append(s, Half)
  <2>1. ReadFile(f) = [frames |-> s, err |-> "torn"]
      BY <1>3, ReadTorn
  <2>2. f \in Seq(Pieces)
      BY <1>1, <1>3
  <2>3. Records(f) = Records(s) + 0 /\ Records(s) \in Nat
      BY <1>1, <1>3, RecordsAppend, RecordsNat DEF Half
  <2>4. f \in SoundFiles
      BY <2>1, <2>2 DEF SoundFiles, Reading
  <2> QED BY <2>1, <2>3, <2>4
<1> QED BY <1>2, <1>3

LEMMA NumberedPrefix ==
    ASSUME NEW d \in Seq(Frames), NEW s \in Seq(Frames), NEW q, Numbered(d \o s, q)
    PROVE  Numbered(d, q)
<1>1. /\ Len(d \o s) = Len(d) + Len(s) /\ Len(d) \in Nat /\ Len(s) \in Nat
      /\ \A i \in 1..(Len(d) + Len(s)) : (d \o s)[i] = IF i <= Len(d) THEN d[i] ELSE s[i - Len(d)]
    BY ConcatProperties
<1>2. \A i \in 1..Len(d) : i \in 1..Len(d \o s) /\ (d \o s)[i] = d[i]
    BY <1>1
<1>3. \A i \in 2..Len(d) : i \in 2..Len(d \o s) /\ i \in 1..Len(d) /\ i - 1 \in 1..Len(d)
    BY <1>1
<1> QED BY <1>2, <1>3 DEF Numbered

LEMMA NumberedAppend ==
    ASSUME NEW s \in Seq(Frames), NEW q \in Nat, NEW n \in Nat \ {0}, Numbered(s, q)
    PROVE  Numbered(Append(s, Frame(q + 1, n)), q + 1)
<1> DEFINE f == Frame(q + 1, n)
           m == Len(s)
           t == Append(s, f)
<1>1. /\ m \in Nat /\ Len(t) = m + 1
      /\ \A i \in 1..m : t[i] = s[i] /\ s[i].sequence \in Nat /\ s[i].sequence <= q
      /\ t[m + 1].sequence = q + 1
  <2>1. \A i \in 1..m : s[i].sequence \in Nat
    <3>1. \A i \in 1..m : s[i] \in Frames
        OBVIOUS
    <3> QED BY <3>1 DEF Frames
  <2> QED BY <2>1 DEF Numbered, Frame
<1>2. \A i \in 2..m : s[i - 1].sequence < s[i].sequence
    BY DEF Numbered
<1> HIDE DEF t, m
<1>3. ASSUME NEW i \in 2..(m + 1) PROVE t[i - 1].sequence < t[i].sequence
  <2>1. i - 1 \in 1..m
      BY <1>1
  <2>2. CASE i = m + 1
    <3>1. t[i - 1].sequence <= q /\ t[i - 1].sequence \in Nat /\ t[i].sequence = q + 1
        BY <1>1, <2>1, <2>2
    <3> QED BY <3>1
  <2>3. CASE i # m + 1
    <3>1. i \in 2..m /\ i \in 1..m
        BY <1>1, <2>3
    <3> QED BY <1>1, <1>2, <2>1, <3>1
  <2> QED BY <2>2, <2>3
<1>4. ASSUME NEW i \in 1..(m + 1) PROVE t[i].sequence <= q + 1
  <2>1. CASE i = m + 1
      BY <1>1, <2>1
  <2>2. CASE i # m + 1
    <3>1. i \in 1..m
        BY <1>1, <2>2
    <3>2. t[i].sequence <= q /\ t[i].sequence \in Nat
        BY <1>1, <3>1
    <3> QED BY <3>2
  <2> QED BY <2>1, <2>2
<1>5. Numbered(t, q + 1)
    BY <1>1, <1>3, <1>4 DEF Numbered
<1> QED BY <1>5 DEF t

LEMMA NumberedMore ==
    ASSUME NEW s \in Seq(Frames), NEW q \in Nat, NEW r \in Nat, q <= r, Numbered(s, q)
    PROVE  Numbered(s, r)
<1>1. \A i \in 1..Len(s) : s[i].sequence \in Nat
  <2>1. \A i \in 1..Len(s) : s[i] \in Frames
      OBVIOUS
  <2> QED BY <2>1 DEF Frames
<1> QED BY <1>1 DEF Numbered

-----------------------------------------------------------------------------
(* What a step does to the files.                                           *)

LEMMA ReadAllTyped ==
    ASSUME NEW p \in Seq(SoundFiles)
    PROVE  ReadAll(p).frames \in Seq(Frames)
<1>1. PICK g : Reads(g, p) /\ ReadAll(p) = g[Len(p)]
    BY ReadAllReads
<1>2. g[Len(p)] \in Reading
  <2>1. g \in [0..Len(p) -> Reading] /\ Len(p) \in 0..Len(p)
      BY <1>1 DEF Reads
  <2> QED BY <2>1
<1> QED BY <1>1, <1>2 DEF Reading

\* A number given out and not used.
LEMMA AccountsLater ==
    ASSUME NEW p \in Seq(SoundFiles), NEW s \in Seq(Frames), NEW n, NEW w,
           NEW q \in Nat, NEW r \in Nat, q <= r, Accounts(p, s, n, w, q)
    PROVE  Accounts(p, s, n, w, r)
<1>1. ReadAll(p).frames \o s \in Seq(Frames)
    BY ReadAllTyped, ConcatProperties
<1>2. Numbered(ReadAll(p).frames \o s, r)
    BY <1>1, NumberedMore DEF Accounts
<1> QED BY <1>2 DEF Accounts

\* A batch of k records is written.
LEMMA AccountsWrite ==
    ASSUME NEW p \in Seq(SoundFiles), NEW s \in Seq(Frames), NEW n \in Nat, NEW w \in Nat,
           NEW q \in Nat, NEW k \in Nat \ {0}, Accounts(p, s, n, w, q)
    PROVE  /\ Append(s, Frame(q + 1, k)) \in Seq(Frames)
           /\ Accounts(p, Append(s, Frame(q + 1, k)), n, w + k, q + 1)
<1> DEFINE f == Frame(q + 1, k)
           d == ReadAll(p).frames
<1>1. f \in Frames /\ f \in Pieces /\ f.records = k
    BY DEF Frame, Frames, Pieces
<1>2. d \in Seq(Frames)
    BY ReadAllTyped
<1> HIDE DEF d
<1>3. Numbered(d \o s, q) /\ Records(d) + Records(s) + n = w
    BY DEF Accounts, d
<1>4. Numbered(Append(d \o s, f), q + 1)
  <2>1. d \o s \in Seq(Frames)
      BY <1>2, ConcatProperties
  <2> QED BY <1>3, <2>1, NumberedAppend
<1> HIDE DEF f
<1>5. Append(s, f) \in Seq(Frames)
    BY <1>1
<1>6. d \o Append(s, f) = Append(d \o s, f)
  <2>1. <<f>> \in Seq(Frames)
      BY <1>1
  <2>2. (d \o s) \o <<f>> = d \o (s \o <<f>>)
      BY <1>2, <2>1, ConcatAssociative, SMTT(30)
  <2>3. d \o s \in Seq(Frames)
      BY <1>2, ConcatProperties
  <2>4. Append(s, f) = s \o <<f>> /\ Append(d \o s, f) = (d \o s) \o <<f>>
      BY <1>1, <2>3
  <2> QED BY <2>2, <2>4
<1>7. Records(d) + Records(Append(s, f)) + n = w + k
  <2>1. Records(Append(s, f)) = Records(s) + k
      BY <1>1, RecordsAppend, FramesArePieces
  <2>2. Records(s) \in Nat /\ Records(d) \in Nat
      BY <1>2, RecordsNat, FramesArePieces
  <2>3. PICK a, b : a = Records(d) /\ b = Records(s)
      OBVIOUS
  <2>4. a \in Nat /\ b \in Nat /\ a + b + n = w
      BY <1>3, <2>2, <2>3
  <2>5. a + (b + k) + n = w + k
      BY <2>4
  <2> QED BY <2>1, <2>3, <2>5
<1> QED BY <1>4, <1>5, <1>6, <1>7 DEF Accounts, d, f

\* The segment s is given up.
LEMMA AccountsStrand ==
    ASSUME NEW p \in Seq(SoundFiles), NEW s \in Seq(Frames), NEW n \in Nat, NEW w \in Nat,
           NEW q \in Nat, Accounts(p, s, n, w, q)
    PROVE  Accounts(p, <<>>, n + Records(s), w, q)
<1> DEFINE d == ReadAll(p).frames
<1>1. d \in Seq(Frames)
    BY ReadAllTyped
<1> HIDE DEF d
<1>2. Numbered(d \o s, q) /\ Records(d) + Records(s) + n = w
    BY DEF Accounts, d
<1>3. Numbered(d \o <<>>, q)
  <2>1. Numbered(d, q)
      BY <1>1, <1>2, NumberedPrefix
  <2>2. d \o <<>> = d
      BY <1>1, ConcatEmptySeq
  <2> QED BY <2>1, <2>2
<1>4. Records(d) + Records(<<>>) + (n + Records(s)) = w
  <2>1. Records(s) \in Nat /\ Records(d) \in Nat /\ Records(<<>>) = 0
      BY <1>1, RecordsNat, RecordsEmpty, FramesArePieces
  <2> QED BY <1>2, <2>1
<1> QED BY <1>3, <1>4 DEF Accounts, d

\* The segment s is published, as it is or with a half frame after it, unless
\* there is nothing in it.
LEMMA AccountsPublish ==
    ASSUME NEW p \in Seq(SoundFiles), NEW s \in Seq(Frames), NEW n \in Nat, NEW w \in Nat,
           NEW q \in Nat, Accounts(p, s, n, w, q), NEW f \in {s, Append(s, Half)},
           NEW p2, p2 = IF Records(f) > 0 THEN Append(p, f) ELSE p
    PROVE  p2 \in Seq(SoundFiles) /\ Accounts(p2, <<>>, n, w, q)
<1>1. f \in SoundFiles /\ ReadFile(f).frames = s /\ Records(f) = Records(s)
    BY SoundFile
<1>2. Records(s) \in Nat
    BY RecordsNat, FramesArePieces
<1>3. CASE Records(f) > 0
  <2> DEFINE d == ReadAll(p).frames
  <2>1. p2 = Append(p, f) /\ p2 \in Seq(SoundFiles)
      BY <1>1, <1>3
  <2>2. d \in Seq(Frames) /\ ReadAll(p2).frames = d \o s
      BY <1>1, <2>1, ReadAllAppend
  <2> HIDE DEF d
  <2>3. Numbered(d \o s, q) /\ Records(d) + Records(s) + n = w
      BY DEF Accounts, d
  <2>4. (d \o s) \o <<>> = d \o s
    <3>1. d \o s \in Seq(Frames)
        BY <2>2, ConcatProperties
    <3> QED BY <3>1, ConcatEmptySeq
  <2>5. Records(d \o s) = Records(d) + Records(s)
      BY <2>2, RecordsConcat, FramesArePieces
  <2>6. Records(d \o s) + Records(<<>>) + n = w
    <3>1. Records(d) \in Nat
        BY <2>2, RecordsNat, FramesArePieces
    <3> QED BY <1>2, <2>3, <2>5, <3>1, RecordsEmpty
  <2> QED BY <2>1, <2>2, <2>3, <2>4, <2>6 DEF Accounts
<1>4. CASE ~(Records(f) > 0)
  <2>1. Records(s) = 0 /\ p2 = p
      BY <1>1, <1>2, <1>4
  <2>2. Accounts(p, <<>>, n + Records(s), w, q)
      BY AccountsStrand
  <2>3. n + Records(s) = n
      BY <2>1
  <2> QED BY <2>1, <2>2, <2>3
<1> QED BY <1>3, <1>4

FileTypes == segment \in Seq(Frames) /\ published \in Seq(SoundFiles) /\ stranded \in Nat

LEMMA InitInv == Init => Inv
<1> SUFFICES ASSUME Init PROVE Inv
    OBVIOUS
<1> USE RecorderAssumption
<1>1. TypeOK
  <2>1. ring \in [Rings -> Nat] /\ cur \in Rings
      BY DEF Init, Rings
  <2>2. held \in 0..Batch /\ (pc = "write" <=> held > 0)
      BY DEF Init
  <2>3. segment \in Seq(Frames) /\ published \in Seq(SoundFiles)
      BY DEF Init
  <2> QED BY <2>1, <2>2, <2>3 DEF Init, TypeOK
<1>2. Conserved
  <2>1. Queued = 0
      BY TotalZero DEF Init, Queued, Total
  <2> QED BY <2>1 DEF Init, Conserved
<1>3. FilesInv
  <2>1. Records(<<>>) = 0 /\ ReadAll(<<>>).frames = <<>>
      BY RecordsEmpty, ReadAllEmpty
  <2>2. Numbered(<<>> \o <<>>, 0)
      BY DEF Numbered
  <2>3. Accounts(<<>>, <<>>, 0, 0, 0)
      BY <2>1, <2>2 DEF Accounts
  <2> QED BY <2>3 DEF Init, FilesInv
<1>4. FlushInv
    BY DEF Init, FlushInv
<1> QED BY <1>1, <1>2, <1>3, <1>4 DEF Inv

\* A segment with content s is closed.
LEMMA CloseKeeps ==
    ASSUME published \in Seq(SoundFiles), stranded \in Nat, ioErrors \in Nat,
           NEW s \in Seq(Frames), NEW w \in Nat, NEW q \in Nat,
           Accounts(published, s, stranded, w, q),
           CloseSegment(s)
    PROVE  /\ segment' = <<>> /\ published' \in Seq(SoundFiles)
           /\ stranded' \in Nat /\ ioErrors' \in Nat
           /\ Accounts(published', <<>>, stranded', w, q)
<1>1. segment' = <<>>
    BY DEF CloseSegment
<1>2. CASE Publish(s) /\ UNCHANGED ioErrors
  <2>1. s \in {s, Append(s, Half)}
      OBVIOUS
  <2>2. /\ published' = IF Records(s) > 0 THEN Append(published, s) ELSE published
        /\ stranded' = stranded
      BY <1>2 DEF Publish
  <2>3. published' \in Seq(SoundFiles) /\ Accounts(published', <<>>, stranded, w, q)
      BY <2>1, <2>2, AccountsPublish
  <2> QED BY <1>1, <1>2, <2>2, <2>3
<1>3. CASE IOError /\ Strand(s)
  <2>1. Records(s) \in Nat
      BY RecordsNat, FramesArePieces
  <2>2. Accounts(published, <<>>, stranded + Records(s), w, q)
      BY AccountsStrand
  <2> QED BY <1>1, <1>3, <2>1, <2>2 DEF IOError, Strand
<1> QED BY <1>2, <1>3 DEF CloseSegment

\* A step that touches no file and gives out no number.
LEMMA FilesAtRest ==
    ASSUME TypeOK, FilesInv, UNCHANGED <<segment, published, stranded, written>>,
           sequence' \in Nat, sequence' >= sequence
    PROVE  FileTypes' /\ FilesInv'
<1>1. Accounts(published, segment, stranded, written, sequence')
    BY AccountsLater DEF TypeOK, FilesInv
<1> QED BY <1>1 DEF TypeOK, FileTypes, FilesInv

LEMMA FilesNext ==
    ASSUME TypeOK, FilesInv, [Next]_vars
    PROVE  FileTypes' /\ FilesInv' /\ sequence' \in Nat /\ ioErrors' \in Nat
<1> USE DEF TypeOK
<1>1. CASE UNCHANGED vars
    BY <1>1, FilesAtRest DEF vars, files, counters
<1>2. ASSUME NEW i \in Rings, Push(i) PROVE FileTypes' /\ FilesInv' /\ sequence' \in Nat /\ ioErrors' \in Nat
    BY <1>2, FilesAtRest DEF Push, files
<1>3. CASE Shutdown \/ ServeReturns \/ Tick \/ Done \/ Drain \/ Wait \/ Ended
    BY <1>3, FilesAtRest, SMTT(30)
       DEF Shutdown, ServeReturns, Tick, Done, Drain, Wait, Ended, files, counters, vars
<1>4. CASE Write
  <2> DEFINE s == Append(segment, Frame(sequence + 1, held))
  <2>1. held \in Nat \ {0}
      BY <1>4 DEF Write
  <2>2. /\ s \in Seq(Frames)
        /\ Accounts(published, s, stranded, written + held, sequence + 1)
      BY <2>1, AccountsWrite DEF FilesInv
  <2>3. sequence' = sequence + 1 /\ written' = written + held
      BY <1>4 DEF Write
  <2>4. CASE Records(s) >= SegmentSize
    <3>1. CloseSegment(s)
        BY <1>4, <2>4 DEF Write
    <3>2. PICK z, w, q : z = s /\ w = written + held /\ q = sequence + 1
        OBVIOUS
    <3>3. CloseSegment(z)
        BY <3>1, <3>2
    <3> HIDE DEF s
    <3>4. z \in Seq(Frames) /\ w \in Nat /\ q \in Nat /\ Accounts(published, z, stranded, w, q)
        BY <2>1, <2>2, <3>2
    <3>5. /\ segment' = <<>> /\ published' \in Seq(SoundFiles)
          /\ stranded' \in Nat /\ ioErrors' \in Nat
          /\ Accounts(published', <<>>, stranded', w, q)
        BY <3>3, <3>4, CloseKeeps
    <3> QED BY <2>3, <3>2, <3>5 DEF FileTypes, FilesInv
  <2>5. CASE ~(Records(s) >= SegmentSize)
    <3>1. segment' = s /\ UNCHANGED <<published, stranded, ioErrors>>
        BY <1>4, <2>5 DEF Write
    <3> HIDE DEF s
    <3> QED BY <2>2, <2>3, <3>1 DEF FileTypes, FilesInv
  <2> QED BY <2>4, <2>5
<1>5. CASE WriteFails
    BY <1>5, FilesAtRest DEF WriteFails, IOError
<1>6. CASE WriteTorn
  <2>1. /\ sequence' = sequence + 1 /\ segment' = <<>> /\ UNCHANGED written
        /\ ioErrors' = ioErrors + 1
      BY <1>6 DEF WriteTorn, IOError
  <2>2. Accounts(published, segment, stranded, written, sequence + 1)
      BY AccountsLater DEF FilesInv
  <2>3. ASSUME NEW f \in {segment, Append(segment, Half)}, Publish(f)
        PROVE  FileTypes' /\ FilesInv'
    <3>1. /\ published' = IF Records(f) > 0 THEN Append(published, f) ELSE published
          /\ stranded' = stranded
        BY <2>3 DEF Publish
    <3>2. /\ published' \in Seq(SoundFiles)
          /\ Accounts(published', <<>>, stranded, written, sequence + 1)
      <4>1. PICK p2, q : p2 = published' /\ q = sequence + 1
          OBVIOUS
      <4>2. q \in Nat /\ Accounts(published, segment, stranded, written, q)
          BY <2>2, <4>1
      <4>3. p2 \in Seq(SoundFiles) /\ Accounts(p2, <<>>, stranded, written, q)
          BY <3>1, <4>1, <4>2, AccountsPublish
      <4> QED BY <4>1, <4>3
    <3> QED BY <2>1, <3>1, <3>2 DEF FileTypes, FilesInv
  <2>4. CASE Strand(segment)
    <3>1. Records(segment) \in Nat
        BY RecordsNat, FramesArePieces
    <3>2. Accounts(published, <<>>, stranded + Records(segment), written, sequence + 1)
        BY <2>2, AccountsStrand
    <3> QED BY <2>1, <2>4, <3>1, <3>2 DEF FileTypes, FilesInv, Strand
  <2>5. Publish(segment) \/ Publish(Append(segment, Half)) \/ Strand(segment)
      BY <1>6 DEF WriteTorn
  <2>6. FileTypes' /\ FilesInv'
      BY <2>3, <2>4, <2>5
  <2> QED BY <2>1, <2>6
<1>7. CASE Exit \/ Rotate
  <2>1. UNCHANGED <<sequence, written>>
      BY <1>7 DEF Exit, Rotate, counters
  <2>2. CASE CloseSegment(segment)
    <3>1. PICK z, w, q : z = segment /\ w = written /\ q = sequence
        OBVIOUS
    <3>2. CloseSegment(z)
        BY <2>2, <3>1
    <3>3. z \in Seq(Frames) /\ w \in Nat /\ q \in Nat /\ Accounts(published, z, stranded, w, q)
        BY <3>1 DEF FilesInv
    <3>4. /\ segment' = <<>> /\ published' \in Seq(SoundFiles)
          /\ stranded' \in Nat /\ ioErrors' \in Nat
          /\ Accounts(published', <<>>, stranded', w, q)
        BY <3>2, <3>3, CloseKeeps
    <3> QED BY <2>1, <3>1, <3>4 DEF FileTypes, FilesInv
  <2>3. CASE UNCHANGED <<segment, published, stranded, ioErrors>>
      BY <2>1, <2>3, FilesAtRest
  <2> QED BY <1>7, <2>2, <2>3 DEF Exit, Rotate
<1> QED BY <1>1, <1>2, <1>3, <1>4, <1>5, <1>6, <1>7 DEF Next

-----------------------------------------------------------------------------
(* What a step does to the rings and the counters.                          *)

CoreTypes ==
    /\ ring \in [Rings -> Nat]
    /\ pc \in {"select", "drain", "write", "drained", "exited"}
    /\ cur \in Rings
    /\ held \in 0..Batch /\ (pc = "write" <=> held > 0)
    /\ final \in BOOLEAN /\ canceled \in BOOLEAN
    /\ written \in Nat /\ lost \in Nat /\ drops \in Nat
    /\ pushes \in Nat /\ latePushes \in Nat

LEMMA NextRingTyped ==
    ASSUME NEW n, cur \in Rings, NextRing(n)
    PROVE  cur' \in Rings /\ pc' \in {"drain", "drained"}
<1>1. CASE cur' = cur
    BY <1>1 DEF NextRing
<1>2. CASE cur < NumRings /\ cur' = cur + 1
    BY <1>2, RecorderAssumption DEF NextRing, Rings
<1> QED BY <1>1, <1>2 DEF NextRing

LEMMA TypesNext ==
    ASSUME TypeOK, [Next]_vars
    PROVE  CoreTypes'
<1> USE RecorderAssumption DEF TypeOK, CoreTypes
<1>1. CASE UNCHANGED vars
    BY <1>1 DEF vars, files, counters
<1>2. ASSUME NEW i \in Rings, Push(i) PROVE CoreTypes'
  <2>1. ring' \in [Rings -> Nat] /\ drops' \in Nat
      BY <1>2 DEF Push
  <2> QED BY <1>2, <2>1 DEF Push, counters
<1>3. CASE Shutdown \/ ServeReturns
    BY <1>3 DEF Shutdown, ServeReturns, counters
<1>4. CASE Tick \/ Done
  <2>1. cur' \in Rings
      BY <1>4 DEF Tick, Done, Rings
  <2> QED BY <1>4, <2>1 DEF Tick, Done, counters
<1>5. CASE Drain
  <2> DEFINE n == IF ring[cur] < Batch THEN ring[cur] ELSE Batch
  <2>1. n \in 0..Batch /\ ring[cur] - n \in Nat
      BY DEF Rings
  <2>2. /\ ring' = [ring EXCEPT ![cur] = @ - n] /\ held' = n
        /\ IF n = 0 THEN NextRing(0) ELSE pc' = "write" /\ UNCHANGED cur
        /\ UNCHANGED <<final, files, counters, canceled, serving, pushes, latePushes, ioErrors>>
      BY <1>5 DEF Drain
  <2> HIDE DEF n
  <2>3. ring' \in [Rings -> Nat]
      BY <2>1, <2>2
  <2>4. CASE n = 0
    <3>1. cur' \in Rings /\ pc' \in {"drain", "drained"}
        BY <2>2, <2>4, NextRingTyped
    <3> QED BY <2>2, <2>3, <2>4, <3>1 DEF counters
  <2>5. CASE n # 0
      BY <2>1, <2>2, <2>3, <2>5 DEF counters
  <2> QED BY <2>4, <2>5
<1>6. CASE Write
  <2>1. cur' \in Rings /\ pc' \in {"drain", "drained"}
    <3>1. NextRing(held)
        BY <1>6 DEF Write
    <3> QED BY <3>1, NextRingTyped DEF NextRing
  <2>2. /\ held' = 0 /\ written' = written + held
        /\ UNCHANGED <<ring, final, lost, drops, canceled, serving, pushes, latePushes>>
      BY <1>6 DEF Write
  <2> QED BY <2>1, <2>2
<1>7. CASE WriteFails
    BY <1>7 DEF WriteFails
<1>8. CASE WriteTorn
    BY <1>8 DEF WriteTorn
<1>9. CASE Exit \/ Rotate \/ Wait \/ Ended
    BY <1>9 DEF Exit, Rotate, Wait, Ended, vars, counters
<1> QED BY <1>1, <1>2, <1>3, <1>4, <1>5, <1>6, <1>7, <1>8, <1>9 DEF Next

LEMMA QueuedIsTotal == Queued = Total(ring)
BY DEF Queued, Total

LEMMA ConservedNext ==
    ASSUME TypeOK, Conserved, [Next]_vars
    PROVE  Conserved'
<1> USE DEF TypeOK
<1>1. Total(ring) \in Int /\ pushes = Total(ring) + held + written + (lost + drops)
    BY TotalInt, QueuedIsTotal DEF Conserved
<1>2. Queued' = Total(ring')
    BY DEF Queued, Total, MapThenSumSet, MapThenFoldSet
<1>3. SUFFICES [Next]_vars => pushes' = Total(ring') + held' + written' + (lost' + drops')
    BY <1>2 DEF Conserved
<1>4. CASE UNCHANGED vars
    BY <1>1, <1>4 DEF vars, counters
<1>5. ASSUME NEW i \in Rings, Push(i)
      PROVE  pushes' = Total(ring') + held' + written' + (lost' + drops')
  <2>1. pushes' = pushes + 1 /\ UNCHANGED <<held, written, lost>>
      BY <1>5 DEF Push
  <2>2. CASE ring[i] < RingCapacity
    <3>1. ring' = [ring EXCEPT ![i] = ring[i] + 1] /\ UNCHANGED drops
        BY <1>5, <2>2 DEF Push
    <3>2. Total(ring') = Total(ring) + 1
      <4>1. PICK h : h = ring'
          OBVIOUS
      <4>2. h \in [Rings -> Int] /\ h[i] = ring[i] + 1 /\ \A j \in Rings : j # i => h[j] = ring[j]
          BY <3>1, <4>1
      <4>3. ring \in [Rings -> Int] /\ 1 \in Int
          OBVIOUS
      <4>4. Total(h) = Total(ring) + 1
          BY <4>2, <4>3, TotalUpdate
      <4> QED BY <4>1, <4>4
    <3> QED BY <1>1, <2>1, <3>1, <3>2, SMTT(30)
  <2>3. CASE ~(ring[i] < RingCapacity)
    <3>1. drops' = drops + 1 /\ UNCHANGED ring
        BY <1>5, <2>3 DEF Push
    <3> QED BY <1>1, <2>1, <3>1
  <2> QED BY <2>2, <2>3
<1>6. CASE Shutdown \/ ServeReturns \/ Tick \/ Done \/ Exit \/ Rotate \/ Wait \/ Ended
  <2>1. UNCHANGED <<ring, held, written, lost, drops, pushes>>
      BY <1>6 DEF Shutdown, ServeReturns, Tick, Done, Exit, Rotate, Wait, Ended, vars, counters
  <2> QED BY <1>1, <2>1
<1>7. CASE Drain
  <2> DEFINE n == IF ring[cur] < Batch THEN ring[cur] ELSE Batch
  <2>1. /\ ring' = [ring EXCEPT ![cur] = ring[cur] - n] /\ held' = n /\ held = 0
        /\ UNCHANGED <<written, lost, drops, pushes>>
      BY <1>7 DEF Drain, counters
  <2>2. n \in Int
      BY RecorderAssumption
  <2> HIDE DEF n
  <2>3. Total(ring') = Total(ring) - n
    <3>1. PICK h, d : h = ring' /\ d = -n
        OBVIOUS
    <3>2. h \in [Rings -> Int] /\ h[cur] = ring[cur] + d /\ \A j \in Rings : j # cur => h[j] = ring[j]
        BY <2>1, <2>2, <3>1
    <3>3. ring \in [Rings -> Int] /\ d \in Int
        BY <2>2, <3>1
    <3>4. Total(h) = Total(ring) + d
        BY <3>2, <3>3, TotalUpdate
    <3> QED BY <1>1, <2>2, <3>1, <3>4
  <2> QED BY <1>1, <2>1, <2>2, <2>3
<1>8. CASE Write
  <2>1. /\ written' = written + held /\ held' = 0
        /\ UNCHANGED <<ring, lost, drops, pushes>>
      BY <1>8 DEF Write
  <2> QED BY <1>1, <2>1
<1>9. CASE WriteFails \/ WriteTorn
  <2>1. /\ lost' = lost + held /\ held' = 0
        /\ UNCHANGED <<ring, written, drops, pushes>>
      BY <1>9 DEF WriteFails, WriteTorn
  <2> QED BY <1>1, <2>1
<1> QED BY <1>4, <1>5, <1>6, <1>7, <1>8, <1>9 DEF Next

-----------------------------------------------------------------------------
(* What a step does to the last pass.                                       *)

\* A step that leaves what is behind the pass, or no pass that counts.
LEMMA BehindKept ==
    ASSUME TypeOK, FlushInv, \A i \in Rings : Behind'[i] = Behind[i],
           final' = final, canceled' = canceled, latePushes' = latePushes,
           ioErrors' = 0 => ioErrors = 0, pc' = "exited" => final'
    PROVE  FlushInv'
<1>1. Total(Behind)' = Total(Behind')
    BY DEF Total, MapThenSumSet, MapThenFoldSet
<1>2. Behind' = Behind
    BY DEF Behind
<1> QED BY <1>1, <1>2 DEF FlushInv

\* A step after which no ring is behind the pass, or in which a file operation has
\* failed, or no last pass is on.
LEMMA NothingBehind ==
    ASSUME TypeOK, final' => canceled', pc' = "exited" => final', latePushes' \in Nat,
           \/ ~final' \/ ioErrors' # 0
           \/ \A i \in Rings : Behind'[i] = 0
    PROVE  FlushInv'
<1>1. Total(Behind)' = Total(Behind')
    BY DEF Total, MapThenSumSet, MapThenFoldSet
<1>2. CASE \A i \in Rings : Behind'[i] = 0
  <2>1. Behind' = [i \in Rings |-> 0]
      BY <1>2 DEF Behind
  <2> QED BY <1>1, <2>1, TotalZero DEF FlushInv
<1>3. CASE ~final' \/ ioErrors' # 0
    BY <1>3 DEF FlushInv
<1> QED BY <1>2, <1>3

LEMMA FlushNext ==
    ASSUME TypeOK, FlushInv, [Next]_vars, ioErrors' \in Nat
    PROVE  FlushInv'
<1> USE RecorderAssumption DEF TypeOK
<1>1. CASE UNCHANGED vars
  <2>1. Behind' = Behind
      BY <1>1 DEF vars, Behind, Left
  <2> QED BY <1>1, <2>1, BehindKept DEF vars, FlushInv
<1>2. ASSUME NEW i \in Rings, Push(i) PROVE FlushInv'
  <2>1. UNCHANGED <<pc, cur, held, final, canceled, ioErrors>>
      BY <1>2 DEF Push
  <2>2. \A j \in Rings : Left(j)' = Left(j)
      BY <2>1 DEF Left
  <2>3. Behind \in [Rings -> Int] /\ Behind' \in [Rings -> Int]
    <3>1. ring' \in [Rings -> Nat]
        BY <1>2 DEF Push
    <3> QED BY <3>1 DEF Behind
  <2>4. CASE ~final
      BY <1>2, <2>1, <2>4, NothingBehind DEF Push, FlushInv
  <2>5. CASE final
    <3>1. canceled /\ latePushes' = latePushes + 1
        BY <1>2, <2>5 DEF Push, FlushInv
    <3>2. Total(Behind') <= Total(Behind) + 1
      <4>1. CASE ring[i] < RingCapacity /\ Left(i)
        <5>1. ring' = [ring EXCEPT ![i] = ring[i] + 1]
            BY <1>2, <4>1 DEF Push
        <5>2. Behind'[i] = Behind[i] + 1 /\ \A j \in Rings : j # i => Behind'[j] = Behind[j]
            BY <2>2, <4>1, <5>1 DEF Behind
        <5>3. PICK f, h : f = Behind /\ h = Behind'
            OBVIOUS
        <5>4. Total(h) = Total(f) + 1
          <6>1. /\ f \in [Rings -> Int] /\ h \in [Rings -> Int] /\ 1 \in Int
                /\ h[i] = f[i] + 1 /\ \A j \in Rings : j # i => h[j] = f[j]
              BY <2>3, <5>2, <5>3
          <6> QED BY <6>1, TotalUpdate
        <5>5. Total(f) \in Int
            BY <2>3, <5>3, TotalInt
        <5> QED BY <5>3, <5>4, <5>5
      <4>2. CASE ~(ring[i] < RingCapacity /\ Left(i))
        <5>1. \A j \in Rings : Behind'[j] = Behind[j]
          <6>1. CASE ring[i] < RingCapacity
            <7>1. ring' = [ring EXCEPT ![i] = ring[i] + 1]
                BY <1>2, <6>1 DEF Push
            <7> QED BY <2>2, <4>2, <6>1, <7>1 DEF Behind
          <6>2. CASE ~(ring[i] < RingCapacity)
            <7>1. ring' = ring
                BY <1>2, <6>2 DEF Push
            <7> QED BY <2>2, <7>1 DEF Behind
          <6> QED BY <6>1, <6>2
        <5>2. Behind' = Behind
            BY <5>1 DEF Behind
        <5>3. Total(Behind) \in Int
            BY <2>3, TotalInt
        <5> QED BY <5>2, <5>3
      <4> QED BY <4>1, <4>2
    <3>3. Total(Behind)' = Total(Behind')
        BY DEF Total, MapThenSumSet, MapThenFoldSet
    <3>4. Total(Behind) \in Int /\ Total(Behind') \in Int
        BY <2>3, TotalInt
    <3> QED BY <2>1, <3>1, <3>2, <3>3, <3>4 DEF FlushInv
  <2> QED BY <2>4, <2>5
<1>3. CASE Shutdown
  <2>1. CASE final
      BY <1>3, <2>1 DEF Shutdown, FlushInv
  <2>2. CASE ~final
      BY <1>3, <2>2, NothingBehind DEF Shutdown, FlushInv
  <2> QED BY <2>1, <2>2
<1>4. CASE ServeReturns \/ Ended
  <2>1. UNCHANGED <<ring, pc, cur, held, final, canceled, latePushes, ioErrors>>
      BY <1>4 DEF ServeReturns, Ended, vars
  <2>2. Behind' = Behind
      BY <2>1 DEF Behind, Left
  <2> QED BY <2>1, <2>2, BehindKept DEF FlushInv
<1>5. CASE Tick \/ Done
  <2>1. pc' = "drain" /\ cur' = 1 /\ latePushes' = latePushes
      BY <1>5 DEF Tick, Done
  <2>2. \A i \in Rings : ~Left(i)'
      BY <2>1 DEF Left, Rings
  <2>3. \A i \in Rings : Behind'[i] = 0
      BY <2>2 DEF Behind
  <2>4. final' => canceled'
      BY <1>5 DEF Tick, Done, FlushInv
  <2> QED BY <2>1, <2>3, <2>4, NothingBehind
<1>6. CASE Drain
  <2> DEFINE n == IF ring[cur] < Batch THEN ring[cur] ELSE Batch
  <2>1. /\ pc = "drain" /\ ring' = [ring EXCEPT ![cur] = ring[cur] - n] /\ held' = n
        /\ IF n = 0 THEN NextRing(0) ELSE pc' = "write" /\ UNCHANGED cur
        /\ UNCHANGED <<final, canceled, latePushes, ioErrors>>
      BY <1>6 DEF Drain
  <2>2. n \in Nat /\ n <= Batch /\ (n < Batch => ring[cur] - n = 0)
      BY DEF Rings
  <2> HIDE DEF n
  <2>3. ASSUME NEW i \in Rings PROVE Behind'[i] = Behind[i]
    <3>1. i \in Int /\ cur \in Int /\ i <= NumRings
        BY DEF Rings
    <3>2. Left(i) <=> i < cur
        BY <2>1 DEF Left
    <3>3. CASE n = 0
      <4>1. ring' = ring /\ ring[cur] = 0
          BY <2>1, <2>2, <3>3
      <4>2. \/ cur < NumRings /\ pc' = "drain" /\ cur' = cur + 1
            \/ ~(cur < NumRings) /\ pc' = "drained"
          BY <2>1, <3>3 DEF NextRing
      <4>3. Left(i)' <=> i <= cur
          BY <3>1, <4>2 DEF Left
      <4> QED BY <3>1, <3>2, <4>1, <4>3 DEF Behind
    <3>4. CASE n # 0
      <4>1. pc' = "write" /\ cur' = cur
          BY <2>1, <3>4
      <4>2. Left(i)' <=> i < cur \/ (i = cur /\ n < Batch)
          BY <2>1, <4>1 DEF Left
      <4> QED BY <2>1, <2>2, <3>1, <3>2, <4>2 DEF Behind
    <3> QED BY <3>3, <3>4
  <2>4. pc' # "exited"
      BY <2>1 DEF NextRing
  <2> QED BY <2>1, <2>3, <2>4, BehindKept
<1>7. CASE Write
  <2>1. /\ pc = "write" /\ NextRing(held) /\ held' = 0
        /\ UNCHANGED <<ring, final, canceled, latePushes>>
      BY <1>7 DEF Write
  <2>2. ASSUME NEW i \in Rings PROVE Behind'[i] = Behind[i]
    <3>1. i \in Int /\ cur \in Int /\ i <= NumRings /\ held <= Batch
        BY DEF Rings
    <3>2. Left(i) <=> i < cur \/ (i = cur /\ held < Batch)
        BY <2>1 DEF Left
    <3>3. Left(i)' <=> Left(i)
      <4>1. CASE held = Batch
        <5>1. pc' = "drain" /\ cur' = cur
            BY <2>1, <4>1 DEF NextRing
        <5> QED BY <3>2, <4>1, <5>1 DEF Left
      <4>2. CASE held # Batch
        <5>1. \/ cur < NumRings /\ pc' = "drain" /\ cur' = cur + 1
              \/ ~(cur < NumRings) /\ pc' = "drained"
            BY <2>1, <4>2 DEF NextRing
        <5>2. held < Batch
            BY <3>1, <4>2
        <5>3. Left(i)' <=> i <= cur
            BY <3>1, <5>1 DEF Left
        <5> QED BY <3>1, <3>2, <5>2, <5>3
      <4> QED BY <4>1, <4>2
    <3> QED BY <2>1, <3>3 DEF Behind
  <2>3. ioErrors' = 0 => ioErrors = 0
      BY <1>7 DEF Write, CloseSegment, IOError
  <2>4. pc' # "exited"
      BY <2>1 DEF NextRing
  <2> QED BY <2>1, <2>2, <2>3, <2>4, BehindKept
<1>8. CASE WriteFails \/ WriteTorn
  <2>1. /\ ioErrors' = ioErrors + 1 /\ pc' = "drained"
        /\ UNCHANGED <<final, canceled, latePushes>>
      BY <1>8 DEF WriteFails, WriteTorn, IOError
  <2> QED BY <2>1, NothingBehind DEF FlushInv
<1>9. CASE Exit
  <2>1. /\ pc = "drained" /\ final /\ pc' = "exited"
        /\ UNCHANGED <<ring, cur, held, final, canceled, latePushes>>
      BY <1>9 DEF Exit
  <2>2. \A i \in Rings : Behind'[i] = Behind[i]
      BY <2>1 DEF Behind, Left
  <2>3. ioErrors' = 0 => ioErrors = 0
      BY <1>9 DEF Exit, CloseSegment, IOError
  <2> QED BY <2>1, <2>2, <2>3, BehindKept
<1>10. CASE Rotate \/ Wait
  <2>1. ~final' /\ pc' = "select" /\ latePushes' = latePushes
      BY <1>10 DEF Rotate, Wait
  <2> QED BY <2>1, NothingBehind
<1> QED BY <1>1, <1>2, <1>3, <1>4, <1>5, <1>6, <1>7, <1>8, <1>9, <1>10 DEF Next

-----------------------------------------------------------------------------
(* Theorems.                                                                *)

\* The recorder's state is well-formed, its counters add up, its files account for
\* what it counts as written, and its last pass leaves nothing behind but what
\* came after the signal (recorder.go, reader.go).
THEOREM RecorderInvariant == Spec => []Inv
<1>1. Inv /\ [Next]_vars => Inv'
  <2> SUFFICES ASSUME Inv, [Next]_vars PROVE Inv'
      OBVIOUS
  <2>1. FileTypes' /\ FilesInv' /\ sequence' \in Nat /\ ioErrors' \in Nat
      BY FilesNext DEF Inv
  <2>2. CoreTypes'
      BY TypesNext DEF Inv
  <2>3. TypeOK'
      BY <2>1, <2>2 DEF TypeOK, CoreTypes, FileTypes
  <2>4. Conserved'
      BY ConservedNext DEF Inv
  <2>5. FlushInv'
      BY <2>1, FlushNext DEF Inv
  <2> QED BY <2>1, <2>3, <2>4, <2>5 DEF Inv
<1> QED BY InitInv, <1>1, PTL DEF Spec

\* Whatever file operations fail, every recorded access is queued, held by the
\* drainer, counted as written or counted as lost (Recorder.Stats).
THEOREM EveryRecordAccounted == Spec => []Conserved
<1>1. Inv => Conserved
    BY DEF Inv
<1> QED BY RecorderInvariant, <1>1, PTL

\* Whatever file operations fail, the reader gets every record counted as written,
\* in the order of the batches, but for those of the open segment and of files that
\* were given up (ReadDir, ReadFile, truncateSegment).
THEOREM WrittenIsRead == Spec => []ReadBack
<1>1. Inv => ReadBack
  <2> SUFFICES ASSUME Inv PROVE ReadBack
      OBVIOUS
  <2>1. ReadDir \in Seq(Frames) /\ segment \in Seq(Frames)
      BY ReadAllTyped DEF Inv, TypeOK, ReadDir
  <2>2. Records(ReadDir) + Records(segment) + stranded = written /\ Numbered(ReadDir \o segment, sequence)
      BY DEF Inv, FilesInv, Accounts, ReadDir
  <2>3. Numbered(ReadDir, sequence)
      BY <2>1, <2>2, NumberedPrefix
  <2> QED BY <2>2, <2>3 DEF ReadBack, Numbered
<1> QED BY RecorderInvariant, <1>1, PTL

\* When the recorder has returned and no file operation has failed, the rings hold
\* no more than was recorded after the signal (Run's last drainAll).
THEOREM NothingQueuedIsLeft == Spec => []FlushedBeforeSignal
<1>1. Inv => FlushedBeforeSignal
  <2> SUFFICES ASSUME Inv, pc = "exited", ioErrors = 0 PROVE Queued <= latePushes
      BY DEF FlushedBeforeSignal
  <2>1. Total(Behind) <= latePushes
      BY DEF Inv, FlushInv
  <2>2. Behind = ring
      BY DEF Inv, TypeOK, Behind, Left
  <2> QED BY <2>1, <2>2, QueuedIsTotal
<1> QED BY RecorderInvariant, <1>1, PTL
=============================================================================
