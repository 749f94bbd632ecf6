---------------------------- MODULE S3FIFOProofs ----------------------------
(***************************************************************************)
(* Proofs about S3FIFO, for every set of keys, every capacity and every    *)
(* queue target.                                                           *)
(***************************************************************************)
EXTENDS S3FIFO, FiniteSetTheorems, WellFoundedInduction, TLAPS

\* A generation is in at most one slot of a queue, and push has handed it out.
GenUnique(q) == \A i, j \in 1..Len(q) : q[i].gen = q[j].gen => i = j
GenBounded(q, g) == \A i \in 1..Len(q) : q[i].gen \in 1..g

Holds(q, k, g) == \E i \in 1..Len(q) : q[i] = [key |-> k, gen |-> g]

QueueOK(q, in, g) ==
    /\ GenUnique(q)
    /\ GenBounded(q, g)
    /\ \A k \in Keys : in[k] # 0 => Holds(q, k, in[k])

SlotsOK == QueueOK(small, inS, gen) /\ QueueOK(main, inM, gen)

\* The key being inserted is not resident and fits an empty shard.
PendingOK == pc # "idle" => req.key \notin Resident /\ req.size <= Capacity

Inv ==
    /\ TypeOK
    /\ Partition
    /\ SlotsOK
    /\ PendingOK
    /\ GhostConsistent

-----------------------------------------------------------------------------
(* compact.                                                                *)

\* How many of the positions in I come no later than i.
Rank(I, i) == Cardinality({j \in I : j <= i})

\* A position's rank in a set of positions is a bijection, so "the n-th live
\* slot" exists and is unique: compact's in-place filter is well defined.
LEMMA RankBijective ==
    ASSUME NEW len \in Nat, NEW I \in SUBSET (1..len)
    PROVE  /\ IsFiniteSet(I) /\ Cardinality(I) \in Nat
           /\ \A i \in I : Rank(I, i) \in 1..Cardinality(I)
           /\ \A i, j \in I : Rank(I, i) = Rank(I, j) => i = j
           /\ \A n \in 1..Cardinality(I) : \E i \in I : Rank(I, i) = n
<1> DEFINE N == Cardinality(I)
           Below(i) == {j \in I : j <= i}
           rank == [i \in I |-> Rank(I, i)]
<1>1. IsFiniteSet(I) /\ N \in Nat
  <2>1. IsFiniteSet(1..len)
      BY FS_Interval
  <2>2. IsFiniteSet(I)
      BY <2>1, FS_Subset
  <2> QED BY <2>2, FS_CardinalityType
<1>2. I \subseteq Int
    OBVIOUS
<1>3. ASSUME NEW i \in I
      PROVE  /\ IsFiniteSet(Below(i)) /\ Rank(I, i) = Cardinality(Below(i))
             /\ Rank(I, i) \in 1..N
  <2>1. i \in Int
      BY <1>2
  <2>2. Below(i) \in SUBSET I /\ i \in Below(i)
      BY <2>1
  <2>3. Rank(I, i) = Cardinality(Below(i))
      BY DEF Rank
  <2> HIDE DEF Below
  <2>4. IsFiniteSet(Below(i)) /\ Cardinality(Below(i)) <= N
      BY <2>2, <1>1, FS_Subset
  <2>5. Cardinality(Below(i)) \in Nat
      BY <2>4, FS_CardinalityType
  <2>6. Cardinality(Below(i)) # 0
      BY <2>2, <2>4, FS_EmptySet
  <2> HIDE DEF N
  <2>7. Rank(I, i) \in 1..N
      BY <1>1, <2>3, <2>4, <2>5, <2>6
  <2> QED BY <2>3, <2>4, <2>7
<1>4. ASSUME NEW i \in I, NEW j \in I, i < j
      PROVE  Rank(I, i) # Rank(I, j)
  <2>1. i \in Int /\ j \in Int
      BY <1>2
  <2>2. Below(i) \in SUBSET Below(j)
    <3>1. ASSUME NEW l \in I, l <= i PROVE l <= j
        BY <1>2, <1>4, <2>1, <3>1
    <3> QED BY <3>1
  <2>3. j \in Below(j) /\ j \notin Below(i)
      BY <2>1, <1>4
  <2> HIDE DEF Below
  <2>4. Cardinality(Below(i)) # Cardinality(Below(j))
      BY <2>2, <2>3, <1>3, FS_Subset
  <2> QED BY <2>4, <1>3
<1> HIDE DEF N
<1>5. \A i, j \in I : Rank(I, i) = Rank(I, j) => i = j
  <2> SUFFICES ASSUME NEW i \in I, NEW j \in I, i # j
               PROVE  Rank(I, i) # Rank(I, j)
      OBVIOUS
  <2>1. i < j \/ j < i
      BY <1>2
  <2> QED BY <2>1, <1>4
<1>6. rank \in Injection(I, 1..N)
  <2>1. rank \in [I -> 1..N]
      BY <1>3
  <2> QED BY <2>1, <1>5 DEF Injection, IsInjective
<1>7. IsFiniteSet(1..N) /\ Cardinality(1..N) = N
    BY <1>1, FS_Interval
<1>8. rank \in Surjection(I, 1..N)
  <2> HIDE DEF rank
  <2>1. Cardinality(I) = Cardinality(1..N)
      BY <1>7 DEF N
  <2> QED BY <1>6, <1>7, <2>1, FS_Injection
<1>9. \A n \in 1..N : \E i \in I : Rank(I, i) = n
    BY <1>8 DEF Surjection
<1> QED BY <1>1, <1>3, <1>5, <1>9 DEF N

\* What compact's filter returns: exactly the live slots, each of them once.
LEMMA LiveSlotsExact ==
    ASSUME NEW q \in Seq(Slot), NEW in
    PROVE  /\ LiveSlots(q, in) \in Seq(Slot)
           /\ \E f \in [1..Len(LiveSlots(q, in)) -> {i \in 1..Len(q) : isLive(q[i], in)}] :
                /\ \A n \in 1..Len(LiveSlots(q, in)) : LiveSlots(q, in)[n] = q[f[n]]
                /\ \A n1, n2 \in 1..Len(LiveSlots(q, in)) : f[n1] = f[n2] => n1 = n2
                /\ \A i \in 1..Len(q) : isLive(q[i], in) =>
                      \E n \in 1..Len(LiveSlots(q, in)) : f[n] = i
<1> DEFINE I == {i \in 1..Len(q) : isLive(q[i], in)}
           N == Cardinality(I)
           Nth(n) == CHOOSE i \in I : Rank(I, i) = n
           f == [n \in 1..N |-> Nth(n)]
           L == [n \in 1..N |-> q[Nth(n)]]
<1>0. LiveSlots(q, in) = L
    BY DEF LiveSlots, Rank
<1>1. Len(q) \in Nat /\ I \in SUBSET (1..Len(q)) /\ \A i \in I : q[i] \in Slot
    OBVIOUS
<1>a. \A i \in 1..Len(q) : isLive(q[i], in) => i \in I
    OBVIOUS
<1> HIDE DEF I
<1>2. /\ N \in Nat
      /\ \A i \in I : Rank(I, i) \in 1..N
      /\ \A i, j \in I : Rank(I, i) = Rank(I, j) => i = j
      /\ \A n \in 1..N : \E i \in I : Rank(I, i) = n
    BY <1>1, RankBijective
<1> HIDE DEF N
<1>3. \A n \in 1..N : Nth(n) \in I /\ Rank(I, Nth(n)) = n
    BY <1>2
<1> HIDE DEF Nth
<1>4. L \in Seq(Slot) /\ Len(L) = N
  <2>1. \A n \in 1..N : q[Nth(n)] \in Slot
      BY <1>1, <1>3
  <2>2. L \in [1..N -> Slot]
      BY <2>1
  <2> QED BY <1>2, <2>2
<1>5. f \in [1..N -> I]
    BY <1>3
<1>6. \A n1, n2 \in 1..N : f[n1] = f[n2] => n1 = n2
    BY <1>3
<1>7. \A i \in I : \E n \in 1..N : f[n] = i
  <2> SUFFICES ASSUME NEW i \in I PROVE f[Rank(I, i)] = i
      BY <1>2
  <2> QED BY <1>2, <1>3
<1>8. \A n \in 1..N : L[n] = q[f[n]]
    OBVIOUS
<1> HIDE DEF f, L
<1>9. /\ f \in [1..Len(L) -> I]
      /\ \A n \in 1..Len(L) : L[n] = q[f[n]]
      /\ \A n1, n2 \in 1..Len(L) : f[n1] = f[n2] => n1 = n2
      /\ \A i \in 1..Len(q) : isLive(q[i], in) => \E n \in 1..Len(L) : f[n] = i
    BY <1>4, <1>5, <1>6, <1>7, <1>8, <1>a
<1> QED BY <1>0, <1>4, <1>9 DEF I

-----------------------------------------------------------------------------
(* Type correctness.                                                       *)

\* An entry is never the None that stands for an absent one.
LEMMA EntryNotNone == None \notin Entry /\ None \notin Request
    BY S3FIFOAssumption

\* shard.drop with the policy's OnRemove: k leaves the map and both live maps,
\* its bytes are given back, and nothing else changes.
LEMMA DropEffect ==
    ASSUME TypeOK, NEW k \in Keys, k \in Resident, drop(k)
    PROVE  /\ m' \in [Keys -> Entry \cup {None}]
           /\ used' \in Int /\ used' <= used
           /\ smallBytes' \in Int
           /\ inS' \in [Keys -> Nat] /\ inM' \in [Keys -> Nat]
           /\ Resident' = Resident \ {k}
           /\ Live(inS)' = Live(inS) \ {k} /\ Live(inM)' = Live(inM) \ {k}
           /\ \A j \in Keys \ {k} : inS'[j] = inS[j] /\ inM'[j] = inM[j]
<1>1. m[k] \in Entry /\ m[k].size \in Nat
    BY DEF TypeOK, Resident, Entry
<1>2. /\ m' \in [Keys -> Entry \cup {None}]
      /\ inS' \in [Keys -> Nat] /\ inM' \in [Keys -> Nat]
    BY DEF TypeOK, drop
<1>3. used' \in Int /\ used' <= used /\ smallBytes' \in Int
    BY <1>1 DEF TypeOK, drop
<1>4. \A j \in Keys : m'[j] = IF j = k THEN None ELSE m[j]
    BY DEF TypeOK, drop
<1>5. \A j \in Keys : /\ inS'[j] = IF j = k THEN 0 ELSE inS[j]
                      /\ inM'[j] = IF j = k THEN 0 ELSE inM[j]
    BY DEF TypeOK, drop
<1>6. Resident' = Resident \ {k}
    BY <1>4 DEF Resident
<1>7. Live(inS)' = Live(inS) \ {k} /\ Live(inM)' = Live(inM) \ {k}
    BY <1>5 DEF Live
<1> QED BY <1>2, <1>3, <1>5, <1>6, <1>7

\* Changing a resident entry's freq keeps the map well typed, keeps the entry's
\* size, and adds and removes nobody.
LEMMA SetFreq ==
    ASSUME TypeOK, NEW k \in Keys, k \in Resident, NEW v \in 0..3,
           m' = [m EXCEPT ![k].freq = v]
    PROVE  m' \in [Keys -> Entry \cup {None}] /\ Resident' = Resident
<1>1. m[k] \in Entry /\ m[k].size \in Nat
    BY DEF TypeOK, Resident, Entry
<1>2. [m[k] EXCEPT !.freq = v] = [size |-> m[k].size, freq |-> v]
    BY <1>1 DEF Entry
<1>3. [size |-> m[k].size, freq |-> v] \in Entry
    BY <1>1 DEF Entry
<1> DEFINE e == [m[k] EXCEPT !.freq = v]
<1>4. e \in Entry /\ e # None
    BY <1>2, <1>3, EntryNotNone
<1>5. m' = [m EXCEPT ![k] = e]
    OBVIOUS
<1> HIDE DEF e
<1>6. m' \in [Keys -> Entry \cup {None}]
    BY <1>4, <1>5 DEF TypeOK
<1>7. \A j \in Keys : m'[j] = IF j = k THEN e ELSE m[j]
    BY <1>5 DEF TypeOK
<1>8. Resident' = Resident
    BY <1>4, <1>7 DEF Resident
<1> QED BY <1>6, <1>8

\* compact keeps a queue a queue of slots.
LEMMA CompactType ==
    ASSUME NEW q \in Seq(Slot), NEW in PROVE compact(q, in) \in Seq(Slot)
    BY LiveSlotsExact DEF compact

\* So does push.
LEMMA PushType ==
    ASSUME NEW q \in Seq(Slot), NEW k \in Keys, NEW g \in Nat
    PROVE  push(q, k, g) \in Seq(Slot)
    BY DEF push, Slot

\* What the head of a queue of slots names, and what is left without it.
LEMMA HeadTail ==
    ASSUME NEW q \in Seq(Slot), q # <<>>
    PROVE  /\ Head(q) \in Slot /\ Head(q).key \in Keys /\ Head(q).gen \in Nat
           /\ Tail(q) \in Seq(Slot)
<1>1. Head(q) \in Slot /\ Tail(q) \in Seq(Slot)
    OBVIOUS
<1> QED BY <1>1 DEF Slot

\* OnAdmit keeps the queues and live maps well typed.
LEMMA OnAdmitType ==
    ASSUME TypeOK, NEW k \in Keys, NEW size \in Nat, OnAdmit(k, size)
    PROVE  /\ gen' \in Nat /\ smallBytes' \in Int
           /\ inS' \in [Keys -> Nat] /\ inM' \in [Keys -> Nat] /\ inG' \subseteq Keys
           /\ small' \in Seq(Slot) /\ main' \in Seq(Slot)
<1>1. gen \in Nat /\ gen' = gen + 1 /\ gen' \in Nat
    BY DEF TypeOK, OnAdmit
<1>2. push(main, k, gen') \in Seq(Slot) /\ push(small, k, gen') \in Seq(Slot)
    BY <1>1, PushType DEF TypeOK
<1>3. CASE k \in inG
  <2>1. main' \in Seq(Slot)
      BY <1>2, <1>3, CompactType DEF OnAdmit
  <2> QED BY <1>1, <1>3, <2>1 DEF OnAdmit, TypeOK
<1>4. CASE k \notin inG
  <2>1. small' \in Seq(Slot)
      BY <1>2, <1>4, CompactType DEF OnAdmit
  <2>2. /\ inS' = [inS EXCEPT ![k] = gen'] /\ smallBytes' = smallBytes + size
        /\ UNCHANGED <<main, inM, inG>>
      BY <1>4 DEF OnAdmit
  <2>3. inS' \in [Keys -> Nat]
      BY <1>1, <2>2 DEF TypeOK
  <2>4. smallBytes' \in Int
      BY <2>2 DEF TypeOK
  <2> QED BY <1>1, <2>1, <2>2, <2>3, <2>4 DEF TypeOK
<1> QED BY <1>3, <1>4

\* A hit raises freq and never past 3; a lap of main lowers it and never below 0.
LEMMA GetHitFreq ==
    ASSUME TypeOK, NEW k \in Keys, GetHit(k)
    PROVE  k \in Resident /\ \E v \in 0..3 : m' = [m EXCEPT ![k].freq = v]
<1>1. k \in Resident /\ m[k].freq \in 0..3
    BY DEF GetHit, TypeOK, Resident, Entry
<1> DEFINE v == IF m[k].freq < 3 THEN m[k].freq + 1 ELSE m[k].freq
<1>2. v \in 0..3
    BY <1>1
<1>3. m' = [m EXCEPT ![k].freq = v]
    BY DEF GetHit
<1> QED BY <1>1, <1>2, <1>3

\* The same for stepMain, whose guard keeps the freq it lowers above 0.
LEMMA ReinsertFreq ==
    ASSUME TypeOK, Reinsert
    PROVE  LET k == Head(main).key
           IN  /\ k \in Keys /\ k \in Resident
               /\ \E v \in 0..3 : m' = [m EXCEPT ![k].freq = v]
<1> DEFINE k == Head(main).key
<1>1. main # <<>> /\ k \in Resident /\ m[k].freq > 0
    BY DEF Reinsert
<1>2. k \in Keys
    BY <1>1, HeadTail DEF TypeOK
<1>3. m[k] \in Entry
    BY <1>1, <1>2 DEF TypeOK, Resident
<1>4. m' = [m EXCEPT ![k].freq = m[k].freq - 1]
    BY DEF Reinsert
<1> HIDE DEF k
<1>5. m[k].freq - 1 \in 0..3
    BY <1>1, <1>3 DEF Entry
<1> QED BY <1>1, <1>2, <1>4, <1>5 DEF k

\* The type invariant is inductive by itself: every operation of the shard and
\* every iteration of Victim keeps each field in its range.
LEMMA TypeStep == TypeOK /\ [Next]_vars => TypeOK'
<1> SUFFICES ASSUME TypeOK, [Next]_vars PROVE TypeOK'
    OBVIOUS
<1> USE S3FIFOAssumption, EntryNotNone
<1>1. ASSUME NEW k \in Keys, GetHit(k) PROVE TypeOK'
  <2>1. k \in Resident /\ m[k] \in Entry
      BY <1>1 DEF GetHit, TypeOK, Resident
  <2>2. m' \in [Keys -> Entry \cup {None}]
      BY <1>1, <2>1, GetHitFreq, SetFreq
  <2> QED BY <1>1, <2>2 DEF GetHit, TypeOK, queues
<1>2. ASSUME NEW k \in Keys, GetExpired(k) \/ Remove(k) PROVE TypeOK'
  <2>1. k \in Resident /\ drop(k)
      BY <1>2 DEF GetExpired, Remove
  <2> QED BY <1>2, <2>1, DropEffect DEF GetExpired, Remove, TypeOK
<1>3. ASSUME NEW k \in Keys, NEW size \in Sizes, InsertBegin(k, size) PROVE TypeOK'
  <2>1. req' \in Request /\ req' # None
    <3>1. [key |-> k, size |-> size] \in Request
        BY DEF Request
    <3>2. req' = [key |-> k, size |-> size]
        BY <1>3 DEF InsertBegin
    <3> QED BY <3>1, <3>2
  <2>2. /\ m' \in [Keys -> Entry \cup {None}] /\ used' \in Int /\ smallBytes' \in Int
        /\ inS' \in [Keys -> Nat] /\ inM' \in [Keys -> Nat]
    <3>1. CASE k \in Resident
        BY <1>3, <3>1, DropEffect DEF InsertBegin
    <3>2. CASE k \notin Resident
        BY <1>3, <3>2 DEF InsertBegin, TypeOK
    <3> QED BY <3>1, <3>2
  <2> QED BY <1>3, <2>1, <2>2 DEF InsertBegin, TypeOK
<1>4. CASE EvictOne
  <2>1. 4 * (Len(small) + Len(main)) + 8 \in Nat
      BY DEF TypeOK
  <2> QED BY <1>4, <2>1 DEF EvictOne, TypeOK, queues
<1>5. CASE Admit
  <2>1. req \in Request /\ req.key \in Keys /\ req.size \in Nat
      BY <1>5 DEF Admit, TypeOK, Request
  <2>2. OnAdmit(req.key, req.size)
      BY <1>5 DEF Admit
  <2>3. [size |-> req.size, freq |-> 0] \in Entry
      BY <2>1 DEF Entry
  <2>4. m' \in [Keys -> Entry \cup {None}]
      BY <1>5, <2>1, <2>3 DEF Admit, TypeOK
  <2>5. used' \in Int
      BY <1>5, <2>1 DEF Admit, TypeOK
  <2> QED BY <1>5, <2>1, <2>2, <2>4, <2>5, OnAdmitType DEF Admit, TypeOK
<1>6. CASE VictimSkip
  <2>1. small' \in Seq(Slot) /\ main' \in Seq(Slot)
    <3>1. (small # <<>> /\ small' = Tail(small) /\ main' = main)
            \/ (main # <<>> /\ main' = Tail(main) /\ small' = small)
        BY <1>6 DEF VictimSkip, SkipStale, FromSmall
    <3> QED BY <3>1, HeadTail DEF TypeOK
  <2>2. steps' \in Nat
      BY <1>6 DEF VictimSkip, NextStep, Searching, TypeOK
  <2> QED BY <1>6, <2>1, <2>2 DEF VictimSkip, NextStep, Searching, TypeOK
<1>7. CASE VictimPromote
  <2> DEFINE k == Head(small).key
  <2>1. small # <<>> /\ k \in Resident /\ Promote
      BY <1>7 DEF VictimPromote, Promote, FromSmall
  <2>2. k \in Keys /\ Tail(small) \in Seq(Slot)
      BY <2>1, HeadTail DEF TypeOK
  <2>3. m[k] \in Entry /\ m[k].size \in Nat
      BY <2>1, <2>2 DEF TypeOK, Resident, Entry
  <2> HIDE DEF k
  <2>4. /\ small' = Tail(small) /\ smallBytes' = smallBytes - m[k].size
        /\ gen' = gen + 1 /\ inS' = [inS EXCEPT ![k] = 0]
        /\ inM' = [inM EXCEPT ![k] = gen'] /\ main' = push(main, k, gen')
        /\ m' = [m EXCEPT ![k].freq = 0]
      BY <2>1 DEF Promote, k
  <2>5. m' \in [Keys -> Entry \cup {None}]
    <3>1. k \in Resident /\ 0 \in 0..3
        BY <2>1 DEF k
    <3>2. m' = [m EXCEPT ![k].freq = 0]
        BY <2>4
    <3> QED BY <2>2, <3>1, <3>2, SetFreq
  <2>6. gen' \in Nat /\ smallBytes' \in Int /\ steps' \in Nat
    <3>1. steps' \in Nat
        BY <1>7 DEF VictimPromote, NextStep, Searching, TypeOK
    <3>2. gen \in Nat /\ smallBytes \in Int
        BY DEF TypeOK
    <3> QED BY <2>3, <2>4, <3>1, <3>2
  <2>7. main' \in Seq(Slot)
      BY <2>2, <2>4, <2>6, PushType DEF TypeOK
  <2>8. inS' \in [Keys -> Nat] /\ inM' \in [Keys -> Nat]
      BY <2>4, <2>6 DEF TypeOK
  <2> QED BY <1>7, <2>2, <2>4, <2>5, <2>6, <2>7, <2>8
          DEF VictimPromote, NextStep, Searching, TypeOK
<1>8. CASE VictimReinsert
  <2> DEFINE k == Head(main).key
  <2>1. main # <<>> /\ k \in Resident /\ m[k].freq > 0
      BY <1>8 DEF VictimReinsert, Reinsert
  <2>2. k \in Keys /\ Tail(main) \in Seq(Slot) /\ Head(main) \in Slot
      BY <2>1, HeadTail DEF TypeOK
  <2>3. m[k] \in Entry
      BY <2>1, <2>2 DEF TypeOK, Resident
  <2> HIDE DEF k
  <2>4. main' = Append(Tail(main), Head(main)) /\ Reinsert
      BY <1>8 DEF VictimReinsert, Reinsert
  <2>5. main' \in Seq(Slot)
      BY <2>2, <2>4
  <2>6. m' \in [Keys -> Entry \cup {None}]
      BY <2>4, ReinsertFreq, SetFreq
  <2>7. steps' \in Nat
      BY <1>8 DEF VictimReinsert, NextStep, Searching, TypeOK
  <2> QED BY <1>8, <2>5, <2>6, <2>7 DEF VictimReinsert, NextStep, Searching, TypeOK
<1>9. CASE VictimReturn
  <2>1. CASE EvictSmall /\ UNCHANGED <<main, gen, req>> /\ pc' = "loop" /\ steps' = 0
    <3> DEFINE k == Head(small).key
    <3>1. small # <<>> /\ k \in Resident /\ drop(k) /\ rememberGhost(k) /\ small' = Tail(small)
        BY <2>1 DEF EvictSmall, FromSmall
    <3>2. k \in Keys /\ Tail(small) \in Seq(Slot)
        BY <3>1, HeadTail DEF TypeOK
    <3> HIDE DEF k
    <3>3. ghost' \in Seq(Keys) /\ inG' \subseteq Keys
      <4>1. ghost \in Seq(Keys) /\ inG \subseteq Keys
          BY DEF TypeOK
      <4>2. Append(ghost, k) \in Seq(Keys) /\ Append(ghost, k) # <<>>
          BY <4>1, <3>2
      <4>3. Tail(Append(ghost, k)) \in Seq(Keys)
          BY <4>2
      <4> QED BY <3>1, <3>2, <4>1, <4>2, <4>3 DEF rememberGhost
    <3> QED BY <1>9, <2>1, <3>1, <3>2, <3>3, DropEffect DEF VictimReturn, TypeOK
  <2>2. CASE EvictMain /\ UNCHANGED <<small, ghost, inG, gen, req>> /\ pc' = "loop" /\ steps' = 0
    <3> DEFINE k == Head(main).key
    <3>1. main # <<>> /\ k \in Resident /\ drop(k) /\ main' = Tail(main)
        BY <2>2 DEF EvictMain
    <3>2. k \in Keys /\ Tail(main) \in Seq(Slot)
        BY <3>1, HeadTail DEF TypeOK
    <3> HIDE DEF k
    <3> QED BY <1>9, <2>2, <3>1, <3>2, DropEffect DEF VictimReturn, TypeOK
  <2>3. CASE pc' = "idle" /\ steps' = 0 /\ req' = None /\ UNCHANGED <<m, used, queues>>
      BY <2>3 DEF queues, TypeOK
  <2> QED BY <1>9, <2>1, <2>2, <2>3 DEF VictimReturn
<1>10. CASE UNCHANGED vars
    BY <1>10 DEF vars, queues, TypeOK
<1> QED
    BY <1>1, <1>2, <1>3, <1>4, <1>5, <1>6, <1>7, <1>8, <1>9, <1>10
    DEF Next, GetMiss, InsertOversize

\* Every field of the shard and of the policy stays in its range, for every set
\* of keys and sizes and every capacity.
THEOREM TypeCorrect == Spec => []TypeOK
<1>1. Init => TypeOK
    BY S3FIFOAssumption DEF Init, TypeOK
<1> QED BY <1>1, TypeStep, PTL DEF Spec

-----------------------------------------------------------------------------
(* The map and the policy's live maps.                                     *)

\* Who is resident after an admission, a promotion or a lap of main.
LEMMA ResidentAfterAdmit ==
    ASSUME TypeOK, Admit
    PROVE  /\ req.key \in Keys /\ req.size \in Nat
           /\ Resident' = Resident \cup {req.key}
           /\ used' <= Capacity
<1>1. req.key \in Keys /\ req.size \in Nat
    BY DEF Admit, TypeOK, Request
<1>2. [size |-> req.size, freq |-> 0] # None
    BY <1>1, EntryNotNone DEF Entry
<1>3. \A j \in Keys : m'[j] = IF j = req.key THEN [size |-> req.size, freq |-> 0] ELSE m[j]
    BY <1>1 DEF Admit, TypeOK
<1>4. Resident' = Resident \cup {req.key}
    BY <1>1, <1>2, <1>3 DEF Resident
<1> QED BY <1>1, <1>4 DEF Admit, Fits

\* A promotion moves one key from the live map of small to that of main.
LEMMA PromoteEffect ==
    ASSUME TypeOK, Promote
    PROVE  LET k == Head(small).key
           IN  /\ small # <<>> /\ k \in Keys /\ k \in Resident
               /\ isLive(Head(small), inS)
               /\ Resident' = Resident
               /\ Live(inS)' = Live(inS) \ {k} /\ Live(inM)' = Live(inM) \cup {k}
               /\ \A j \in Keys : /\ inS'[j] = IF j = k THEN 0 ELSE inS[j]
                                  /\ inM'[j] = IF j = k THEN gen + 1 ELSE inM[j]
               /\ gen' = gen + 1 /\ small' = Tail(small)
               /\ main' = push(main, k, gen + 1)
<1> DEFINE k == Head(small).key
<1>1. small # <<>> /\ k \in Resident /\ isLive(Head(small), inS)
    BY DEF Promote, FromSmall
<1>2. k \in Keys
    BY <1>1, HeadTail DEF TypeOK
<1>3. /\ small' = Tail(small) /\ gen' = gen + 1
      /\ inS' = [inS EXCEPT ![k] = 0] /\ inM' = [inM EXCEPT ![k] = gen + 1]
      /\ main' = push(main, k, gen + 1) /\ m' = [m EXCEPT ![k].freq = 0]
    BY DEF Promote
<1> HIDE DEF k
<1>4. Resident' = Resident
  <2>1. 0 \in 0..3
      OBVIOUS
  <2> QED BY <1>1, <1>2, <1>3, <2>1, SetFreq
<1>5. \A j \in Keys : /\ inS'[j] = IF j = k THEN 0 ELSE inS[j]
                      /\ inM'[j] = IF j = k THEN gen + 1 ELSE inM[j]
    BY <1>2, <1>3 DEF TypeOK
<1>6. gen + 1 # 0
    BY DEF TypeOK
<1>7. Live(inS)' = Live(inS) \ {k} /\ Live(inM)' = Live(inM) \cup {k}
    BY <1>2, <1>5, <1>6 DEF Live
<1> QED BY <1>1, <1>2, <1>3, <1>4, <1>5, <1>7 DEF k

\* Before an operation and after it, and between any two iterations of Victim,
\* the map and the two live maps name the same keys.
LEMMA PartitionStep == TypeOK /\ Partition /\ PendingOK /\ [Next]_vars => Partition'
<1> SUFFICES ASSUME TypeOK, Partition, PendingOK, [Next]_vars PROVE Partition'
    OBVIOUS
<1>1. ASSUME NEW k \in Keys, k \in Resident, drop(k) PROVE Partition'
    BY <1>1, DropEffect DEF Partition
<1>2. ASSUME NEW k \in Keys, GetHit(k) PROVE Partition'
  <2>1. Resident' = Resident
      BY <1>2, GetHitFreq, SetFreq
  <2> QED BY <1>2, <2>1 DEF GetHit, queues, Partition, Live
<1>3. CASE Admit
  <2> DEFINE k == req.key
  <2>1. k \in Keys /\ Resident' = Resident \cup {k} /\ k \notin Resident
      BY <1>3, ResidentAfterAdmit DEF PendingOK, Admit
  <2>2. gen \in Nat /\ gen' = gen + 1
      BY <1>3 DEF Admit, OnAdmit, TypeOK
  <2>3. CASE k \in inG
    <3>1. inS' = inS /\ inM' = [inM EXCEPT ![k] = gen']
        BY <1>3, <2>3 DEF Admit, OnAdmit
    <3>2. \A j \in Keys : inM'[j] = IF j = k THEN gen' ELSE inM[j]
        BY <3>1, <2>1 DEF TypeOK
    <3>3. Live(inM)' = Live(inM) \cup {k} /\ Live(inS)' = Live(inS)
        BY <2>1, <2>2, <3>1, <3>2 DEF Live
    <3> QED BY <2>1, <3>3 DEF Partition
  <2>4. CASE k \notin inG
    <3>1. inM' = inM /\ inS' = [inS EXCEPT ![k] = gen']
        BY <1>3, <2>4 DEF Admit, OnAdmit
    <3>2. \A j \in Keys : inS'[j] = IF j = k THEN gen' ELSE inS[j]
        BY <3>1, <2>1 DEF TypeOK
    <3>3. Live(inS)' = Live(inS) \cup {k} /\ Live(inM)' = Live(inM)
        BY <2>1, <2>2, <3>1, <3>2 DEF Live
    <3> QED BY <2>1, <3>3 DEF Partition
  <2> QED BY <2>3, <2>4
<1>4. CASE VictimPromote
  <2>1. Promote
      BY <1>4 DEF VictimPromote
  <2> DEFINE k == Head(small).key
  <2>2. /\ k \in Resident /\ Resident' = Resident
        /\ Live(inS)' = Live(inS) \ {k} /\ Live(inM)' = Live(inM) \cup {k}
      BY <2>1, PromoteEffect
  <2> HIDE DEF k
  <2> QED BY <2>2 DEF Partition
<1>5. CASE VictimReinsert
  <2>1. Resident' = Resident
      BY <1>5, ReinsertFreq, SetFreq DEF VictimReinsert
  <2> QED BY <1>5, <2>1 DEF VictimReinsert, Partition, Live
<1>6. CASE UNCHANGED <<m, inS, inM>>
    BY <1>6 DEF Partition, Resident, Live
<1>7. ASSUME NEW k \in Keys, NEW size \in Sizes, InsertBegin(k, size) PROVE Partition'
    BY <1>1, <1>6, <1>7 DEF InsertBegin
<1>8. CASE VictimReturn
  <2>1. CASE EvictSmall
      BY <1>1, <2>1, HeadTail DEF EvictSmall, FromSmall, TypeOK
  <2>2. CASE EvictMain
      BY <1>1, <2>2, HeadTail DEF EvictMain, TypeOK
  <2> QED BY <1>6, <1>8, <2>1, <2>2 DEF VictimReturn, queues
<1> QED
    BY <1>1, <1>2, <1>3, <1>4, <1>5, <1>6, <1>7, <1>8
    DEF Next, vars, queues, GetMiss, GetExpired, Remove, InsertOversize,
        EvictOne, VictimSkip

\* The key under insertion stays absent until Admit, and fits an empty shard.
LEMMA PendingStep == TypeOK /\ PendingOK /\ [Next]_vars => PendingOK'
<1> SUFFICES ASSUME TypeOK, PendingOK, [Next]_vars PROVE PendingOK'
    OBVIOUS
<1>1. CASE pc' = "idle"
    BY <1>1 DEF PendingOK
<1>2. ASSUME NEW k \in Keys, NEW size \in Sizes, InsertBegin(k, size) PROVE PendingOK'
  <2>1. req'.key = k /\ req'.size = size /\ size <= Capacity
      BY <1>2 DEF InsertBegin
  <2>2. k \notin Resident'
    <3>1. CASE k \in Resident
        BY <1>2, <3>1, DropEffect DEF InsertBegin
    <3>2. CASE k \notin Resident
        BY <1>2, <3>2 DEF InsertBegin, Resident
    <3> QED BY <3>1, <3>2
  <2> QED BY <2>1, <2>2 DEF PendingOK
<1>3. ASSUME pc # "idle", req' = req, Resident' \subseteq Resident PROVE PendingOK'
    BY <1>3 DEF PendingOK
<1>4. CASE VictimPromote
    BY <1>3, <1>4, PromoteEffect DEF VictimPromote, Searching
<1>5. CASE VictimReinsert
  <2>1. Resident' = Resident
      BY <1>5, ReinsertFreq, SetFreq DEF VictimReinsert
  <2> QED BY <1>3, <1>5, <2>1 DEF VictimReinsert, Searching
<1>6. CASE VictimReturn
  <2>1. CASE EvictSmall /\ req' = req
    <3>1. Head(small).key \in Keys /\ Head(small).key \in Resident /\ drop(Head(small).key)
        BY <2>1, HeadTail DEF EvictSmall, FromSmall, TypeOK
    <3>2. Resident' \subseteq Resident
        BY <3>1, DropEffect
    <3> QED BY <1>3, <1>6, <2>1, <3>2 DEF VictimReturn
  <2>2. CASE EvictMain /\ req' = req
    <3>1. Head(main).key \in Keys /\ Head(main).key \in Resident /\ drop(Head(main).key)
        BY <2>2, HeadTail DEF EvictMain, TypeOK
    <3>2. Resident' \subseteq Resident
        BY <3>1, DropEffect
    <3> QED BY <1>3, <1>6, <2>2, <3>2 DEF VictimReturn
  <2> QED BY <1>1, <1>6, <2>1, <2>2 DEF VictimReturn
<1>7. CASE (VictimSkip \/ EvictOne)
  <2>1. m' = m /\ req' = req /\ pc # "idle"
      BY <1>7 DEF VictimSkip, EvictOne, Searching
  <2> QED BY <1>3, <2>1 DEF Resident
<1>8. CASE UNCHANGED vars
    BY <1>8 DEF vars, PendingOK, Resident
<1> QED
    BY <1>1, <1>2, <1>4, <1>5, <1>6, <1>7, <1>8
    DEF Next, GetHit, GetMiss, GetExpired, Remove, InsertOversize, Admit

-----------------------------------------------------------------------------
(* Slots and generations.                                                  *)

\* push gives a slot the next generation, which no queued slot has.
LEMMA PushKeeps ==
    ASSUME NEW q \in Seq(Slot), NEW k \in Keys, NEW g \in Nat,
           GenUnique(q), GenBounded(q, g)
    PROVE  /\ GenUnique(push(q, k, g + 1)) /\ GenBounded(push(q, k, g + 1), g + 1)
           /\ Holds(push(q, k, g + 1), k, g + 1)
           /\ \A j \in Keys, h \in Nat : Holds(q, j, h) => Holds(push(q, k, g + 1), j, h)
<1> DEFINE s == [key |-> k, gen |-> g + 1]
           p == push(q, k, g + 1)
<1>1. /\ Len(p) = Len(q) + 1 /\ Len(q) \in Nat
      /\ \A i \in 1..Len(q) : p[i] = q[i]
      /\ p[Len(q) + 1] = s
    BY DEF push
<1>2. s.gen = g + 1
    OBVIOUS
<1>3. \A i \in 1..Len(q) : q[i].gen \in 1..g
    BY DEF GenBounded
<1> HIDE DEF s, p
<1>4. GenBounded(p, g + 1)
  <2> SUFFICES ASSUME NEW i \in 1..Len(p) PROVE p[i].gen \in 1..(g + 1)
      BY DEF GenBounded
  <2>1. CASE i = Len(q) + 1
      BY <1>1, <1>2, <2>1
  <2>2. CASE i \in 1..Len(q)
    <3>1. p[i].gen \in 1..g
        BY <1>1, <1>3, <2>2
    <3> QED BY <3>1
  <2> QED BY <1>1, <2>1, <2>2
<1>5. GenUnique(p)
  <2> SUFFICES ASSUME NEW i \in 1..Len(p), NEW j \in 1..Len(p), p[i].gen = p[j].gen
               PROVE  i = j
      BY DEF GenUnique
  <2>1. CASE i = Len(q) + 1 /\ j \in 1..Len(q)
    <3>1. p[i].gen = g + 1 /\ p[j].gen \in 1..g
        BY <1>1, <1>2, <1>3, <2>1
    <3> QED BY <3>1
  <2>2. CASE j = Len(q) + 1 /\ i \in 1..Len(q)
    <3>1. p[j].gen = g + 1 /\ p[i].gen \in 1..g
        BY <1>1, <1>2, <1>3, <2>2
    <3> QED BY <3>1
  <2>3. CASE i \in 1..Len(q) /\ j \in 1..Len(q)
      BY <1>1, <2>3 DEF GenUnique
  <2> QED BY <1>1, <2>1, <2>2, <2>3
<1>6. Holds(p, k, g + 1)
  <2>1. Len(q) + 1 \in 1..Len(p)
      BY <1>1
  <2> QED BY <1>1, <2>1 DEF Holds, s
<1>7. ASSUME NEW j \in Keys, NEW h \in Nat, Holds(q, j, h) PROVE Holds(p, j, h)
  <2>1. PICK i \in 1..Len(q) : q[i] = [key |-> j, gen |-> h]
      BY <1>7 DEF Holds
  <2>2. i \in 1..Len(p) /\ p[i] = q[i]
      BY <1>1
  <2> QED BY <2>1, <2>2 DEF Holds
<1> QED BY <1>4, <1>5, <1>6, <1>7 DEF p

\* Taking the head off a queue loses no other slot.
LEMMA PopKeeps ==
    ASSUME NEW q \in Seq(Slot), q # <<>>, NEW g \in Nat, GenUnique(q), GenBounded(q, g)
    PROVE  /\ GenUnique(Tail(q)) /\ GenBounded(Tail(q), g)
           /\ \A j \in Keys, h \in Nat :
                 Holds(q, j, h) => Holds(Tail(q), j, h) \/ (Head(q).key = j /\ Head(q).gen = h)
<1> DEFINE p == Tail(q)
<1>1. /\ Len(p) = Len(q) - 1 /\ Len(q) \in Nat \ {0}
      /\ \A i \in 1..Len(p) : p[i] = q[i + 1]
      /\ Head(q) = q[1]
    OBVIOUS
<1> HIDE DEF p
<1>2. \A i \in 1..Len(p) : i + 1 \in 1..Len(q)
    BY <1>1
<1>3. GenBounded(p, g)
    BY <1>1, <1>2 DEF GenBounded
<1>4. GenUnique(p)
  <2> SUFFICES ASSUME NEW i \in 1..Len(p), NEW j \in 1..Len(p), p[i].gen = p[j].gen
               PROVE  i = j
      BY DEF GenUnique
  <2>1. i + 1 = j + 1
      BY <1>1, <1>2 DEF GenUnique
  <2> QED BY <2>1
<1>5. ASSUME NEW j \in Keys, NEW h \in Nat, Holds(q, j, h)
      PROVE  Holds(p, j, h) \/ (Head(q).key = j /\ Head(q).gen = h)
  <2>1. PICK i \in 1..Len(q) : q[i] = [key |-> j, gen |-> h]
      BY <1>5 DEF Holds
  <2>2. CASE i = 1
      BY <1>1, <2>1, <2>2
  <2>3. CASE i # 1
    <3>1. i - 1 \in 1..Len(p) /\ p[i - 1] = q[i]
        BY <1>1, <2>3
    <3> QED BY <2>1, <3>1 DEF Holds
  <2> QED BY <2>2, <2>3
<1> QED BY <1>3, <1>4, <1>5 DEF p

\* Moving the head of main to its back loses no slot and repeats none.
LEMMA RotateKeeps ==
    ASSUME NEW q \in Seq(Slot), q # <<>>, NEW in \in [Keys -> Nat], NEW g \in Nat,
           QueueOK(q, in, g)
    PROVE  QueueOK(Append(Tail(q), Head(q)), in, g)
<1> DEFINE p == Append(Tail(q), Head(q))
           N == Len(q)
<1>1. N \in Nat \ {0} /\ Len(p) = N
    OBVIOUS
<1>2. p[N] = q[1] /\ \A i \in 1..(N - 1) : p[i] = q[i + 1]
  <2>1. /\ Tail(q) \in Seq(Slot) /\ Head(q) = q[1] /\ Len(Tail(q)) = N - 1
        /\ \A i \in 1..(N - 1) : Tail(q)[i] = q[i + 1]
      OBVIOUS
  <2> QED BY <1>1, <2>1
<1>3. /\ \A i, j \in 1..N : q[i].gen = q[j].gen => i = j
      /\ \A i \in 1..N : q[i].gen \in 1..g
    BY DEF QueueOK, GenUnique, GenBounded
<1> HIDE DEF p, N
<1>4. \A i \in 1..N : \E l \in 1..N : p[i] = q[l] /\ l = (IF i = N THEN 1 ELSE i + 1)
  <2> SUFFICES ASSUME NEW i \in 1..N
               PROVE  \E l \in 1..N : p[i] = q[l] /\ l = (IF i = N THEN 1 ELSE i + 1)
      OBVIOUS
  <2>1. CASE i = N
    <3>1. 1 \in 1..N
        BY <1>1
    <3> QED BY <1>2, <2>1, <3>1
  <2>2. CASE i # N
    <3>1. i \in 1..(N - 1) /\ i + 1 \in 1..N
        BY <1>1, <2>2
    <3> QED BY <1>2, <2>2, <3>1
  <2> QED BY <2>1, <2>2
<1>5. GenUnique(p) /\ GenBounded(p, g)
  <2>1. GenBounded(p, g)
    <3> SUFFICES ASSUME NEW i \in 1..N PROVE p[i].gen \in 1..g
        BY <1>1 DEF GenBounded
    <3>1. PICK l \in 1..N : p[i] = q[l]
        BY <1>4
    <3> QED BY <1>3, <3>1
  <2>2. ASSUME NEW i \in 1..N, NEW j \in 1..N, p[i].gen = p[j].gen PROVE i = j
    <3>1. PICK a \in 1..N : p[i] = q[a] /\ a = (IF i = N THEN 1 ELSE i + 1)
        BY <1>4
    <3>2. PICK b \in 1..N : p[j] = q[b] /\ b = (IF j = N THEN 1 ELSE j + 1)
        BY <1>4
    <3>3. a = b
        BY <1>3, <2>2, <3>1, <3>2
    <3> QED BY <1>1, <3>1, <3>2, <3>3
  <2> QED BY <1>1, <2>1, <2>2 DEF GenUnique
<1>6. ASSUME NEW k \in Keys, in[k] # 0 PROVE Holds(p, k, in[k])
  <2>1. PICK i \in 1..Len(q) : q[i] = [key |-> k, gen |-> in[k]]
      BY <1>6 DEF QueueOK, Holds
  <2>2. PICK j \in 1..N : p[j] = q[i]
    <3>1. CASE i = 1
        BY <1>1, <1>2, <3>1
    <3>2. CASE i # 1
      <4>1. i - 1 \in 1..(N - 1) /\ i - 1 \in 1..N /\ (i - 1) + 1 = i
          BY <1>1, <3>2 DEF N
      <4> QED BY <1>2, <4>1
    <3> QED BY <3>1, <3>2
  <2> QED BY <1>1, <2>1, <2>2 DEF Holds
<1> QED BY <1>5, <1>6 DEF QueueOK, p

\* A key that leaves a live map leaves the queue consistent: its slot is stale.
LEMMA ForgetKeeps ==
    ASSUME NEW q \in Seq(Slot), NEW in \in [Keys -> Nat], NEW in2 \in [Keys -> Nat],
           NEW g \in Nat, QueueOK(q, in, g), \A j \in Keys : in2[j] \in {0, in[j]}
    PROVE  QueueOK(q, in2, g) /\ QueueOK(q, in2, g + 1)
<1>1. \A k \in Keys : in2[k] # 0 => Holds(q, k, in2[k])
    BY DEF QueueOK
<1>2. GenBounded(q, g + 1)
  <2> SUFFICES ASSUME NEW i \in 1..Len(q) PROVE q[i].gen \in 1..(g + 1)
      BY DEF GenBounded
  <2>1. q[i].gen \in 1..g
      BY DEF QueueOK, GenBounded
  <2> QED BY <2>1
<1> QED BY <1>1, <1>2 DEF QueueOK

\* A head that is not live, or no longer live, can be taken off the queue.
LEMMA DequeueKeeps ==
    ASSUME NEW q \in Seq(Slot), q # <<>>, NEW in \in [Keys -> Nat],
           NEW in2 \in [Keys -> Nat], NEW g \in Nat,
           QueueOK(q, in, g), \A j \in Keys : in2[j] \in {0, in[j]},
           ~isLive(Head(q), in2) \/ in2[Head(q).key] = 0
    PROVE  QueueOK(Tail(q), in2, g)
<1>1. QueueOK(q, in2, g)
    BY ForgetKeeps
<1>2. Head(q).key \in Keys /\ Head(q).gen # 0
  <2>1. 1 \in 1..Len(q) /\ Head(q) = q[1]
      OBVIOUS
  <2>2. q[1].gen \in 1..g
      BY <2>1 DEF QueueOK, GenBounded
  <2> QED BY <2>1, <2>2, HeadTail
<1>3. ~isLive(Head(q), in2)
    BY <1>2 DEF isLive
<1>4. /\ GenUnique(Tail(q)) /\ GenBounded(Tail(q), g)
      /\ \A j \in Keys, h \in Nat :
            Holds(q, j, h) => Holds(Tail(q), j, h) \/ (Head(q).key = j /\ Head(q).gen = h)
    BY <1>1, PopKeeps DEF QueueOK
<1>5. ASSUME NEW k \in Keys, in2[k] # 0 PROVE Holds(Tail(q), k, in2[k])
  <2>1. Holds(q, k, in2[k]) /\ in2[k] \in Nat
      BY <1>1, <1>5 DEF QueueOK
  <2> QED BY <1>3, <1>4, <2>1 DEF isLive
<1> QED BY <1>4, <1>5 DEF QueueOK

\* compact drops only stale slots.
LEMMA CompactKeeps ==
    ASSUME NEW q \in Seq(Slot), NEW in \in [Keys -> Nat], NEW g \in Nat, QueueOK(q, in, g)
    PROVE  QueueOK(compact(q, in), in, g)
<1> DEFINE L == LiveSlots(q, in)
<1>1. PICK f \in [1..Len(L) -> {i \in 1..Len(q) : isLive(q[i], in)}] :
          /\ \A n \in 1..Len(L) : L[n] = q[f[n]]
          /\ \A n1, n2 \in 1..Len(L) : f[n1] = f[n2] => n1 = n2
          /\ \A i \in 1..Len(q) : isLive(q[i], in) => \E n \in 1..Len(L) : f[n] = i
    BY LiveSlotsExact, SMTT(40)
<1> HIDE DEF L
<1>2. \A n \in 1..Len(L) : f[n] \in 1..Len(q)
    OBVIOUS
<1>3. GenUnique(L) /\ GenBounded(L, g)
  <2>1. GenBounded(L, g)
      BY <1>1, <1>2 DEF QueueOK, GenBounded
  <2>2. ASSUME NEW n1 \in 1..Len(L), NEW n2 \in 1..Len(L), L[n1].gen = L[n2].gen
        PROVE  n1 = n2
    <3>0. /\ f[n1] \in 1..Len(q) /\ f[n2] \in 1..Len(q)
          /\ q[f[n1]].gen = q[f[n2]].gen
        BY <1>1, <1>2, <2>2
    <3>1. f[n1] = f[n2]
        BY <3>0 DEF QueueOK, GenUnique
    <3> QED BY <1>1, <3>1
  <2> QED BY <2>1, <2>2 DEF GenUnique
<1>4. ASSUME NEW k \in Keys, in[k] # 0 PROVE Holds(L, k, in[k])
  <2>1. PICK i \in 1..Len(q) : q[i] = [key |-> k, gen |-> in[k]]
      BY <1>4 DEF QueueOK, Holds
  <2>2. isLive(q[i], in)
      BY <2>1 DEF isLive
  <2>3. PICK n \in 1..Len(L) : f[n] = i
      BY <1>1, <2>2
  <2> QED BY <1>1, <2>1, <2>3 DEF Holds
<1>5. QueueOK(L, in, g)
    BY <1>3, <1>4 DEF QueueOK
<1> QED BY <1>5 DEF compact, L

\* A pushed key is live under the generation push gave it.
LEMMA EnqueueKeeps ==
    ASSUME NEW q \in Seq(Slot), NEW in \in [Keys -> Nat], NEW g \in Nat, NEW k \in Keys,
           NEW in2 \in [Keys -> Nat], QueueOK(q, in, g),
           \A j \in Keys : in2[j] = IF j = k THEN g + 1 ELSE in[j]
    PROVE  QueueOK(push(q, k, g + 1), in2, g + 1)
<1> DEFINE p == push(q, k, g + 1)
<1>1. /\ GenUnique(p) /\ GenBounded(p, g + 1) /\ Holds(p, k, g + 1)
      /\ \A j \in Keys, h \in Nat : Holds(q, j, h) => Holds(p, j, h)
    BY PushKeeps DEF QueueOK
<1> HIDE DEF p
<1>2. ASSUME NEW j \in Keys, in2[j] # 0 PROVE Holds(p, j, in2[j])
  <2>1. CASE j = k
      BY <1>1, <2>1
  <2>2. CASE j # k
      BY <1>1, <1>2, <2>2 DEF QueueOK
  <2> QED BY <2>1, <2>2
<1> QED BY <1>1, <1>2 DEF QueueOK, p

\* Every operation and every iteration of Victim keeps both queues consistent
\* with their live maps.
LEMMA SlotsStep == TypeOK /\ TypeOK' /\ Partition /\ SlotsOK /\ [Next]_vars => SlotsOK'
<1> SUFFICES ASSUME TypeOK, TypeOK', Partition, SlotsOK, [Next]_vars PROVE SlotsOK'
    OBVIOUS
<1>0. /\ small \in Seq(Slot) /\ main \in Seq(Slot) /\ gen \in Nat
      /\ inS \in [Keys -> Nat] /\ inM \in [Keys -> Nat]
      /\ inS' \in [Keys -> Nat] /\ inM' \in [Keys -> Nat]
      /\ QueueOK(small, inS, gen) /\ QueueOK(main, inM, gen)
    BY DEF TypeOK, SlotsOK
<1>1. CASE UNCHANGED <<small, main, inS, inM, gen>>
    BY <1>0, <1>1 DEF SlotsOK
<1>2. ASSUME NEW k \in Keys, k \in Resident, drop(k)
      PROVE  /\ \A j \in Keys : inS'[j] \in {0, inS[j]} /\ inM'[j] \in {0, inM[j]}
             /\ inS'[k] = 0 /\ inM'[k] = 0
    BY <1>0, <1>2 DEF drop
<1>3. ASSUME NEW k \in Keys, k \in Resident, drop(k), UNCHANGED <<small, main, gen>>
      PROVE  SlotsOK'
    BY <1>0, <1>2, <1>3, ForgetKeeps DEF SlotsOK
<1>4. ASSUME NEW k \in Keys, NEW size \in Sizes, InsertBegin(k, size) PROVE SlotsOK'
    BY <1>1, <1>3, <1>4 DEF InsertBegin
<1>5. CASE Admit
  <2> DEFINE k == req.key
  <2>1. k \in Keys
      BY <1>5, ResidentAfterAdmit
  <2>2. gen' = gen + 1
      BY <1>5 DEF Admit, OnAdmit
  <2>3. CASE k \in inG
    <3>1. /\ inS' = inS /\ small' = small /\ inM' = [inM EXCEPT ![k] = gen + 1]
          /\ main' = compact(push(main, k, gen + 1), inM')
        BY <1>5, <2>2, <2>3 DEF Admit, OnAdmit
    <3>2. \A j \in Keys : inM'[j] = IF j = k THEN gen + 1 ELSE inM[j]
        BY <1>0, <3>1, <2>1
    <3> HIDE DEF k
    <3>3. QueueOK(push(main, k, gen + 1), inM', gen + 1) /\ push(main, k, gen + 1) \in Seq(Slot)
        BY <1>0, <2>1, <3>2, EnqueueKeeps, PushType
    <3>4. QueueOK(main', inM', gen + 1)
      <4>1. gen + 1 \in Nat
          BY <1>0
      <4>2. QueueOK(compact(push(main, k, gen + 1), inM'), inM', gen + 1)
          BY <1>0, <3>3, <4>1, CompactKeeps
      <4> QED BY <3>1, <4>2 DEF k
    <3>5. QueueOK(small, inS, gen + 1)
        BY <1>0, ForgetKeeps
    <3> QED BY <2>2, <3>1, <3>4, <3>5 DEF SlotsOK
  <2>4. CASE k \notin inG
    <3>1. /\ inM' = inM /\ main' = main /\ inS' = [inS EXCEPT ![k] = gen + 1]
          /\ small' = compact(push(small, k, gen + 1), inS')
        BY <1>5, <2>2, <2>4 DEF Admit, OnAdmit
    <3>2. \A j \in Keys : inS'[j] = IF j = k THEN gen + 1 ELSE inS[j]
        BY <1>0, <3>1, <2>1
    <3> HIDE DEF k
    <3>3. QueueOK(push(small, k, gen + 1), inS', gen + 1) /\ push(small, k, gen + 1) \in Seq(Slot)
        BY <1>0, <2>1, <3>2, EnqueueKeeps, PushType
    <3>4. QueueOK(small', inS', gen + 1)
      <4>1. gen + 1 \in Nat
          BY <1>0
      <4>2. QueueOK(compact(push(small, k, gen + 1), inS'), inS', gen + 1)
          BY <1>0, <3>3, <4>1, CompactKeeps
      <4> QED BY <3>1, <4>2 DEF k
    <3>5. QueueOK(main, inM, gen + 1)
        BY <1>0, ForgetKeeps
    <3> QED BY <2>2, <3>1, <3>4, <3>5 DEF SlotsOK
  <2> QED BY <2>3, <2>4
<1>6. CASE VictimSkip
  <2>1. gen' = gen /\ inS' = inS /\ inM' = inM
      BY <1>6 DEF VictimSkip
  <2>2. CASE small # <<>> /\ small' = Tail(small) /\ main' = main
             /\ (~isLive(Head(small), inS) \/ Head(small).key \notin Resident)
    <3>1. ~isLive(Head(small), inS) \/ inS[Head(small).key] = 0
        BY <1>0, <2>2, HeadTail DEF Partition, Live
    <3>2. QueueOK(Tail(small), inS, gen)
        BY <1>0, <2>2, <3>1, DequeueKeeps
    <3> QED BY <1>0, <2>1, <2>2, <3>2 DEF SlotsOK
  <2>3. CASE main # <<>> /\ main' = Tail(main) /\ small' = small
             /\ (~isLive(Head(main), inM) \/ Head(main).key \notin Resident)
    <3>1. ~isLive(Head(main), inM) \/ inM[Head(main).key] = 0
        BY <1>0, <2>3, HeadTail DEF Partition, Live
    <3>2. QueueOK(Tail(main), inM, gen)
        BY <1>0, <2>3, <3>1, DequeueKeeps
    <3> QED BY <1>0, <2>1, <2>3, <3>2 DEF SlotsOK
  <2> QED BY <1>6, <2>2, <2>3 DEF VictimSkip, SkipStale, FromSmall
<1>7. CASE VictimPromote
  <2> DEFINE k == Head(small).key
  <2>1. Promote
      BY <1>7 DEF VictimPromote
  <2>2. /\ small # <<>> /\ k \in Keys
        /\ \A j \in Keys : /\ inS'[j] = IF j = k THEN 0 ELSE inS[j]
                           /\ inM'[j] = IF j = k THEN gen + 1 ELSE inM[j]
        /\ gen' = gen + 1 /\ small' = Tail(small) /\ main' = push(main, k, gen + 1)
      BY <2>1, PromoteEffect
  <2>3. QueueOK(Tail(small), inS', gen) /\ Tail(small) \in Seq(Slot)
      BY <1>0, <2>2, DequeueKeeps, HeadTail
  <2>4. QueueOK(Tail(small), inS', gen + 1)
      BY <1>0, <2>3, ForgetKeeps
  <2> HIDE DEF k
  <2>5. QueueOK(push(main, k, gen + 1), inM', gen + 1)
      BY <1>0, <2>2, EnqueueKeeps
  <2> QED BY <2>2, <2>4, <2>5 DEF SlotsOK
<1>8. CASE VictimReinsert
  <2>1. /\ main # <<>> /\ main' = Append(Tail(main), Head(main))
        /\ UNCHANGED <<small, inS, inM, gen>>
      BY <1>8 DEF VictimReinsert, Reinsert
  <2>2. QueueOK(main', inM, gen)
      BY <1>0, <2>1, RotateKeeps
  <2> QED BY <1>0, <2>1, <2>2 DEF SlotsOK
<1>9. CASE VictimReturn
  <2>1. CASE EvictSmall /\ main' = main /\ gen' = gen
    <3> DEFINE k == Head(small).key
    <3>1. small # <<>> /\ k \in Resident /\ drop(k) /\ small' = Tail(small)
        BY <2>1 DEF EvictSmall, FromSmall
    <3>2. k \in Keys
        BY <1>0, <3>1, HeadTail
    <3>3. QueueOK(Tail(small), inS', gen) /\ QueueOK(main, inM', gen)
        BY <1>0, <1>2, <3>1, <3>2, DequeueKeeps, ForgetKeeps
    <3> QED BY <2>1, <3>1, <3>3 DEF SlotsOK
  <2>2. CASE EvictMain /\ small' = small /\ gen' = gen
    <3> DEFINE k == Head(main).key
    <3>1. main # <<>> /\ k \in Resident /\ drop(k) /\ main' = Tail(main)
        BY <2>2 DEF EvictMain
    <3>2. k \in Keys
        BY <1>0, <3>1, HeadTail
    <3>3. QueueOK(Tail(main), inM', gen) /\ QueueOK(small, inS', gen)
        BY <1>0, <1>2, <3>1, <3>2, DequeueKeeps, ForgetKeeps
    <3> QED BY <2>2, <3>1, <3>3 DEF SlotsOK
  <2> QED BY <1>1, <1>9, <2>1, <2>2 DEF VictimReturn, queues
<1> QED
    BY <1>1, <1>3, <1>4, <1>5, <1>6, <1>7, <1>8, <1>9
    DEF Next, vars, queues, GetHit, GetMiss, GetExpired, Remove, InsertOversize, EvictOne

-----------------------------------------------------------------------------
(* The ghost queue.                                                        *)

\* rememberGhost queues k and may forget the oldest key; whatever inG still
\* remembers is still queued.
LEMMA RememberEffect ==
    ASSUME TypeOK, NEW k \in Keys, Len(ghost) <= GhostTarget, rememberGhost(k),
           \A j \in inG : \E i \in 1..Len(ghost) : ghost[i] = j
    PROVE  /\ Len(ghost') <= GhostTarget
           /\ inG' \subseteq inG \cup {k}
           /\ \A j \in inG' : \E i \in 1..Len(ghost') : ghost'[i] = j
<1> DEFINE g == Append(ghost, k)
           N == Len(ghost)
<1>1. /\ ghost \in Seq(Keys) /\ N \in Nat /\ GhostTarget \in Nat \ {0}
      /\ g \in Seq(Keys) /\ g # <<>> /\ Len(g) = N + 1
      /\ g[N + 1] = k /\ \A i \in 1..N : g[i] = ghost[i]
  <2>1. ghost \in Seq(Keys)
      BY DEF TypeOK
  <2>2. GhostTarget \in Nat \ {0}
      BY S3FIFOAssumption
  <2>3. N \in Nat /\ g \in Seq(Keys) /\ Len(g) = N + 1
      BY <2>1
  <2>4. g # <<>>
      BY <2>3
  <2>5. g[N + 1] = k /\ \A i \in 1..N : g[i] = ghost[i]
      BY <2>1
  <2> QED BY <2>1, <2>2, <2>3, <2>4, <2>5
<1>2. /\ Tail(g) \in Seq(Keys) /\ Len(Tail(g)) = N /\ Head(g) = g[1]
      /\ \A i \in 1..N : Tail(g)[i] = g[i + 1]
    BY <1>1
<1>3. \/ Len(g) > GhostTarget /\ ghost' = Tail(g) /\ inG' = (inG \cup {k}) \ {Head(g)}
      \/ Len(g) <= GhostTarget /\ ghost' = g /\ inG' = inG \cup {k}
    BY <1>1 DEF rememberGhost
<1>4. \A j \in inG \cup {k} : \E i \in 1..(N + 1) : g[i] = j
  <2> SUFFICES ASSUME NEW j \in inG \cup {k} PROVE \E i \in 1..(N + 1) : g[i] = j
      OBVIOUS
  <2>1. CASE j = k
    <3>1. N + 1 \in 1..(N + 1)
        BY <1>1
    <3> QED BY <1>1, <2>1, <3>1
  <2>2. CASE j \in inG
    <3>1. PICK i \in 1..N : ghost[i] = j
        BY <2>2
    <3>2. i \in 1..(N + 1)
        BY <1>1
    <3> QED BY <1>1, <3>1, <3>2
  <2> QED BY <2>1, <2>2
<1> HIDE DEF g, N
<1>5. CASE Len(g) > GhostTarget /\ ghost' = Tail(g) /\ inG' = (inG \cup {k}) \ {Head(g)}
  <2>1. Len(ghost') <= GhostTarget
      BY <1>2, <1>5 DEF N
  <2>2. ASSUME NEW j \in inG' PROVE \E i \in 1..N : Tail(g)[i] = j
    <3>1. j \in inG \cup {k} /\ j # g[1]
        BY <1>2, <1>5, <2>2
    <3>2. PICK i \in 1..(N + 1) : g[i] = j
        BY <1>4, <3>1
    <3>3. i # 1
        BY <3>1, <3>2
    <3>4. i - 1 \in 1..N /\ (i - 1) + 1 = i
        BY <1>1, <3>3
    <3> QED BY <1>2, <3>2, <3>4
  <2> QED BY <1>2, <1>5, <2>1, <2>2
<1>6. CASE Len(g) <= GhostTarget /\ ghost' = g /\ inG' = inG \cup {k}
  <2>1. Len(ghost') = N + 1
      BY <1>1, <1>6
  <2> QED BY <1>4, <1>6, <2>1
<1> QED BY <1>3, <1>5, <1>6

\* The ghost queue stays within its target and never remembers a resident key.
LEMMA GhostStep ==
    TypeOK /\ GhostConsistent /\ [Next]_vars => GhostConsistent'
<1> SUFFICES ASSUME TypeOK, GhostConsistent, [Next]_vars PROVE GhostConsistent'
    OBVIOUS
<1>1. ASSUME UNCHANGED <<ghost, inG>>, Resident' \subseteq Resident PROVE GhostConsistent'
    BY <1>1 DEF GhostConsistent
<1>2. ASSUME NEW k \in Keys, k \in Resident, drop(k) PROVE Resident' = Resident \ {k}
    BY <1>2, DropEffect
<1>3. ASSUME UNCHANGED m PROVE Resident' = Resident
    BY <1>3 DEF Resident
<1>4. ASSUME NEW k \in Keys, GetHit(k) PROVE GhostConsistent'
  <2>1. Resident' = Resident
      BY <1>4, GetHitFreq, SetFreq
  <2> QED BY <1>1, <1>4, <2>1 DEF GetHit, queues
<1>5. ASSUME NEW k \in Keys, GetExpired(k) \/ Remove(k) PROVE GhostConsistent'
    BY <1>1, <1>2, <1>5 DEF GetExpired, Remove
<1>6. ASSUME NEW k \in Keys, NEW size \in Sizes, InsertBegin(k, size) PROVE GhostConsistent'
    BY <1>1, <1>2, <1>3, <1>6 DEF InsertBegin
<1>7. CASE Admit
  <2>1. ghost' = ghost /\ inG' = inG \ {req.key}
    <3>1. CASE req.key \in inG
        BY <1>7, <3>1 DEF Admit, OnAdmit
    <3>2. CASE req.key \notin inG
        BY <1>7, <3>2 DEF Admit, OnAdmit
    <3> QED BY <3>1, <3>2
  <2>2. Resident' = Resident \cup {req.key}
      BY <1>7, ResidentAfterAdmit
  <2> QED BY <2>1, <2>2 DEF GhostConsistent
<1>8. CASE VictimPromote
    BY <1>1, <1>8, PromoteEffect DEF VictimPromote
<1>9. CASE VictimReinsert
  <2>1. Resident' = Resident
      BY <1>9, ReinsertFreq, SetFreq DEF VictimReinsert
  <2> QED BY <1>1, <1>9, <2>1 DEF VictimReinsert
<1>10. CASE VictimReturn
  <2>1. CASE EvictSmall
    <3> DEFINE k == Head(small).key
    <3>1. k \in Keys /\ k \in Resident /\ drop(k) /\ rememberGhost(k)
        BY <2>1, HeadTail DEF EvictSmall, FromSmall, TypeOK
    <3> HIDE DEF k
    <3>2. Resident' = Resident \ {k}
        BY <1>2, <3>1
    <3>3. /\ Len(ghost') <= GhostTarget /\ inG' \subseteq inG \cup {k}
          /\ \A j \in inG' : \E i \in 1..Len(ghost') : ghost'[i] = j
        BY <3>1, RememberEffect DEF GhostConsistent
    <3> QED BY <3>2, <3>3 DEF GhostConsistent
  <2>2. CASE EvictMain /\ UNCHANGED <<ghost, inG>>
      BY <1>1, <1>2, <2>2, HeadTail DEF EvictMain, TypeOK
  <2> QED BY <1>1, <1>3, <1>10, <2>1, <2>2 DEF VictimReturn, queues
<1>11. CASE UNCHANGED <<m, ghost, inG>>
    BY <1>1, <1>3, <1>11
<1> QED
    BY <1>4, <1>5, <1>6, <1>7, <1>8, <1>9, <1>10, <1>11
    DEF Next, vars, queues, GetMiss, InsertOversize, EvictOne, VictimSkip

-----------------------------------------------------------------------------
(* Byte counts. The sum of f over some keys is the number of its units there, *)
(* so that sums over changing sets are counted like sets.                   *)

Units(f, S) == {p \in S \X Nat : p[2] < f[p[1]]}
Count(f, S) == Cardinality(Units(f, S))

\* A set of subsets of a finite set that holds the empty one, and each one all
\* of whose one-smaller subsets it holds, holds them all.
LEMMA SubsetInduction ==
    ASSUME NEW S, IsFiniteSet(S), NEW T, {} \in T,
           \A s \in SUBSET S : s # {} /\ (\A x \in s : s \ {x} \in T) => s \in T
    PROVE  SUBSET S \subseteq T
<1> DEFINE U == (SUBSET S) \ T
<1> SUFFICES ASSUME U # {} PROVE FALSE
    OBVIOUS
<1>1. IsWellFoundedOn(StrictSubsetOrdering(S), FiniteSubsetsOf(S))
    BY FS_StrictSubsetOrderingWellFounded
<1>2. U \subseteq FiniteSubsetsOf(S)
    BY FS_Subset DEF FiniteSubsetsOf
<1>3. PICK s \in U : \A t \in U : <<t, s>> \notin StrictSubsetOrdering(S)
  <2> HIDE DEF U
  <2> QED BY <1>1, <1>2, WFMin
<1>4. \A x \in s : s \ {x} \in T
  <2> SUFFICES ASSUME NEW x \in s PROVE s \ {x} \in T
      OBVIOUS
  <2>1. <<s \ {x}, s>> \in StrictSubsetOrdering(S)
      BY <1>3 DEF StrictSubsetOrdering
  <2>2. s \ {x} \notin U /\ s \ {x} \in SUBSET S
    <3> HIDE DEF U
    <3>1. s \ {x} \notin U
        BY <1>3, <2>1
    <3>2. s \ {x} \in SUBSET S
        BY <1>3 DEF U
    <3> QED BY <3>1, <3>2
  <2> QED BY <2>2
<1>5. s \in SUBSET S /\ s # {} /\ s \notin T
    BY <1>3
<1> QED BY <1>4, <1>5

\* The units of one key, apart from those of the others.
LEMMA UnitsSplit ==
    ASSUME NEW f \in [Keys -> Nat], NEW S \in SUBSET Keys, NEW k \in S
    PROVE  \E U : /\ Units(f, S) = Units(f, S \ {k}) \cup U
                  /\ Units(f, S \ {k}) \cap U = {}
                  /\ IsFiniteSet(U) /\ Cardinality(U) = f[k]
<1> DEFINE I == 0..(f[k] - 1)
           U == {k} \X I
<1>1. f[k] \in Nat
    OBVIOUS
<1>2. IsFiniteSet(I) /\ Cardinality(I) = f[k]
  <2>1. 0 \in Int /\ f[k] - 1 \in Int
      BY <1>1
  <2>2. IsFiniteSet(I) /\ Cardinality(I) = IF 0 > f[k] - 1 THEN 0 ELSE (f[k] - 1) - 0 + 1
      BY <2>1, FS_Interval
  <2> HIDE DEF I
  <2> QED BY <1>1, <2>2
<1>3. IsFiniteSet(U) /\ Cardinality(U) = f[k]
  <2>1. IsFiniteSet({k}) /\ Cardinality({k}) = 1
      BY FS_Singleton
  <2> HIDE DEF I
  <2>2. IsFiniteSet({k} \X I) /\ Cardinality({k} \X I) = Cardinality({k}) * Cardinality(I)
      BY <1>2, <2>1, FS_Product
  <2> QED BY <1>1, <1>2, <2>1, <2>2
<1>4. Units(f, S) = Units(f, S \ {k}) \cup U
  <2>1. ASSUME NEW p \in Units(f, S) PROVE p \in Units(f, S \ {k}) \cup U
    <3>1. p \in S \X Nat /\ p[2] < f[p[1]] /\ p = <<p[1], p[2]>>
        BY <2>1 DEF Units
    <3>2. CASE p[1] = k
      <4>1. p[2] \in I
          BY <1>1, <3>1, <3>2
      <4> QED BY <3>1, <3>2, <4>1
    <3>3. CASE p[1] # k
        BY <3>1, <3>3 DEF Units
    <3> QED BY <3>2, <3>3
  <2>2. ASSUME NEW p \in U PROVE p \in Units(f, S)
      BY <1>1, <2>2 DEF Units
  <2>3. Units(f, S \ {k}) \subseteq Units(f, S)
      BY DEF Units
  <2> QED BY <2>1, <2>2, <2>3
<1>5. Units(f, S \ {k}) \cap U = {}
    BY DEF Units
<1> HIDE DEF U
<1> QED BY <1>3, <1>4, <1>5

LEMMA CountNone ==
    ASSUME NEW f
    PROVE  IsFiniteSet(Units(f, {})) /\ Count(f, {}) = 0
<1>1. Units(f, {}) = {}
    BY DEF Units
<1> QED BY <1>1, FS_EmptySet DEF Count

LEMMA CountNat ==
    ASSUME NEW f \in [Keys -> Nat], NEW S \in SUBSET Keys
    PROVE  IsFiniteSet(Units(f, S)) /\ Count(f, S) \in Nat
<1> DEFINE T == {s \in SUBSET Keys : IsFiniteSet(Units(f, s))}
<1>1. {} \in T
    BY CountNone
<1>2. ASSUME NEW s \in SUBSET Keys, s # {}, \A x \in s : s \ {x} \in T PROVE s \in T
  <2>1. PICK x \in s : TRUE
      BY <1>2
  <2>2. IsFiniteSet(Units(f, s \ {x}))
      BY <1>2
  <2> HIDE DEF T
  <2>3. PICK U : Units(f, s) = Units(f, s \ {x}) \cup U /\ IsFiniteSet(U)
      BY UnitsSplit
  <2>4. IsFiniteSet(Units(f, s \ {x}) \cup U)
      BY <2>2, <2>3, FS_Union
  <2> QED BY <2>3, <2>4 DEF T
<1>3. SUBSET Keys \subseteq T
  <2> HIDE DEF T
  <2> QED BY <1>1, <1>2, S3FIFOAssumption, SubsetInduction
<1>4. IsFiniteSet(Units(f, S))
    BY <1>3
<1> QED BY <1>4, FS_CardinalityType DEF Count

\* The sum is one key's value and the sum of the others'.
LEMMA CountOne ==
    ASSUME NEW f \in [Keys -> Nat], NEW S \in SUBSET Keys, NEW k \in S
    PROVE  Count(f, S) = Count(f, S \ {k}) + f[k]
<1>0. PICK U : /\ Units(f, S) = Units(f, S \ {k}) \cup U /\ Units(f, S \ {k}) \cap U = {}
               /\ IsFiniteSet(U) /\ Cardinality(U) = f[k]
    BY UnitsSplit
<1>1. PICK A : /\ A = Units(f, S \ {k}) /\ Units(f, S) = A \cup U /\ A \cap U = {}
               /\ IsFiniteSet(U) /\ Cardinality(U) = f[k]
    BY <1>0
<1>2. S \ {k} \in SUBSET Keys
    OBVIOUS
<1>3. IsFiniteSet(A) /\ Cardinality(A) \in Nat /\ f[k] \in Nat
    BY <1>1, <1>2, CountNat DEF Count
<1>4. Cardinality(A \cup U) = Cardinality(A) + Cardinality(U) - Cardinality(A \cap U)
    BY <1>1, <1>3, FS_Union
<1>5. Cardinality(A \cap U) = 0
    BY <1>1, FS_EmptySet
<1> QED BY <1>1, <1>3, <1>4, <1>5 DEF Count

\* Only what f says of the keys counted matters.
LEMMA CountSame ==
    ASSUME NEW S, NEW f, NEW h, \A k \in S : f[k] = h[k]
    PROVE  Count(f, S) = Count(h, S)
<1>1. Units(f, S) = Units(h, S)
    BY DEF Units
<1> QED BY <1>1 DEF Count

\* The sum of values up to 3.
LEMMA CountAtMost ==
    ASSUME NEW f \in [Keys -> 0..3], NEW S \in SUBSET Keys
    PROVE  Count(f, S) <= 3 * Cardinality(S)
<1>1. IsFiniteSet(S) /\ IsFiniteSet(0..2) /\ Cardinality(0..2) = 3
  <2>1. IsFiniteSet(S)
      BY S3FIFOAssumption, FS_Subset
  <2>2. PICK a, b : a = 0 /\ b = 2
      OBVIOUS
  <2>3. a \in Int /\ b \in Int
      BY <2>2
  <2>4. IsFiniteSet(a..b) /\ Cardinality(a..b) = IF a > b THEN 0 ELSE b - a + 1
      BY <2>3, FS_Interval
  <2> QED BY <2>1, <2>2, <2>4
<1>2. PICK I : I = 0..2
    OBVIOUS
<1>3. IsFiniteSet(S \X I) /\ Cardinality(S \X I) = Cardinality(S) * Cardinality(I)
    BY <1>1, <1>2, FS_Product
<1>4. Units(f, S) \subseteq S \X I
  <2> SUFFICES ASSUME NEW p \in Units(f, S) PROVE p \in S \X I
      OBVIOUS
  <2>1. p \in S \X Nat /\ p[2] < f[p[1]]
      BY DEF Units
  <2>2. p[1] \in Keys /\ p[2] \in 0..2
      BY <2>1
  <2> QED BY <1>2, <2>1, <2>2
<1>5. Count(f, S) <= Cardinality(S \X I)
    BY <1>3, <1>4, FS_Subset DEF Count
<1>6. Cardinality(S) \in Nat
    BY <1>1, FS_CardinalityType
<1> QED BY <1>1, <1>2, <1>3, <1>5, <1>6

\* The library's sum of sizes counts their units.
LEMMA SumIsCount ==
    ASSUME NEW a, NEW f \in [Keys -> Nat], NEW S \in SUBSET Keys, \A k \in S : a[k].size = f[k]
    PROVE  MapThenSumSet(LAMBDA k : a[k].size, S) = Count(f, S)
<1> DEFINE Eq(g) == g = [s \in SUBSET S |->
                            IF s = {} THEN 0
                            ELSE a[CHOOSE x \in s : TRUE].size + g[s \ {CHOOSE x \in s : TRUE}]]
           count == [s \in SUBSET S |-> Count(f, s)]
<1>1. MapThenSumSet(LAMBDA k : a[k].size, S) = (CHOOSE g : Eq(g))[S]
    BY DEF MapThenSumSet, MapThenFoldSet
<1>2. \A s \in SUBSET S : s # {} =>
        LET x == CHOOSE y \in s : TRUE IN
        x \in s /\ s \ {x} \in SUBSET S /\ Count(f, s) = a[x].size + Count(f, s \ {x})
  <2> SUFFICES ASSUME NEW s \in SUBSET S, s # {}
               PROVE  LET x == CHOOSE y \in s : TRUE IN
                      x \in s /\ s \ {x} \in SUBSET S /\ Count(f, s) = a[x].size + Count(f, s \ {x})
      OBVIOUS
  <2>1. PICK x : x = CHOOSE y \in s : TRUE
      OBVIOUS
  <2>2. x \in s /\ s \in SUBSET Keys /\ s \ {x} \in SUBSET Keys
      BY <2>1
  <2>3. Count(f, s) = Count(f, s \ {x}) + f[x]
      BY <2>2, CountOne
  <2>4. Count(f, s \ {x}) \in Nat /\ f[x] \in Nat /\ a[x].size = f[x]
      BY <2>2, CountNat
  <2>5. Count(f, s) = a[x].size + Count(f, s \ {x})
      BY <2>3, <2>4
  <2> QED BY <2>1, <2>2, <2>5
<1>3. Eq(count)
  <2>1. Count(f, {}) = 0
      BY CountNone
  <2> QED BY <1>2, <2>1
<1>4. PICK g : Eq(g) /\ MapThenSumSet(LAMBDA k : a[k].size, S) = g[S]
  <2> HIDE DEF Eq, count
  <2> QED BY <1>1, <1>3
<1> DEFINE T == {s \in SUBSET S : g[s] = Count(f, s)}
<1>5. {} \in T
    BY <1>4, CountNone
<1>6. ASSUME NEW s \in SUBSET S, s # {}, \A x \in s : s \ {x} \in T PROVE s \in T
  <2>1. PICK x : x = CHOOSE y \in s : TRUE
      OBVIOUS
  <2>2. x \in s /\ Count(f, s) = a[x].size + Count(f, s \ {x})
      BY <1>2, <1>6, <2>1
  <2>3. g[s] = a[x].size + g[s \ {x}]
      BY <1>4, <1>6, <2>1
  <2>4. g[s \ {x}] = Count(f, s \ {x})
      BY <1>6, <2>2
  <2> QED BY <2>2, <2>3, <2>4
<1>7. SUBSET S \subseteq T
  <2>1. IsFiniteSet(S)
      BY S3FIFOAssumption, FS_Subset
  <2> HIDE DEF T
  <2> QED BY <1>5, <1>6, <2>1, SubsetInduction
<1> QED BY <1>4, <1>7

\* No queued slot has the generation of an absent one.
LEMMA HeadGen ==
    ASSUME NEW q \in Seq(Slot), q # <<>>, NEW in, NEW g \in Nat, QueueOK(q, in, g)
    PROVE  Head(q).gen # 0
<1>1. 1 \in 1..Len(q) /\ Head(q) = q[1]
    OBVIOUS
<1>2. q[1].gen \in 1..g
    BY <1>1 DEF QueueOK, GenBounded
<1> QED BY <1>1, <1>2

\* What each key has in the map, for the sums.
SizeOf == [k \in Keys |-> IF m[k] = None THEN 0 ELSE m[k].size]
FreqOf == [k \in Keys |-> IF m[k] = None THEN 0 ELSE m[k].freq]

\* The byte counts agree with the map.
BytesInv == used = Count(SizeOf, Resident) /\ smallBytes = Count(SizeOf, Live(inS))

LEMMA MapTypes ==
    ASSUME TypeOK
    PROVE  SizeOf \in [Keys -> Nat] /\ FreqOf \in [Keys -> 0..3]
<1>1. \A k \in Keys : m[k] # None => m[k].size \in Nat /\ m[k].freq \in 0..3
    BY DEF TypeOK, Entry
<1> QED BY <1>1 DEF SizeOf, FreqOf

\* Changing a freq changes no size, and no other freq.
LEMMA SetFreqSums ==
    ASSUME TypeOK, NEW k \in Keys, k \in Resident, NEW v \in 0..3,
           m' = [m EXCEPT ![k].freq = v]
    PROVE  /\ SizeOf' = SizeOf
           /\ \A j \in Keys : FreqOf'[j] = IF j = k THEN v ELSE FreqOf[j]
<1>1. m[k] \in Entry
    BY DEF TypeOK, Resident
<1>2. [m[k] EXCEPT !.freq = v] = [size |-> m[k].size, freq |-> v]
    BY <1>1 DEF Entry
<1> DEFINE e == [m[k] EXCEPT !.freq = v]
<1>3. e \in Entry /\ e # None /\ e.size = m[k].size /\ e.freq = v
    BY <1>1, <1>2, EntryNotNone DEF Entry
<1>4. m' = [m EXCEPT ![k] = e]
    OBVIOUS
<1> HIDE DEF e
<1>5. \A j \in Keys : m'[j] = IF j = k THEN e ELSE m[j]
    BY <1>4 DEF TypeOK
<1>6. \A j \in Keys : (m'[j] = None <=> m[j] = None) /\ (m[j] # None => m'[j].size = m[j].size)
    BY <1>3, <1>5 DEF Resident
<1>7. SizeOf' = SizeOf
    BY <1>6 DEF SizeOf
<1>8. \A j \in Keys : FreqOf'[j] = IF j = k THEN v ELSE FreqOf[j]
    BY <1>3, <1>5 DEF FreqOf
<1> QED BY <1>7, <1>8

\* shard.drop takes an entry's bytes off the counts it was in.
LEMMA DropBytes ==
    ASSUME TypeOK, Partition, BytesInv, NEW k \in Keys, k \in Resident, drop(k)
    PROVE  BytesInv'
<1>1. /\ Resident' = Resident \ {k} /\ Live(inS)' = Live(inS) \ {k}
      /\ used' = used - m[k].size
      /\ smallBytes' = IF inS[k] # 0 THEN smallBytes - m[k].size ELSE smallBytes
    BY DropEffect DEF drop
<1>2. \A j \in Keys : j # k => SizeOf'[j] = SizeOf[j]
    BY DEF drop, TypeOK, SizeOf
<1>3. SizeOf[k] = m[k].size
    BY DEF SizeOf, Resident
<1>4. PICK f, h, R, L : f = SizeOf /\ h = SizeOf' /\ R = Resident /\ L = Live(inS)
    OBVIOUS
<1>5. f \in [Keys -> Nat] /\ R \in SUBSET Keys /\ L \in SUBSET Keys /\ k \in R
    BY <1>4, MapTypes DEF Resident, Live
<1>6. \A j \in Keys : j # k => h[j] = f[j]
    BY <1>2, <1>4
<1>7. /\ Count(h, R \ {k}) = Count(f, R \ {k}) /\ Count(h, L \ {k}) = Count(f, L \ {k})
  <2>1. (\A j \in R \ {k} : h[j] = f[j]) /\ (\A j \in L \ {k} : h[j] = f[j])
      BY <1>5, <1>6
  <2> QED BY <2>1, CountSame
<1>8. Count(f, R) = Count(f, R \ {k}) + f[k] /\ Count(f, R \ {k}) \in Nat
  <2>1. R \ {k} \in SUBSET Keys
      BY <1>5
  <2> QED BY <1>5, <2>1, CountOne, CountNat
<1>9. k \in L => Count(f, L) = Count(f, L \ {k}) + f[k] /\ Count(f, L \ {k}) \in Nat
  <2>1. L \ {k} \in SUBSET Keys
      BY <1>5
  <2> QED BY <1>5, <2>1, CountOne, CountNat
<1>10. k \notin L => L \ {k} = L
    OBVIOUS
<1>11. used = Count(f, R) /\ smallBytes = Count(f, L) /\ f[k] = m[k].size /\ f[k] \in Nat
    BY <1>3, <1>4, <1>5 DEF BytesInv
<1>12. used' = Count(h, R \ {k})
    BY <1>1, <1>7, <1>8, <1>11
<1>13. smallBytes' = Count(h, L \ {k})
  <2>1. k \in L <=> inS[k] # 0
      BY <1>4 DEF Live
  <2>2. CASE k \in L
      BY <1>1, <1>7, <1>9, <1>11, <2>1, <2>2
  <2>3. CASE k \notin L
      BY <1>1, <1>7, <1>10, <1>11, <2>1, <2>3
  <2> QED BY <2>2, <2>3
<1>14. Count(SizeOf, Resident)' = Count(h, R \ {k}) /\ Count(SizeOf, Live(inS))' = Count(h, L \ {k})
    BY <1>1, <1>4 DEF Count, Units
<1> QED BY <1>12, <1>13, <1>14 DEF BytesInv

\* Every byte that comes or goes is counted, in the operation that moves it.
LEMMA BytesStep ==
    TypeOK /\ Partition /\ PendingOK /\ SlotsOK /\ BytesInv /\ [Next]_vars => BytesInv'
<1> SUFFICES ASSUME TypeOK, Partition, PendingOK, SlotsOK, BytesInv, [Next]_vars PROVE BytesInv'
    OBVIOUS
<1>1. ASSUME SizeOf' = SizeOf, Resident' = Resident, Live(inS)' = Live(inS),
             used' = used, smallBytes' = smallBytes
      PROVE  BytesInv'
    BY <1>1 DEF BytesInv, Count, Units
<1>2. CASE UNCHANGED <<m, inS, used, smallBytes>>
    BY <1>1, <1>2 DEF SizeOf, Resident, Live
<1>3. ASSUME NEW k \in Keys, GetHit(k) PROVE BytesInv'
  <2>1. SizeOf' = SizeOf /\ Resident' = Resident
      BY <1>3, GetHitFreq, SetFreq, SetFreqSums
  <2>2. UNCHANGED <<inS, used, smallBytes>>
      BY <1>3 DEF GetHit, queues
  <2> QED BY <1>1, <2>1, <2>2 DEF Live
<1>4. ASSUME NEW k \in Keys, GetExpired(k) \/ Remove(k) PROVE BytesInv'
    BY <1>4, DropBytes DEF GetExpired, Remove
<1>5. ASSUME NEW k \in Keys, NEW size \in Sizes, InsertBegin(k, size) PROVE BytesInv'
    BY <1>2, <1>5, DropBytes DEF InsertBegin
<1>6. CASE Admit
  <2> DEFINE k == req.key
  <2>1. /\ k \in Keys /\ req.size \in Nat /\ k \notin Resident
        /\ Resident' = Resident \cup {k} /\ used' = used + req.size
      BY <1>6, ResidentAfterAdmit DEF PendingOK, Admit
  <2>2. SizeOf'[k] = req.size /\ \A j \in Keys : j # k => SizeOf'[j] = SizeOf[j]
    <3>1. \A j \in Keys : m'[j] = IF j = k THEN [size |-> req.size, freq |-> 0] ELSE m[j]
        BY <1>6, <2>1 DEF Admit, TypeOK
    <3>2. [size |-> req.size, freq |-> 0] # None
        BY <2>1, EntryNotNone DEF Entry
    <3> QED BY <2>1, <3>1, <3>2 DEF SizeOf
  <2>3. gen' \in Nat \ {0} /\ inS \in [Keys -> Nat]
      BY <1>6 DEF Admit, OnAdmit, TypeOK
  <2>4. \/ Live(inS)' = Live(inS) /\ smallBytes' = smallBytes
        \/ Live(inS)' = Live(inS) \cup {k} /\ smallBytes' = smallBytes + req.size
    <3>1. CASE k \in inG
        BY <1>6, <3>1 DEF Admit, OnAdmit, Live
    <3>2. CASE k \notin inG
      <4>1. inS' = [inS EXCEPT ![k] = gen'] /\ smallBytes' = smallBytes + req.size
          BY <1>6, <3>2 DEF Admit, OnAdmit
      <4>2. \A j \in Keys : inS'[j] = IF j = k THEN gen' ELSE inS[j]
          BY <2>1, <2>3, <4>1
      <4>3. Live(inS)' = Live(inS) \cup {k}
          BY <2>1, <2>3, <4>2 DEF Live
      <4> QED BY <4>1, <4>3
    <3> QED BY <3>1, <3>2
  <2>5. PICK f, h, R, L, x, z : /\ f = SizeOf /\ h = SizeOf' /\ R = Resident /\ L = Live(inS)
                                /\ x = k /\ z = req.size
      OBVIOUS
  <2>6. /\ f \in [Keys -> Nat] /\ R \in SUBSET Keys /\ L \in SUBSET Keys
        /\ x \in Keys /\ x \notin R /\ x \notin L /\ z \in Nat
      BY <2>1, <2>5, MapTypes DEF Resident, Live, Partition
  <2>7. h \in [Keys -> Nat] /\ h[x] = z /\ \A j \in Keys : j # x => h[j] = f[j]
    <3>1. SizeOf' \in [Keys -> Nat]
      <4>1. \A j \in Keys : SizeOf'[j] \in Nat
          BY <2>1, <2>2, MapTypes
      <4>2. SizeOf' = [j \in Keys |-> SizeOf'[j]]
          BY DEF SizeOf
      <4> QED BY <4>1, <4>2
    <3> QED BY <2>2, <2>5, <3>1
  <2>8. ASSUME NEW S \in SUBSET Keys, x \notin S
        PROVE  Count(h, S \cup {x}) = Count(f, S) + z /\ Count(h, S) = Count(f, S)
    <3>1. Count(h, S) = Count(f, S)
      <4>1. \A j \in S : h[j] = f[j]
          BY <2>7, <2>8
      <4> QED BY <4>1, CountSame
    <3>2. Count(h, S \cup {x}) = Count(h, (S \cup {x}) \ {x}) + h[x]
      <4>1. S \cup {x} \in SUBSET Keys /\ x \in S \cup {x}
          BY <2>6
      <4> QED BY <2>7, <4>1, CountOne
    <3>3. (S \cup {x}) \ {x} = S
        BY <2>8
    <3> QED BY <2>7, <3>1, <3>2, <3>3
  <2>9. used = Count(f, R) /\ smallBytes = Count(f, L)
      BY <2>5 DEF BytesInv
  <2>10. used' = Count(h, Resident')
      BY <2>1, <2>5, <2>6, <2>8, <2>9
  <2>11. smallBytes' = Count(h, Live(inS)')
    <3>1. CASE Live(inS)' = Live(inS) /\ smallBytes' = smallBytes
        BY <2>5, <2>6, <2>8, <2>9, <3>1
    <3>2. CASE Live(inS)' = Live(inS) \cup {k} /\ smallBytes' = smallBytes + req.size
        BY <2>5, <2>6, <2>8, <2>9, <3>2
    <3> QED BY <2>4, <3>1, <3>2
  <2>12. Count(SizeOf, Resident)' = Count(h, Resident')
         /\ Count(SizeOf, Live(inS))' = Count(h, Live(inS)')
      BY <2>5 DEF Count, Units
  <2> QED BY <2>10, <2>11, <2>12 DEF BytesInv
<1>7. CASE VictimPromote
  <2> DEFINE k == Head(small).key
  <2>1. Promote /\ used' = used
      BY <1>7 DEF VictimPromote
  <2>2. /\ k \in Keys /\ k \in Resident /\ Resident' = Resident
        /\ Live(inS)' = Live(inS) \ {k} /\ isLive(Head(small), inS)
      BY <2>1, PromoteEffect
  <2>3. m' = [m EXCEPT ![k].freq = 0] /\ smallBytes' = smallBytes - m[k].size
      BY <2>1 DEF Promote
  <2>4. k \in Live(inS)
    <3>1. small \in Seq(Slot) /\ small # <<>> /\ gen \in Nat /\ QueueOK(small, inS, gen)
        BY <2>1 DEF Promote, FromSmall, TypeOK, SlotsOK
    <3>2. inS[k] # 0
        BY <2>2, <3>1, HeadGen DEF isLive
    <3> QED BY <2>2, <3>2 DEF Live
  <2> HIDE DEF k
  <2>5. SizeOf' = SizeOf
    <3>1. 0 \in 0..3
        OBVIOUS
    <3> QED BY <2>2, <2>3, <3>1, SetFreqSums
  <2>6. SizeOf[k] = m[k].size
      BY <2>2 DEF SizeOf, Resident
  <2>7. PICK f, L : f = SizeOf /\ L = Live(inS)
      OBVIOUS
  <2>8. f \in [Keys -> Nat] /\ L \in SUBSET Keys /\ L \ {k} \in SUBSET Keys /\ k \in L
      BY <2>4, <2>7, MapTypes DEF Live
  <2>9. Count(f, L) = Count(f, L \ {k}) + f[k] /\ Count(f, L \ {k}) \in Nat /\ f[k] \in Nat
      BY <2>8, CountOne, CountNat
  <2>10. smallBytes' = Count(f, L \ {k})
      BY <2>3, <2>6, <2>7, <2>9 DEF BytesInv
  <2>11. Count(SizeOf, Resident)' = Count(SizeOf, Resident)
         /\ Count(SizeOf, Live(inS))' = Count(f, L \ {k})
      BY <2>2, <2>5, <2>7 DEF Count, Units
  <2> QED BY <2>1, <2>10, <2>11 DEF BytesInv
<1>8. CASE VictimReinsert
  <2>1. SizeOf' = SizeOf /\ Resident' = Resident
      BY <1>8, ReinsertFreq, SetFreq, SetFreqSums DEF VictimReinsert
  <2>2. UNCHANGED <<inS, used, smallBytes>>
      BY <1>8 DEF VictimReinsert
  <2> QED BY <1>1, <2>1, <2>2 DEF Live
<1>9. CASE VictimReturn
  <2>1. CASE EvictSmall
      BY <2>1, DropBytes, HeadTail DEF EvictSmall, FromSmall, TypeOK
  <2>2. CASE EvictMain
      BY <2>2, DropBytes, HeadTail DEF EvictMain, TypeOK
  <2> QED BY <1>2, <1>9, <2>1, <2>2 DEF VictimReturn, queues
<1> QED
    BY <1>2, <1>3, <1>4, <1>5, <1>6, <1>7, <1>8, <1>9
    DEF Next, vars, queues, GetMiss, InsertOversize, EvictOne, VictimSkip

-----------------------------------------------------------------------------
(* The search for a victim. A slot of small costs at most two iterations, its *)
(* promotion and its turn in main, a slot of main one, and one more for each  *)
(* of its object's remaining laps. Every iteration pays.                      *)

Work == 2 * Len(small) + Len(main) + Count(FreqOf, Live(inM))

SearchInv == pc = "victim" => ~Fits /\ steps > Work

\* A queue has a slot for each of its live keys.
LEMMA LiveAtMost ==
    ASSUME NEW q \in Seq(Slot), NEW in, NEW g, QueueOK(q, in, g)
    PROVE  IsFiniteSet(Live(in)) /\ Cardinality(Live(in)) \in Nat /\ Cardinality(Live(in)) <= Len(q)
<1> DEFINE pos == [k \in Live(in) |-> CHOOSE i \in 1..Len(q) : q[i] = [key |-> k, gen |-> in[k]]]
<1>1. \A k \in Live(in) : \E i \in 1..Len(q) : q[i] = [key |-> k, gen |-> in[k]]
    BY DEF QueueOK, Holds, Live
<1>2. \A k \in Live(in) : pos[k] \in 1..Len(q) /\ q[pos[k]] = [key |-> k, gen |-> in[k]]
    BY <1>1
<1>3. \A k \in Live(in) : q[pos[k]].key = k
    BY <1>2
<1>4. pos \in Injection(Live(in), 1..Len(q))
  <2>1. pos \in [Live(in) -> 1..Len(q)]
      BY <1>1
  <2> HIDE DEF pos
  <2>2. \A k, l \in Live(in) : pos[k] = pos[l] => k = l
      BY <1>3
  <2> QED BY <2>1, <2>2 DEF Injection, IsInjective
<1> HIDE DEF pos
<1>5. IsFiniteSet(1..Len(q)) /\ Cardinality(1..Len(q)) = Len(q)
  <2>1. PICK n : n = Len(q)
      OBVIOUS
  <2>2. n \in Nat
      BY <2>1
  <2>3. IsFiniteSet(1..n) /\ Cardinality(1..n) = IF 1 > n THEN 0 ELSE n - 1 + 1
      BY <2>2, FS_Interval
  <2> QED BY <2>1, <2>2, <2>3
<1>6. Cardinality(Live(in)) <= Len(q)
    BY <1>4, <1>5, FS_Injection
<1>7. IsFiniteSet(Live(in))
    BY S3FIFOAssumption, FS_Subset DEF Live
<1> QED BY <1>6, <1>7, FS_CardinalityType

LEMMA WorkNat ==
    ASSUME TypeOK
    PROVE  /\ Work \in Nat /\ Len(small) \in Nat /\ Len(main) \in Nat
           /\ Count(FreqOf, Live(inM)) \in Nat
<1>1. PICK f, L : f = FreqOf /\ L = Live(inM)
    OBVIOUS
<1>2. f \in [Keys -> Nat] /\ L \in SUBSET Keys
    BY <1>1, MapTypes DEF Live
<1>3. Count(f, L) \in Nat
    BY <1>2, CountNat
<1>4. Len(small) \in Nat /\ Len(main) \in Nat
    BY DEF TypeOK
<1> QED BY <1>1, <1>3, <1>4 DEF Work

\* 3 is the most laps an object has, and a live key has a slot.
LEMMA WorkAtMost ==
    ASSUME TypeOK, SlotsOK
    PROVE  Work <= 4 * (Len(small) + Len(main))
<1>1. PICK f, L : f = FreqOf /\ L = Live(inM)
    OBVIOUS
<1>2. f \in [Keys -> 0..3] /\ L \in SUBSET Keys
    BY <1>1, MapTypes DEF Live
<1>3. Count(f, L) <= 3 * Cardinality(L)
    BY <1>2, CountAtMost
<1>4. Cardinality(L) \in Nat /\ Cardinality(L) <= Len(main)
    BY <1>1, LiveAtMost DEF SlotsOK, TypeOK
<1> QED BY <1>1, <1>3, <1>4, WorkNat DEF Work

\* Every iteration of Victim that names nobody leaves less to do.
LEMMA SearchStep ==
    TypeOK /\ TypeOK' /\ Partition /\ SlotsOK /\ SearchInv /\ [Next]_vars => SearchInv'
<1> SUFFICES ASSUME TypeOK, TypeOK', Partition, SlotsOK, SearchInv, [Next]_vars PROVE SearchInv'
    OBVIOUS
<1>0. /\ Work' \in Nat /\ Work \in Nat /\ Len(small) \in Nat /\ Len(main) \in Nat
      /\ Count(FreqOf, Live(inM)) \in Nat /\ steps \in Nat
      /\ small \in Seq(Slot) /\ main \in Seq(Slot)
  <2>1. Work' \in Nat
    <3>1. PICK f, L : f = FreqOf' /\ L = Live(inM)'
        OBVIOUS
    <3>2. f \in [Keys -> Nat] /\ L \in SUBSET Keys
      <4>1. \A k \in Keys : m'[k] # None => m'[k].freq \in 0..3
          BY DEF TypeOK, Entry
      <4>2. FreqOf' \in [Keys -> Nat]
          BY <4>1 DEF FreqOf
      <4> QED BY <3>1, <4>2 DEF Live
    <3>3. Count(f, L) \in Nat
        BY <3>2, CountNat
    <3>4. Count(FreqOf, Live(inM))' = Count(f, L)
        BY <3>1 DEF Count, Units
    <3>5. Len(small') \in Nat /\ Len(main') \in Nat
        BY DEF TypeOK
    <3> QED BY <3>3, <3>4, <3>5 DEF Work
  <2> QED BY <2>1, WorkNat DEF TypeOK
<1>1. CASE pc' # "victim"
    BY <1>1 DEF SearchInv
<1>2. ASSUME pc = "victim", pc' = "victim", steps' = steps - 1, steps > 0,
             used' = used, req' = req, Work' < Work
      PROVE  SearchInv'
    BY <1>0, <1>2 DEF SearchInv, Fits
<1>3. CASE EvictOne
  <2>1. /\ ~Fits /\ steps' = 4 * (Len(small) + Len(main)) + 8
        /\ UNCHANGED <<m, used, small, main, inM, req>>
      BY <1>3 DEF EvictOne, queues
  <2>2. Work' = Work
      BY <2>1 DEF Work, Count, Units, FreqOf, Live
  <2> QED BY <1>0, <2>1, <2>2, WorkAtMost DEF SearchInv, Fits
<1>4. CASE VictimSkip
  <2>1. /\ pc = "victim" /\ pc' = "victim" /\ steps' = steps - 1 /\ steps > 0
        /\ UNCHANGED <<m, used, req, inM>>
      BY <1>4 DEF VictimSkip, Searching, NextStep
  <2>2. Count(FreqOf, Live(inM))' = Count(FreqOf, Live(inM))
      BY <2>1 DEF Count, Units, FreqOf, Live
  <2>3. \/ small # <<>> /\ small' = Tail(small) /\ main' = main
        \/ main # <<>> /\ main' = Tail(main) /\ small' = small
      BY <1>4 DEF VictimSkip, SkipStale, FromSmall
  <2>4. 2 * Len(small') + Len(main') < 2 * Len(small) + Len(main)
    <3>1. small # <<>> => Len(Tail(small)) = Len(small) - 1
        BY <1>0
    <3>2. main # <<>> => Len(Tail(main)) = Len(main) - 1
        BY <1>0
    <3> QED BY <1>0, <2>3, <3>1, <3>2
  <2>5. Work' < Work
    <3>1. Len(small') \in Nat /\ Len(main') \in Nat
        BY DEF TypeOK
    <3> QED BY <1>0, <2>2, <2>4, <3>1 DEF Work
  <2> QED BY <1>2, <2>1, <2>5
<1>5. CASE VictimPromote
  <2> DEFINE k == Head(small).key
  <2>1. /\ Promote /\ pc = "victim" /\ pc' = "victim" /\ steps' = steps - 1 /\ steps > 0
        /\ UNCHANGED <<used, req>>
      BY <1>5 DEF VictimPromote, Searching, NextStep
  <2>2. /\ small # <<>> /\ k \in Keys /\ k \in Resident /\ small' = Tail(small)
        /\ Live(inM)' = Live(inM) \cup {k} /\ main' = push(main, k, gen + 1)
        /\ Live(inS) \cap Live(inM) = {} /\ isLive(Head(small), inS)
      BY <2>1, PromoteEffect DEF Partition
  <2>3. m' = [m EXCEPT ![k].freq = 0]
      BY <2>1 DEF Promote
  <2>4. k \notin Live(inM)
    <3>1. QueueOK(small, inS, gen) /\ gen \in Nat
        BY DEF TypeOK, SlotsOK
    <3>2. Head(small).gen # 0
        BY <1>0, <2>2, <3>1, HeadGen
    <3>3. k \in Live(inS)
        BY <2>2, <3>2 DEF isLive, Live
    <3> QED BY <2>2, <3>3
  <2> HIDE DEF k
  <2>5. \A j \in Keys : FreqOf'[j] = IF j = k THEN 0 ELSE FreqOf[j]
    <3>1. 0 \in 0..3
        BY DEF TypeOK
    <3> QED BY <2>2, <2>3, <3>1, SetFreqSums
  <2>6. Count(FreqOf, Live(inM))' = Count(FreqOf, Live(inM))
    <3>1. PICK f, h, L : f = FreqOf /\ h = FreqOf' /\ L = Live(inM)
        OBVIOUS
    <3>2. L \in SUBSET Keys /\ k \notin L
        BY <2>4, <3>1 DEF Live
    <3>3. \A j \in L : h[j] = f[j]
        BY <2>5, <3>1, <3>2
    <3>4. Count(h, L) = Count(f, L)
        BY <3>3, CountSame
    <3>5. Units(h, L \cup {k}) = Units(h, L)
      <4>1. h[k] = 0
          BY <2>2, <2>5, <3>1
      <4> QED BY <4>1 DEF Units
    <3>6. Count(FreqOf, Live(inM))' = Count(h, L \cup {k})
        BY <2>2, <3>1 DEF Count, Units
    <3> QED BY <3>1, <3>4, <3>5, <3>6 DEF Count
  <2>7. Len(small') = Len(small) - 1 /\ Len(main') = Len(main) + 1
    <3>1. Len(Tail(small)) = Len(small) - 1
        BY <1>0, <2>2
    <3>2. Len(push(main, k, gen + 1)) = Len(main) + 1
        BY <1>0 DEF push
    <3> QED BY <2>2, <3>1, <3>2
  <2>8. Work' < Work
      BY <1>0, <2>6, <2>7 DEF Work
  <2> QED BY <1>2, <2>1, <2>8
<1>6. CASE VictimReinsert
  <2> DEFINE k == Head(main).key
  <2>1. /\ Reinsert /\ pc = "victim" /\ pc' = "victim" /\ steps' = steps - 1 /\ steps > 0
        /\ UNCHANGED <<used, req, small, inM>>
      BY <1>6 DEF VictimReinsert, Searching, NextStep
  <2>2. /\ main # <<>> /\ k \in Resident /\ isLive(Head(main), inM) /\ m[k].freq > 0
        /\ main' = Append(Tail(main), Head(main)) /\ m' = [m EXCEPT ![k].freq = m[k].freq - 1]
      BY <2>1 DEF Reinsert
  <2>3. k \in Keys /\ m[k].freq \in 1..3
    <3>1. k \in Keys
        BY <2>2 DEF Resident
    <3>2. m[k] \in Entry
        BY <2>2, <3>1 DEF TypeOK, Resident
    <3> QED BY <2>2, <3>1, <3>2 DEF Entry
  <2>4. k \in Live(inM)
    <3>1. QueueOK(main, inM, gen) /\ gen \in Nat
        BY DEF TypeOK, SlotsOK
    <3>2. Head(main).gen # 0
        BY <1>0, <2>2, <3>1, HeadGen
    <3> QED BY <2>2, <2>3, <3>2 DEF isLive, Live
  <2> HIDE DEF k
  <2>5. PICK v : v = m[k].freq - 1
      OBVIOUS
  <2>6. \A j \in Keys : FreqOf'[j] = IF j = k THEN v ELSE FreqOf[j]
    <3>1. v \in 0..3 /\ m' = [m EXCEPT ![k].freq = v]
        BY <2>2, <2>3, <2>5
    <3> QED BY <2>2, <2>3, <3>1, SetFreqSums
  <2>7. Count(FreqOf, Live(inM))' = Count(FreqOf, Live(inM)) - 1
    <3>1. PICK f, h, L : f = FreqOf /\ h = FreqOf' /\ L = Live(inM)
        OBVIOUS
    <3>2. /\ f \in [Keys -> Nat] /\ L \in SUBSET Keys /\ k \in L /\ L \ {k} \in SUBSET Keys
          /\ f[k] = v + 1 /\ v \in Nat
      <4>1. FreqOf \in [Keys -> 0..3]
          BY MapTypes
      <4>2. FreqOf[k] = m[k].freq
          BY <2>2, <2>3 DEF FreqOf, Resident
      <4>3. L \in SUBSET Keys /\ k \in L /\ L \ {k} \in SUBSET Keys
          BY <2>4, <3>1 DEF Live
      <4>4. f[k] = v + 1 /\ v \in Nat
          BY <2>3, <2>5, <3>1, <4>2
      <4> QED BY <3>1, <4>1, <4>3, <4>4
    <3>3. h[k] = v /\ \A j \in Keys : j # k => h[j] = f[j]
        BY <2>3, <2>6, <3>1
    <3>4. h \in [Keys -> Nat]
      <4>1. \A j \in Keys : h[j] \in Nat
          BY <3>2, <3>3
      <4>2. h = [j \in Keys |-> h[j]]
          BY <3>1 DEF FreqOf
      <4> QED BY <4>1, <4>2
    <3>5. Count(f, L) = Count(f, L \ {k}) + f[k] /\ Count(f, L \ {k}) \in Nat
        BY <3>2, CountOne, CountNat
    <3>6. Count(h, L) = Count(h, L \ {k}) + h[k]
        BY <3>2, <3>4, CountOne
    <3>7. Count(h, L \ {k}) = Count(f, L \ {k})
      <4>1. \A j \in L \ {k} : h[j] = f[j]
          BY <3>2, <3>3
      <4> QED BY <4>1, CountSame
    <3>8. Count(FreqOf, Live(inM))' = Count(h, L)
        BY <2>1, <3>1 DEF Count, Units, Live
    <3> QED BY <3>1, <3>2, <3>3, <3>5, <3>6, <3>7, <3>8
  <2>8. Len(main') = Len(main)
    <3>1. Tail(main) \in Seq(Slot) /\ Len(Tail(main)) = Len(main) - 1
        BY <1>0, <2>2
    <3> QED BY <1>0, <2>2, <3>1
  <2>9. Work' < Work
      BY <1>0, <2>1, <2>7, <2>8 DEF Work
  <2> QED BY <1>2, <2>1, <2>9
<1>7. CASE pc = "idle" /\ UNCHANGED vars
    BY <1>1, <1>7 DEF vars
<1>8. CASE UNCHANGED vars
  <2>1. Work' = Work /\ Fits' = Fits
      BY <1>8 DEF vars, queues, Work, Count, Units, FreqOf, Live, Fits
  <2> QED BY <1>8, <2>1 DEF SearchInv, vars
<1>9. CASE VictimReturn \/ Admit
    BY <1>1, <1>9 DEF VictimReturn, Admit
<1> QED
    BY <1>1, <1>3, <1>4, <1>5, <1>6, <1>7, <1>8, <1>9
    DEF Next, GetHit, GetMiss, GetExpired, Remove, InsertOversize, InsertBegin

\* Something is resident when an object that fits an empty shard does not fit, so
\* a queue has a live slot.
LEMMA SomethingQueued ==
    ASSUME TypeOK, Partition, SlotsOK, PendingOK, BytesInv, pc = "victim", ~Fits
    PROVE  small # <<>> \/ main # <<>>
<1>1. req.size <= Capacity /\ req.size \in Nat /\ Capacity \in Nat /\ used \in Int
    BY S3FIFOAssumption DEF PendingOK, TypeOK, Request
<1>2. used # 0
    BY <1>1 DEF Fits
<1>3. Resident # {}
  <2>1. SUFFICES ASSUME Resident = {} PROVE FALSE
      OBVIOUS
  <2>2. used = 0
      BY <2>1, CountNone DEF BytesInv
  <2> QED BY <1>2, <2>2
<1>4. PICK k \in Keys : inS[k] # 0 \/ inM[k] # 0
    BY <1>3 DEF Partition, Live
<1>5. Holds(small, k, inS[k]) \/ Holds(main, k, inM[k])
    BY <1>4 DEF SlotsOK, QueueOK
<1>6. Len(<<>>) = 0
    OBVIOUS
<1> QED BY <1>5, <1>6 DEF Holds

-----------------------------------------------------------------------------
(* Theorems.                                                               *)

\* The inductive invariant holds in every reachable state of the shard.
THEOREM Invariance == Spec => []Inv
<1>1. Init => Inv
  <2> SUFFICES ASSUME Init PROVE Inv
      OBVIOUS
  <2>1. TypeOK
      BY S3FIFOAssumption DEF Init, TypeOK
  <2>2. Resident = {} /\ Live(inS) = {} /\ Live(inM) = {}
      BY DEF Init, Resident, Live
  <2>3. Partition /\ PendingOK
      BY <2>2 DEF Partition, PendingOK, Init
  <2>4. SlotsOK
      BY DEF Init, SlotsOK, QueueOK, GenUnique, GenBounded
  <2>5. GhostConsistent
      BY <2>2, S3FIFOAssumption DEF Init, GhostConsistent
  <2> QED BY <2>1, <2>3, <2>4, <2>5 DEF Inv
<1>2. Inv /\ [Next]_vars => Inv'
    BY TypeStep, PartitionStep, PendingStep, SlotsStep, GhostStep DEF Inv
<1> QED BY <1>1, <1>2, PTL DEF Spec

\* The map and the policy name the same keys, each in exactly one queue.
THEOREM PartitionSafe == Spec => []Partition
<1>1. Inv => Partition
    BY DEF Inv
<1> QED BY <1>1, Invariance, PTL

\* Every resident key has exactly one slot with its live generation, however
\* often it was deleted, overwritten, promoted or compacted around.
THEOREM OneLiveSlotSafe == Spec => []OneLiveSlot
<1>1. Inv => OneLiveSlot
    BY DEF Inv, OneLiveSlot, SlotsOK, QueueOK, GenUnique, Holds, Live
<1> QED BY <1>1, Invariance, PTL

\* The ghost queue is bounded by its target and remembers no resident key.
THEOREM GhostSafe == Spec => []GhostConsistent
<1>1. Inv => GhostConsistent
    BY DEF Inv
<1> QED BY <1>1, Invariance, PTL

\* shard.insert never lets the shard hold more than its capacity.
THEOREM CapacitySafe == Spec => []CapacityRespected
<1>1. Init => CapacityRespected
    BY S3FIFOAssumption DEF Init, CapacityRespected
<1>2. TypeOK /\ CapacityRespected /\ [Next]_vars => CapacityRespected'
  <2> SUFFICES ASSUME TypeOK, CapacityRespected, [Next]_vars PROVE CapacityRespected'
      OBVIOUS
  <2>0. used \in Int /\ Capacity \in Nat
      BY S3FIFOAssumption DEF TypeOK
  <2>1. ASSUME NEW k \in Keys, k \in Resident, drop(k) PROVE CapacityRespected'
      BY <2>0, <2>1, DropEffect DEF CapacityRespected
  <2>2. CASE Admit
      BY <2>2, ResidentAfterAdmit DEF CapacityRespected
  <2>3. CASE used' = used
      BY <2>3 DEF CapacityRespected
  <2>4. CASE VictimReturn
    <3>1. CASE EvictSmall
        BY <2>1, <3>1, HeadTail DEF EvictSmall, FromSmall, TypeOK
    <3>2. CASE EvictMain
        BY <2>1, <3>2, HeadTail DEF EvictMain, TypeOK
    <3> QED BY <2>3, <2>4, <3>1, <3>2 DEF VictimReturn
  <2> QED
      BY <2>1, <2>2, <2>3, <2>4
      DEF Next, vars, GetHit, GetMiss, GetExpired, Remove, InsertOversize, InsertBegin,
          EvictOne, VictimSkip, VictimPromote, VictimReinsert
<1> QED BY <1>1, <1>2, TypeCorrect, PTL DEF Spec

\* used and smallBytes are exact after every operation and every iteration of
\* Victim: shard.insert, shard.drop and the policy's callbacks each move the bytes
\* of one object, and no path through them counts it twice or not at all.
THEOREM BytesSafe == Spec => []BytesExact
<1>1. Init => BytesInv
  <2> SUFFICES ASSUME Init PROVE BytesInv
      OBVIOUS
  <2>1. Resident = {} /\ Live(inS) = {} /\ used = 0 /\ smallBytes = 0
      BY DEF Init, Resident, Live
  <2> QED BY <2>1, CountNone DEF BytesInv
<1>2. Inv /\ BytesInv /\ [Next]_vars => BytesInv'
    BY BytesStep DEF Inv
<1>3. Inv /\ BytesInv => BytesExact
  <2> SUFFICES ASSUME Inv, BytesInv PROVE BytesExact
      OBVIOUS
  <2>1. PICK f, a : f = SizeOf /\ a = m
      OBVIOUS
  <2>2. f \in [Keys -> Nat]
      BY <2>1, MapTypes DEF Inv
  <2>3. \A k \in Resident : a[k].size = f[k]
      BY <2>1 DEF SizeOf, Resident
  <2>4. Resident \in SUBSET Keys /\ Live(inS) \subseteq Resident
      BY DEF Resident, Inv, Partition
  <2>5. ASSUME NEW S \in SUBSET Resident
        PROVE  MapThenSumSet(LAMBDA k : a[k].size, S) = Count(f, S)
    <3>1. S \in SUBSET Keys /\ \A k \in S : a[k].size = f[k]
        BY <2>3, <2>4
    <3> QED BY <2>2, <3>1, SumIsCount
  <2>6. /\ MapThenSumSet(LAMBDA k : a[k].size, Resident) = Count(f, Resident)
        /\ MapThenSumSet(LAMBDA k : a[k].size, Live(inS)) = Count(f, Live(inS))
      BY <2>4, <2>5
  <2>7. /\ MapThenSumSet(LAMBDA k : m[k].size, Resident) = Count(SizeOf, Resident)
        /\ MapThenSumSet(LAMBDA k : m[k].size, Live(inS)) = Count(SizeOf, Live(inS))
      BY <2>1, <2>6
  <2> QED BY <2>7 DEF BytesExact, BytesInv
<1> QED BY <1>1, <1>2, <1>3, Invariance, PTL DEF Spec

\* While Victim searches, the object does not fit, and the steps that are left outlast
\* the work that is.
LEMMA SearchSafe == Spec => [](BytesInv /\ SearchInv)
<1>1. Init => BytesInv /\ SearchInv
  <2> SUFFICES ASSUME Init PROVE BytesInv /\ SearchInv
      OBVIOUS
  <2>1. Resident = {} /\ Live(inS) = {} /\ used = 0 /\ smallBytes = 0 /\ pc = "idle"
      BY DEF Init, Resident, Live
  <2> QED BY <2>1, CountNone DEF BytesInv, SearchInv
<1>2. Inv /\ Inv' /\ BytesInv /\ SearchInv /\ [Next]_vars => BytesInv' /\ SearchInv'
    BY BytesStep, SearchStep DEF Inv
<1> QED BY <1>1, <1>2, Invariance, PTL DEF Spec

\* "A victim is guaranteed" (s3fifo.go:134): Victim's bound of four steps per slot and
\* eight more never ends a search, for any queues, any stale slots in them and any
\* laps left, and a shard too full for an object has something to evict.
THEOREM VictimSafe == Spec => []VictimGuaranteed
<1>1. Inv /\ BytesInv /\ SearchInv => VictimGuaranteed
  <2> SUFFICES ASSUME Inv, BytesInv, SearchInv, pc = "victim"
               PROVE  steps > 0 /\ (small # <<>> \/ main # <<>>)
      BY DEF VictimGuaranteed
  <2>1. TypeOK /\ Partition /\ SlotsOK /\ PendingOK /\ ~Fits /\ steps > Work
      BY DEF Inv, SearchInv
  <2>2. steps > 0
      BY <2>1, WorkNat DEF TypeOK
  <2> QED BY <2>1, <2>2, SomethingQueued
<1> QED BY <1>1, SearchSafe, Invariance, PTL

\* compact leaves at most twice the number of keys, plus its slack.
LEMMA CompactBound ==
    ASSUME NEW q \in Seq(Slot), NEW in \in [Keys -> Nat], NEW g \in Nat, QueueOK(q, in, g)
    PROVE  Len(compact(q, in)) <= 2 * Cardinality(Keys) + CompactSlack
<1> DEFINE L == LiveSlots(q, in)
           C == Cardinality(Keys)
           A == Cardinality(Live(in))
<1>0. IsFiniteSet(Keys) /\ C \in Nat /\ CompactSlack \in Nat
    BY S3FIFOAssumption, FS_CardinalityType
<1>1. A \in Nat /\ A <= C
  <2>1. Live(in) \in SUBSET Keys
      BY DEF Live
  <2>2. IsFiniteSet(Live(in)) /\ A <= C
      BY <1>0, <2>1, FS_Subset
  <2> QED BY <2>2, FS_CardinalityType
<1>2. L \in Seq(Slot) /\ Len(L) \in Nat
    BY LiveSlotsExact
<1>3. Len(L) <= C
  <2>1. PICK f \in [1..Len(L) -> {i \in 1..Len(q) : isLive(q[i], in)}] :
            /\ \A n \in 1..Len(L) : L[n] = q[f[n]]
            /\ \A n1, n2 \in 1..Len(L) : f[n1] = f[n2] => n1 = n2
      BY LiveSlotsExact, SMTT(40)
  <2> HIDE DEF L
  <2>2. \A n \in 1..Len(L) : L[n].key \in Keys /\ L[n].gen = in[L[n].key]
    <3> SUFFICES ASSUME NEW n \in 1..Len(L) PROVE L[n].key \in Keys /\ L[n].gen = in[L[n].key]
        OBVIOUS
    <3>1. f[n] \in 1..Len(q) /\ isLive(q[f[n]], in)
        OBVIOUS
    <3>2. q[f[n]] \in Slot
        BY <3>1
    <3> QED BY <2>1, <3>1, <3>2 DEF isLive, Slot
  <2>3. \A n1, n2 \in 1..Len(L) : L[n1].key = L[n2].key => n1 = n2
    <3> SUFFICES ASSUME NEW n1 \in 1..Len(L), NEW n2 \in 1..Len(L), L[n1].key = L[n2].key
                 PROVE  n1 = n2
        OBVIOUS
    <3>1. L[n1].gen = L[n2].gen
        BY <2>2
    <3>2. f[n1] \in 1..Len(q) /\ f[n2] \in 1..Len(q)
        OBVIOUS
    <3>4. q[f[n1]].gen = q[f[n2]].gen
        BY <2>1, <3>1
    <3>3. f[n1] = f[n2]
        BY <3>2, <3>4 DEF QueueOK, GenUnique
    <3> QED BY <2>1, <3>3
  <2> DEFINE h == [n \in 1..Len(L) |-> L[n].key]
  <2>4. h \in Injection(1..Len(L), Keys)
    <3>1. h \in [1..Len(L) -> Keys]
        BY <2>2
    <3>2. \A n1, n2 \in 1..Len(L) : h[n1] = h[n2] => n1 = n2
        BY <2>3
    <3> QED BY <3>1, <3>2 DEF Injection, IsInjective
  <2> HIDE DEF h
  <2>5. Cardinality(1..Len(L)) <= C
      BY <1>0, <2>4, FS_Injection
  <2>6. Cardinality(1..Len(L)) = Len(L)
    <3> DEFINE len == Len(L)
    <3>1. len \in Nat
        BY <1>2
    <3> HIDE DEF len
    <3>2. Cardinality(1..len) = IF 1 > len THEN 0 ELSE len - 1 + 1
        BY <3>1, FS_Interval
    <3>3. Cardinality(1..len) = len
        BY <3>1, <3>2
    <3> QED BY <3>3 DEF len
  <2> QED BY <2>5, <2>6
<1>4. compact(q, in) = IF Len(q) <= 2 * A + CompactSlack THEN q ELSE L
    BY DEF compact
<1> HIDE DEF L, C, A
<1> QED BY <1>0, <1>1, <1>2, <1>3, <1>4 DEF C

\* Put/Delete churn cannot grow the probationary queue, for any number of
\* operations and keys.
THEOREM SmallBoundedSafe == Spec => []SmallBounded
<1>1. Init => SmallBounded
  <2>1. Cardinality(Keys) \in Nat /\ CompactSlack \in Nat
      BY S3FIFOAssumption, FS_CardinalityType
  <2> QED BY <2>1 DEF Init, SmallBounded
<1>2. Inv /\ Inv' /\ SmallBounded /\ [Next]_vars => SmallBounded'
  <2> SUFFICES ASSUME Inv, Inv', SmallBounded, [Next]_vars PROVE SmallBounded'
      OBVIOUS
  <2>0. TypeOK /\ small \in Seq(Slot) /\ Cardinality(Keys) \in Nat /\ CompactSlack \in Nat
      BY S3FIFOAssumption, FS_CardinalityType DEF Inv, TypeOK
  <2>1. CASE small' = small
      BY <2>1 DEF SmallBounded
  <2>2. CASE small # <<>> /\ small' = Tail(small)
    <3>1. Len(small) \in Nat /\ Len(Tail(small)) = Len(small) - 1
        BY <2>0, <2>2
    <3> QED BY <2>0, <2>2, <3>1 DEF SmallBounded
  <2>3. CASE Admit
    <3> DEFINE k == req.key
               p == push(small, k, gen + 1)
    <3>1. k \in Keys /\ gen \in Nat /\ inS \in [Keys -> Nat] /\ inS' \in [Keys -> Nat]
        BY <2>0, <2>3, ResidentAfterAdmit DEF Inv, TypeOK
    <3>2. CASE k \in inG
        BY <2>1, <2>3, <3>2 DEF Admit, OnAdmit
    <3>3. CASE k \notin inG
      <4>1. inS' = [inS EXCEPT ![k] = gen + 1] /\ small' = compact(p, inS')
          BY <2>3, <3>3 DEF Admit, OnAdmit
      <4>2. \A j \in Keys : inS'[j] = IF j = k THEN gen + 1 ELSE inS[j]
          BY <3>1, <4>1
      <4> HIDE DEF k
      <4>3. p \in Seq(Slot) /\ QueueOK(p, inS', gen + 1) /\ gen + 1 \in Nat
          BY <2>0, <3>1, <4>2, EnqueueKeeps, PushType DEF Inv, SlotsOK
      <4> HIDE DEF p
      <4>4. Len(compact(p, inS')) <= 2 * Cardinality(Keys) + CompactSlack
          BY <3>1, <4>3, CompactBound
      <4> QED BY <4>1, <4>4 DEF SmallBounded
    <3> QED BY <3>2, <3>3
  <2>4. CASE VictimSkip
      BY <2>1, <2>2, <2>4 DEF VictimSkip, SkipStale, FromSmall
  <2>5. CASE VictimPromote
      BY <2>2, <2>5 DEF VictimPromote, Promote, FromSmall
  <2>6. CASE VictimReturn
      BY <2>1, <2>2, <2>6 DEF VictimReturn, EvictSmall, FromSmall, queues
  <2> QED
      BY <2>1, <2>3, <2>4, <2>5, <2>6
      DEF Next, vars, queues, GetHit, GetMiss, GetExpired, Remove, InsertOversize,
          InsertBegin, EvictOne, VictimReinsert
<1> QED BY <1>1, <1>2, Invariance, PTL DEF Spec

-----------------------------------------------------------------------------
(* S3-FIFO keeps the promises of BoundedStore.                               *)

\* The abstract store's bytes are those the shard counts.
LEMMA StoreBytes == BytesExact => Shard!Bytes = used
<1> SUFFICES ASSUME BytesExact PROVE Shard!Bytes = used
    OBVIOUS
<1> DEFINE st == [k \in Resident |-> m[k].size]
           some(s) == CHOOSE x \in s : TRUE
           A(g) == [s \in SUBSET Resident |->
                       IF s = {} THEN 0 ELSE m[some(s)].size + g[s \ {some(s)}]]
           B(g) == [s \in SUBSET Resident |->
                       IF s = {} THEN 0 ELSE st[some(s)] + g[s \ {some(s)}]]
<1>1. used = (CHOOSE g : g = A(g))[Resident]
    BY DEF BytesExact, MapThenSumSet, MapThenFoldSet
<1>2. Shard!Bytes = (CHOOSE g : g = B(g))[Resident]
  <2> DEFINE C(g) == [s \in SUBSET (DOMAIN st) |->
                         IF s = {} THEN 0 ELSE st[some(s)] + g[s \ {some(s)}]]
  <2>1. Shard!Bytes = (CHOOSE g : g = C(g))[DOMAIN st]
      BY DEF Shard!Bytes, Shard!MapThenSumSet, Shard!MapThenFoldSet
  <2>2. DOMAIN st = Resident
      OBVIOUS
  <2> HIDE DEF st, some
  <2> QED BY <2>1, <2>2, Zenon
<1>3. ASSUME NEW g PROVE A(g) = B(g)
  <2>1. ASSUME NEW s \in SUBSET Resident, s # {} PROVE m[some(s)].size = st[some(s)]
    <3>1. some(s) \in Resident
        BY <2>1
    <3> QED BY <3>1
  <2> HIDE DEF st, some
  <2> QED BY <2>1
<1> HIDE DEF A, B
<1>4. (CHOOSE g : g = A(g)) = (CHOOSE g : g = B(g))
    BY <1>3
<1> QED BY <1>1, <1>2, <1>4, Zenon

Stored == [k \in Resident |-> m[k].size]

LEMMA DropIs ==
    ASSUME TypeOK, NEW k \in Keys,
           \/ m' = [m EXCEPT ![k] = None]
           \/ k \notin Resident /\ m' = m
    PROVE  Stored' = Shard!Without(k)
<1>1. \A j \in Keys : m'[j] = IF j = k THEN None ELSE m[j]
    BY DEF TypeOK, Resident
<1>2. Resident' = Resident \ {k}
    BY <1>1 DEF Resident
<1>3. Stored' = [j \in Resident \ {k} |-> m[j].size]
    BY <1>1, <1>2 DEF Stored, Resident
<1>4. Shard!Without(k) = [j \in Resident \ {k} |-> m[j].size]
    BY DEF Shard!Without, Shard!Restrict
<1> QED BY <1>3, <1>4

\* A hit, a promotion and a lap of main change a freq and so nothing that shows.
LEMMA FreqHidden ==
    ASSUME TypeOK, NEW k \in Keys, k \in Resident, NEW v \in 0..3,
           m' = [m EXCEPT ![k].freq = v]
    PROVE  Stored' = Stored
<1>1. Resident' = Resident /\ SizeOf' = SizeOf
    BY SetFreq, SetFreqSums
<1>2. Stored = [j \in Resident |-> SizeOf[j]] /\ Stored' = [j \in Resident' |-> SizeOf'[j]]
    BY DEF Stored, SizeOf, Resident
<1> QED BY <1>1, <1>2

\* Each action is one of the abstract store's or changes nothing it shows.
LEMMA StoreStep ==
    ASSUME Inv, BytesExact, SearchInv, VictimGuaranteed, [Next]_vars
    PROVE  [Shard!Next]_(Shard!vars)
<1>0. TypeOK /\ (pc = "idle" <=> req = None) /\ small \in Seq(Slot) /\ main \in Seq(Slot)
    BY DEF Inv, TypeOK
<1>a. pc # "idle" => (Shard!Fits <=> Fits)
    BY StoreBytes DEF Shard!Fits, Fits
<1>1. CASE Stored' = Stored /\ req' = req
    BY <1>1 DEF Shard!vars, Stored
<1>2. ASSUME NEW k \in Keys, GetHit(k) PROVE Stored' = Stored /\ req' = req
    BY <1>0, <1>2, GetHitFreq, FreqHidden DEF GetHit
<1>3. ASSUME NEW k \in Keys, pc = "idle", k \in Resident, drop(k), req' = req PROVE Shard!Next
  <2>1. Stored' = Shard!Without(k) /\ k \in DOMAIN Stored
      BY <1>0, <1>3, DropIs DEF drop, Stored
  <2>2. Shard!Drop(k)
      BY <1>0, <1>3, <2>1 DEF Shard!Drop, Stored
  <2> QED BY <1>3, <2>2 DEF Shard!Next
<1>4. ASSUME NEW k \in Keys, NEW size \in Sizes, InsertBegin(k, size) PROVE Shard!Next
  <2>1. Stored' = Shard!Without(k)
      BY <1>0, <1>4, DropIs DEF InsertBegin, drop
  <2>2. Shard!Begin(k, size)
      BY <1>0, <1>4, <2>1 DEF InsertBegin, Shard!Begin, Stored
  <2> QED BY <2>2 DEF Shard!Next
<1>5. CASE Admit
  <2>1. req.key \in Keys /\ Resident' = Resident \cup {req.key}
      BY <1>0, <1>5, ResidentAfterAdmit
  <2>2. \A j \in Keys : m'[j] = IF j = req.key THEN [size |-> req.size, freq |-> 0] ELSE m[j]
      BY <1>0, <1>5, <2>1 DEF Admit, TypeOK
  <2>3. Stored' = [j \in DOMAIN Stored \cup {req.key} |->
                      IF j = req.key THEN req.size ELSE Stored[j]]
      BY <2>1, <2>2 DEF Stored, Resident
  <2>4. req # None /\ req' = None /\ Shard!Fits
      BY <1>0, <1>a, <1>5 DEF Admit
  <2>5. Shard!Admit
      BY <2>3, <2>4 DEF Shard!Admit, Stored
  <2> QED BY <2>5 DEF Shard!Next
<1>6. ASSUME NEW k \in Keys, pc = "victim", k \in Resident, drop(k), req' = req PROVE Shard!Next
  <2>1. Stored' = Shard!Without(k) /\ k \in DOMAIN Stored
      BY <1>0, <1>6, DropIs DEF drop, Stored
  <2>2. req # None /\ ~Shard!Fits
      BY <1>0, <1>a, <1>6 DEF SearchInv
  <2>3. Shard!Evict(k)
      BY <1>6, <2>1, <2>2 DEF Shard!Evict, Stored
  <2> QED BY <2>3 DEF Shard!Next
<1>7. CASE VictimReturn
  <2>1. pc = "victim" /\ steps > 0 /\ (small # <<>> \/ main # <<>>)
      BY <1>7 DEF VictimReturn, VictimGuaranteed
  <2>2. (EvictSmall \/ EvictMain) /\ req' = req
      BY <1>7, <2>1 DEF VictimReturn
  <2>3. CASE EvictSmall
    <3> DEFINE k == Head(small).key
    <3>1. k \in Keys /\ k \in Resident /\ drop(k)
        BY <1>0, <2>3, HeadTail DEF EvictSmall, FromSmall
    <3> QED BY <1>6, <2>1, <2>2, <3>1
  <2>4. CASE EvictMain
    <3> DEFINE k == Head(main).key
    <3>1. k \in Keys /\ k \in Resident /\ drop(k)
        BY <1>0, <2>4, HeadTail DEF EvictMain
    <3> QED BY <1>6, <2>1, <2>2, <3>1
  <2> QED BY <2>2, <2>3, <2>4
<1>8. CASE VictimPromote
  <2>1. Promote /\ req' = req
      BY <1>8 DEF VictimPromote
  <2> DEFINE k == Head(small).key
  <2>2. k \in Keys /\ k \in Resident
      BY <1>0, <2>1, PromoteEffect
  <2>3. m' = [m EXCEPT ![k].freq = 0] /\ 0 \in 0..3
      BY <2>1 DEF Promote
  <2> HIDE DEF k
  <2> QED BY <1>0, <1>1, <2>1, <2>2, <2>3, FreqHidden
<1>9. CASE VictimReinsert
  <2>1. Reinsert /\ req' = req
      BY <1>9 DEF VictimReinsert
  <2> QED BY <1>0, <1>1, <2>1, ReinsertFreq, FreqHidden
<1>10. CASE UNCHANGED <<m, req>>
    BY <1>1, <1>10 DEF Stored, Resident
<1> QED
    BY <1>1, <1>2, <1>3, <1>4, <1>5, <1>7, <1>8, <1>9, <1>10
    DEF Next, vars, GetMiss, GetExpired, Remove, InsertOversize, EvictOne, VictimSkip

\* A shard running S3-FIFO evicts only while an insert does not fit, one resident object
\* at a time, and stores every object whose insert it has begun.
THEOREM StoreSafe == Spec => ImplementsStore
<1>1. Init => Shard!Init
  <2> SUFFICES ASSUME Init PROVE Shard!Init
      OBVIOUS
  <2>1. Resident = {} /\ req = None
      BY DEF Init, Resident
  <2>2. Stored = [k \in {} |-> 0]
      BY <2>1 DEF Stored
  <2> QED BY <2>1, <2>2 DEF Shard!Init, Stored
<1> QED
    BY <1>1, StoreStep, Invariance, BytesSafe, SearchSafe, VictimSafe, PTL
    DEF Spec, ImplementsStore, Shard!Spec
=============================================================================
