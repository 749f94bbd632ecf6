------------------------- MODULE LearnedShardProofs -------------------------
(***************************************************************************)
(* Proofs about LearnedShard, for every set of keys, any length of history *)
(* and of trace, any skew of the clock readings and any number of drops.   *)
(***************************************************************************)
EXTENDS LearnedShard, FiniteSetTheorems, WellFoundedInduction, TLAPS

-----------------------------------------------------------------------------
(* The inductive invariant.                                                 *)

Record == [time : Nat, size : Nat, hit : BOOLEAN]

TypeOK ==
    /\ setup \in Setup
    /\ m \in [Keys -> Entry \cup {None}]
    /\ pending \in Request \cup {None}
    /\ trace \in [Keys -> Seq(Record)]
    /\ lost \subseteq Keys /\ clock \in Nat /\ used \in Int

\* The gap that touch folds in at the n-th record, if the n-1st came before it.
Gap(recs, n) == Min({Clip(recs[n].time - recs[n - 1].time) \div PerMS, MaxDelta})

\* The entry e has the history that the records from s on tell: s is the key's last
\* admission, and each record after it is one touch.
Tells(recs, s, e) ==
    LET n == Len(recs) IN
        /\ ~recs[s].hit /\ \A i \in (s + 1)..n : recs[i].hit
        /\ e.size = recs[n].size
        /\ e.admitted = recs[s].time /\ e.lastAccess = recs[n].time
        /\ e.accesses = n - s + 1 /\ e.freq = (IF n - s + 1 < 3 THEN n - s + 1 ELSE 3)
        /\ \A j \in 1..HistoryLen :
              e.deltas[j] = IF j <= n - s THEN Gap(recs, n - (j - 1)) ELSE 0

\* Of a resident key whose records since its last admission are complete, the trace
\* tells what its entry remembers, in whatever order its times are.
HistoryKept ==
    \A k \in Resident \ lost : \E s \in 1..Len(trace[k]) : Tells(trace[k], s, m[k])

\* The key being inserted is not resident, and its object fits an empty shard.
PendingOK == pending # None => pending.key \notin Resident /\ pending.size <= Capacity

\* What each key has in the map, and the sum of a function's values over some keys:
\* the number of their units.
SizeOf == [k \in Keys |-> IF m[k] = None THEN 0 ELSE m[k].size]
Units(f, S) == {p \in S \X Nat : p[2] < f[p[1]]}
Count(f, S) == Cardinality(Units(f, S))

\* shard.used is the bytes of the resident objects, which are within the capacity.
BytesOK == used = Count(SizeOf, Keys) /\ used <= Capacity

Inv == TypeOK /\ HistoryKept /\ PendingOK /\ BytesOK

-----------------------------------------------------------------------------
(* Numbers.                                                                 *)

LEMMA MinIs ==
    ASSUME NEW a \in Int, NEW b \in Int
    PROVE  Min({a, b}) = IF a <= b THEN a ELSE b
<1> DEFINE c == IF a <= b THEN a ELSE b
<1>1. c \in {a, b} /\ \A y \in {a, b} : c <= y
    OBVIOUS
<1>2. \A x \in {a, b} : (\A y \in {a, b} : x <= y) => x = c
    OBVIOUS
<1> HIDE DEF c
<1>3. Min({a, b}) = c
    BY <1>1, <1>2 DEF Min
<1> QED BY <1>3 DEF c

LEMMA MaxIs ==
    ASSUME NEW S \in SUBSET Int, NEW c \in S, \A y \in S : y <= c
    PROVE  Max(S) = c
<1>1. c \in S /\ \A y \in S : c >= y
    OBVIOUS
<1>2. \A x \in S : (\A y \in S : x >= y) => x = c
    OBVIOUS
<1> QED BY <1>1, <1>2 DEF Max

LEMMA MaxPair ==
    ASSUME NEW a \in Int, NEW b \in Int, b <= a
    PROVE  Max({a, b}) = a
<1>1. a \in {a, b} /\ {a, b} \in SUBSET Int /\ \A y \in {a, b} : y <= a
    OBVIOUS
<1> QED BY <1>1, MaxIs

LEMMA Millis ==
    ASSUME NEW t \in Nat
    PROVE  t \div PerMS \in Nat
<1>1. PerMS \in Nat \ {0}
    BY LearnedShardAssumption
<1> QED BY <1>1

LEMMA ClipNat == \A x \in Int : Clip(x) \in Nat
BY DEF Clip

LEMMA GapNat ==
    ASSUME NEW now \in Nat, NEW last \in Nat
    PROVE  Min({Clip(now - last) \div PerMS, MaxDelta}) \in Nat
<1>1. Clip(now - last) \div PerMS \in Nat
  <2>1. Clip(now - last) \in Nat
      BY ClipNat
  <2> QED BY <2>1, Millis
<1>2. MaxDelta \in Nat
    BY LearnedShardAssumption
<1> QED BY <1>1, <1>2, MinIs

LEMMA NotNone == None \notin Entry /\ None \notin Request
BY LearnedShardAssumption

-----------------------------------------------------------------------------
(* What touch, NewEntry and record do.                                      *)

LEMMA Touched ==
    ASSUME NEW e \in Entry, NEW now \in Nat
    PROVE  /\ touch(e, now) \in Entry
           /\ touch(e, now).size = e.size /\ touch(e, now).admitted = e.admitted
           /\ touch(e, now).lastAccess = now /\ touch(e, now).accesses = e.accesses + 1
           /\ touch(e, now).freq = (IF e.freq < 3 THEN e.freq + 1 ELSE 3)
           /\ \A j \in 1..HistoryLen :
                 touch(e, now).deltas[j] =
                    IF j = 1 THEN Min({Clip(now - e.lastAccess) \div PerMS, MaxDelta})
                             ELSE e.deltas[j - 1]
<1> DEFINE gap == Min({Clip(now - e.lastAccess) \div PerMS, MaxDelta})
           old == e.deltas
           new == [j \in 1..HistoryLen |-> IF j = 1 THEN gap ELSE old[j - 1]]
           freq == Min({e.freq + 1, 3})
<1>1. /\ e.size \in Nat /\ e.lastAccess \in Nat /\ e.admitted \in Nat /\ e.expires \in Nat
      /\ old \in [1..HistoryLen -> Nat] /\ e.accesses \in Nat /\ e.freq \in 0..3
    BY DEF Entry
<1>2. gap \in Nat
    BY <1>1, GapNat
<1>3. freq = (IF e.freq < 3 THEN e.freq + 1 ELSE 3)
  <2>1. e.freq + 1 \in Int /\ 3 \in Int
      BY <1>1
  <2>2. freq = IF e.freq + 1 <= 3 THEN e.freq + 1 ELSE 3
      BY <2>1, MinIs
  <2> QED BY <1>1, <2>2
<1>4. new \in [1..HistoryLen -> Nat]
  <2> HIDE DEF gap, old
  <2>1. HistoryLen \in Nat
      BY LearnedShardAssumption
  <2>2. \A j \in 1..HistoryLen : j # 1 => j - 1 \in 1..HistoryLen
      BY <2>1
  <2> QED BY <1>1, <1>2, <2>2
<1>5. touch(e, now) = [e EXCEPT !.deltas = new, !.lastAccess = now,
                                !.accesses = e.accesses + 1, !.freq = freq]
    BY DEF touch
<1> HIDE DEF gap, old, new, freq
<1>6. freq \in 0..3
    BY <1>1, <1>3
<1>7. touch(e, now) = [size |-> e.size, lastAccess |-> now, admitted |-> e.admitted,
                       expires |-> e.expires, deltas |-> new,
                       accesses |-> e.accesses + 1, freq |-> freq]
    BY <1>5 DEF Entry
<1>8. touch(e, now) \in Entry
    BY <1>1, <1>4, <1>6, <1>7 DEF Entry
<1>9. \A j \in 1..HistoryLen : new[j] = IF j = 1 THEN gap ELSE old[j - 1]
    BY DEF new
<1>10. /\ touch(e, now).size = e.size /\ touch(e, now).admitted = e.admitted
       /\ touch(e, now).lastAccess = now /\ touch(e, now).accesses = e.accesses + 1
       /\ touch(e, now).freq = freq /\ touch(e, now).deltas = new
    BY <1>7
<1>11. \A j \in 1..HistoryLen : touch(e, now).deltas[j] = IF j = 1 THEN gap ELSE old[j - 1]
    BY <1>9, <1>10
<1>12. touch(e, now).freq = (IF e.freq < 3 THEN e.freq + 1 ELSE 3)
    BY <1>3, <1>10
<1> QED BY <1>8, <1>10, <1>11, <1>12 DEF gap, old

LEMMA Fresh ==
    ASSUME NEW size \in Nat, NEW now \in Nat, NEW expires \in Nat
    PROVE  NewEntry(size, now, expires) \in Entry
<1>1. [j \in 1..HistoryLen |-> 0] \in [1..HistoryLen -> Nat]
    OBVIOUS
<1> QED BY <1>1 DEF NewEntry, Entry

\* A record is appended to the key's own part of the trace, or it is dropped and the
\* key marked.
LEMMA Recorded ==
    ASSUME TypeOK, NEW k \in Keys, NEW now \in Nat, NEW size \in Nat, NEW hit \in BOOLEAN,
           record(k, now, size, hit)
    PROVE  LET r == [time |-> now, size |-> size, hit |-> hit] IN
           /\ r \in Record
           /\ \/ /\ trace' = [trace EXCEPT ![k] = Append(trace[k], r)]
                 /\ lost' = IF hit THEN lost ELSE lost \ {k}
              \/ trace' = trace /\ lost' = lost \cup {k}
           /\ trace' \in [Keys -> Seq(Record)] /\ lost' \subseteq Keys
<1> DEFINE r == [time |-> now, size |-> size, hit |-> hit]
<1>1. r \in Record
    BY DEF Record
<1>2. trace \in [Keys -> Seq(Record)] /\ lost \subseteq Keys
    BY DEF TypeOK
<1>3. \/ trace' = [trace EXCEPT ![k] = Append(trace[k], r)]
         /\ lost' = IF hit THEN lost ELSE lost \ {k}
      \/ trace' = trace /\ lost' = lost \cup {k}
    BY <1>2 DEF record
<1> HIDE DEF r
<1>4. Append(trace[k], r) \in Seq(Record)
    BY <1>1, <1>2
<1>5. trace' \in [Keys -> Seq(Record)] /\ lost' \subseteq Keys
    BY <1>2, <1>3, <1>4
<1> QED BY <1>1, <1>3, <1>5 DEF r

LEMMA DeadlineNat ==
    ASSUME NEW now \in Nat, NEW ttl \in Nat
    PROVE  deadline(now, ttl) \in Nat
BY LearnedShardAssumption DEF deadline

\* The time an operation has read is a natural number.
LEMMA NowNat ==
    ASSUME TypeOK, NEW now \in Nows
    PROVE  now \in Nat
BY LearnedShardAssumption DEF TypeOK, Nows

LEMMA VictimResident == Victims \subseteq Resident
<1>1. \A S \in Samples : S \subseteq Resident
    BY DEF Samples, kSubset
<1>2. \A S : Worst(S) \subseteq S
    BY DEF Worst, LongestIdle, LeastUsed
<1> QED BY <1>1, <1>2 DEF Victims

LEMMA ResidentEntry ==
    ASSUME TypeOK, NEW k \in Resident
    PROVE  k \in Keys /\ m[k] \in Entry
BY DEF TypeOK, Resident

-----------------------------------------------------------------------------
(* Every step keeps the types.                                              *)

LEMMA TypeStep == TypeOK /\ [Next]_vars => TypeOK'
<1> SUFFICES ASSUME TypeOK, [Next]_vars PROVE TypeOK'
    OBVIOUS
<1>0. /\ m \in [Keys -> Entry \cup {None}] /\ pending \in Request \cup {None}
      /\ trace \in [Keys -> Seq(Record)] /\ lost \subseteq Keys /\ clock \in Nat
      /\ used \in Int /\ setup \in Setup
    BY DEF TypeOK
<1>1. ASSUME NEW k \in Keys, NEW now \in Nows, GetHit(k, now) PROVE TypeOK'
  <2>1. k \in Resident /\ now \in Nat
      BY <1>1, NowNat DEF GetHit
  <2>2. m[k] \in Entry
      BY <2>1, ResidentEntry
  <2>3. touch(m[k], now) \in Entry /\ m[k].size \in Nat
      BY <2>1, <2>2, Touched DEF Entry
  <2>4. m' = [m EXCEPT ![k] = touch(m[k], now)]
      BY <1>0, <1>1 DEF GetHit
  <2>5. m' \in [Keys -> Entry \cup {None}]
      BY <1>0, <2>3, <2>4
  <2>6. record(k, now, m[k].size, TRUE) /\ UNCHANGED <<setup, used, pending, clock>>
      BY <1>1 DEF GetHit
  <2>7. trace' \in [Keys -> Seq(Record)] /\ lost' \subseteq Keys
      BY <2>1, <2>3, <2>6, Recorded
  <2> QED BY <1>0, <2>5, <2>6, <2>7 DEF TypeOK
<1>2. ASSUME NEW k \in Resident, drop(k), UNCHANGED <<setup, pending, trace, lost, clock>>
      PROVE  TypeOK'
  <2>1. k \in Keys /\ m[k].size \in Int
      BY <1>2, ResidentEntry DEF Entry
  <2>2. used' = used - m[k].size /\ m' = [m EXCEPT ![k] = None]
      BY <1>2 DEF drop
  <2>3. used' \in Int
      BY <1>0, <2>1, <2>2
  <2> QED BY <1>0, <1>2, <2>1, <2>2, <2>3 DEF TypeOK
<1>3. ASSUME NEW k \in Keys, NEW size \in Sizes, NEW now \in Nows, NEW ttl \in TTLs,
             InsertBegin(k, size, now, ttl)
      PROVE  TypeOK'
  <2>1. size \in Nat /\ ttl \in Nat /\ now \in Nat
      BY LearnedShardAssumption, NowNat
  <2>2. deadline(now, ttl) \in Nat
      BY <2>1, DeadlineNat
  <2>3. pending' \in Request
      BY <1>3, <2>1, <2>2 DEF InsertBegin, Request
  <2>4. pending' \in Request \cup {None} /\ UNCHANGED <<setup, trace, lost, clock>>
      BY <1>3, <2>3 DEF InsertBegin
  <2>5. m' \in [Keys -> Entry \cup {None}] /\ used' \in Int
    <3>1. CASE k \in Resident /\ drop(k)
      <4>1. m[k].size \in Int
          BY <3>1, ResidentEntry DEF Entry
      <4>2. used' = used - m[k].size /\ m' = [m EXCEPT ![k] = None]
          BY <3>1 DEF drop
      <4> QED BY <1>0, <4>1, <4>2
    <3>2. CASE UNCHANGED <<m, used>>
        BY <1>0, <3>2
    <3> QED BY <1>3, <3>1, <3>2 DEF InsertBegin
  <2> QED BY <1>0, <2>4, <2>5 DEF TypeOK
<1>4. CASE EvictOne
  <2>1. PICK v \in Victims : drop(v)
      BY <1>4 DEF EvictOne
  <2>2. v \in Resident
      BY <2>1, VictimResident
  <2> QED BY <1>2, <1>4, <2>1, <2>2 DEF EvictOne
<1>5. CASE Admit
  <2>1. pending \in Request
      BY <1>0, <1>5 DEF Admit
  <2>2. /\ pending.key \in Keys /\ pending.size \in Nat /\ pending.now \in Nat
        /\ pending.expires \in Nat
      BY <2>1 DEF Request
  <2>3. NewEntry(pending.size, pending.now, pending.expires) \in Entry
      BY <2>2, Fresh
  <2>4. m' \in [Keys -> Entry \cup {None}] /\ pending' = None /\ clock' = clock
      BY <1>0, <1>5, <2>3 DEF Admit
  <2>7. used' = used + pending.size /\ setup' = setup
      BY <1>5 DEF Admit
  <2>8. used' \in Int
      BY <1>0, <2>2, <2>7
  <2>5. record(pending.key, pending.now, pending.size, FALSE)
      BY <1>5 DEF Admit
  <2>6. trace' \in [Keys -> Seq(Record)] /\ lost' \subseteq Keys
      BY <2>2, <2>5, Recorded
  <2> QED BY <1>0, <2>4, <2>6, <2>7, <2>8 DEF TypeOK
<1>6. CASE Tick
    BY <1>0, <1>6 DEF Tick, TypeOK
<1>7. CASE UNCHANGED <<setup, m, used, pending, trace, lost, clock>>
    BY <1>0, <1>7 DEF TypeOK
<1>8. CASE GiveUp
    BY <1>0, <1>8 DEF GiveUp, TypeOK
<1> QED
    BY <1>1, <1>2, <1>3, <1>4, <1>5, <1>6, <1>7, <1>8
    DEF Next, vars, GetExpired, Delete, InsertOversize, Store

-----------------------------------------------------------------------------
(* Every step keeps the history.                                            *)

LEMMA TellsTouched ==
    ASSUME NEW recs \in Seq(Record), NEW s \in 1..Len(recs), NEW e \in Entry,
           NEW now \in Nat, Tells(recs, s, e)
    PROVE  Tells(Append(recs, [time |-> now, size |-> e.size, hit |-> TRUE]), s, touch(e, now))
<1> DEFINE r == [time |-> now, size |-> e.size, hit |-> TRUE]
           n == Len(recs)
           new == Append(recs, r)
           f == touch(e, now)
<1>0. /\ n \in Nat /\ s \in 1..n /\ HistoryLen \in Nat
      /\ r.time = now /\ r.size = e.size /\ r.hit
    BY LearnedShardAssumption
<1>1. /\ f.size = e.size /\ f.admitted = e.admitted /\ f.lastAccess = now
      /\ f.accesses = e.accesses + 1 /\ f.freq = (IF e.freq < 3 THEN e.freq + 1 ELSE 3)
      /\ \A j \in 1..HistoryLen :
            f.deltas[j] = IF j = 1 THEN Min({Clip(now - e.lastAccess) \div PerMS, MaxDelta})
                                   ELSE e.deltas[j - 1]
    BY Touched
<1>2. /\ ~recs[s].hit /\ \A i \in (s + 1)..n : recs[i].hit
      /\ e.admitted = recs[s].time /\ e.lastAccess = recs[n].time
      /\ e.accesses = n - s + 1 /\ e.freq = (IF n - s + 1 < 3 THEN n - s + 1 ELSE 3)
      /\ \A j \in 1..HistoryLen :
            e.deltas[j] = IF j <= n - s THEN Gap(recs, n - (j - 1)) ELSE 0
    BY DEF Tells
<1> HIDE DEF f
<1>3. /\ Len(new) = n + 1 /\ new[n + 1] = r
      /\ \A i \in 1..n : new[i] = recs[i]
    OBVIOUS
<1> HIDE DEF new, r
<1>4. ~new[s].hit /\ \A i \in (s + 1)..(n + 1) : new[i].hit
  <2>1. \A i \in (s + 1)..(n + 1) : i \in (s + 1)..n \/ i = n + 1
      BY <1>0
  <2>2. new[n + 1].hit
      BY <1>0, <1>3
  <2>3. \A i \in (s + 1)..n : new[i] = recs[i]
      BY <1>0, <1>3
  <2> QED BY <1>0, <1>2, <1>3, <2>1, <2>2, <2>3
<1>5. /\ f.size = new[n + 1].size /\ f.admitted = new[s].time /\ f.lastAccess = new[n + 1].time
      /\ f.accesses = (n + 1) - s + 1
      /\ f.freq = (IF (n + 1) - s + 1 < 3 THEN (n + 1) - s + 1 ELSE 3)
    BY <1>0, <1>1, <1>2, <1>3
<1>6. ASSUME NEW j \in 1..HistoryLen
      PROVE  f.deltas[j] = IF j <= (n + 1) - s THEN Gap(new, (n + 1) - (j - 1)) ELSE 0
  <2>1. CASE j = 1
    <3>1. (n + 1) - (j - 1) = n + 1 /\ (n + 1) - 1 = n /\ n \in 1..n /\ j <= (n + 1) - s
        BY <1>0, <2>1
    <3>2. Gap(new, n + 1) = Min({Clip(now - e.lastAccess) \div PerMS, MaxDelta})
        BY <1>0, <1>2, <1>3, <3>1 DEF Gap
    <3> QED BY <1>1, <2>1, <3>1, <3>2
  <2>2. CASE j # 1
    <3>1. j - 1 \in 1..HistoryLen
        BY <1>0, <2>2
    <3>2. f.deltas[j] = IF j - 1 <= n - s THEN Gap(recs, n - ((j - 1) - 1)) ELSE 0
        BY <1>1, <1>2, <2>2, <3>1
    <3>3. j - 1 <= n - s <=> j <= (n + 1) - s
        BY <1>0
    <3>4. ASSUME j - 1 <= n - s
          PROVE  Gap(new, (n + 1) - (j - 1)) = Gap(recs, n - ((j - 1) - 1))
      <4> DEFINE i == (n + 1) - (j - 1)
      <4>1. i = n - ((j - 1) - 1) /\ i \in 1..n /\ i - 1 \in 1..n
          BY <1>0, <2>2, <3>1, <3>4
      <4> HIDE DEF i
      <4>2. new[i] = recs[i] /\ new[i - 1] = recs[i - 1]
          BY <1>3, <4>1
      <4>3. Gap(new, i) = Gap(recs, i)
          BY <4>2 DEF Gap
      <4> QED BY <4>1, <4>3 DEF i
    <3> QED BY <3>2, <3>3, <3>4
  <2> QED BY <2>1, <2>2
<1>7. Tells(new, s, f)
    BY <1>3, <1>4, <1>5, <1>6 DEF Tells
<1> QED BY <1>7 DEF new, r, f

LEMMA TellsFresh ==
    ASSUME NEW recs \in Seq(Record), NEW size \in Nat, NEW now \in Nat, NEW expires \in Nat
    PROVE  Tells(Append(recs, [time |-> now, size |-> size, hit |-> FALSE]), Len(recs) + 1,
                 NewEntry(size, now, expires))
<1> DEFINE r == [time |-> now, size |-> size, hit |-> FALSE]
           n == Len(recs) + 1
           new == Append(recs, r)
           f == NewEntry(size, now, expires)
<1>0. n \in Nat /\ HistoryLen \in Nat /\ r.time = now /\ r.size = size /\ r.hit = FALSE
    BY LearnedShardAssumption
<1>1. Len(new) = n /\ new[n] = r
    OBVIOUS
<1>2. /\ f.size = size /\ f.admitted = now /\ f.lastAccess = now /\ f.accesses = 1 /\ f.freq = 1
      /\ \A j \in 1..HistoryLen : f.deltas[j] = 0
    BY DEF NewEntry
<1> HIDE DEF n, new, f, r
<1>3. n - n + 1 = 1 /\ n - n = 0 /\ (n + 1)..n = {}
    BY <1>0
<1>4. ~new[n].hit /\ \A i \in (n + 1)..n : new[i].hit
    BY <1>0, <1>1, <1>3
<1>5. /\ f.size = new[n].size /\ f.admitted = new[n].time /\ f.lastAccess = new[n].time
      /\ f.accesses = n - n + 1 /\ f.freq = (IF n - n + 1 < 3 THEN n - n + 1 ELSE 3)
    BY <1>0, <1>1, <1>2, <1>3
<1>6. ASSUME NEW j \in 1..HistoryLen
      PROVE  f.deltas[j] = IF j <= n - n THEN Gap(new, n - (j - 1)) ELSE 0
  <2>1. ~(j <= n - n)
      BY <1>0, <1>3
  <2> QED BY <1>2, <2>1
<1>7. Tells(new, n, f)
    BY <1>1, <1>4, <1>5, <1>6 DEF Tells
<1> QED BY <1>7 DEF new, r, f, n

LEMMA HistoryStep == Inv /\ [Next]_vars => HistoryKept'
<1> SUFFICES ASSUME Inv, [Next]_vars PROVE HistoryKept'
    OBVIOUS
<1>0. TypeOK /\ HistoryKept /\ TypeOK'
    BY TypeStep DEF Inv
<1>a. /\ m \in [Keys -> Entry \cup {None}] /\ trace \in [Keys -> Seq(Record)]
      /\ pending \in Request \cup {None}
    BY <1>0 DEF TypeOK
<1>1. ASSUME NEW k \in Keys, NEW now \in Nows, GetHit(k, now) PROVE HistoryKept'
  <2>1. k \in Resident /\ now \in Nat
      BY <1>0, <1>1, NowNat DEF GetHit
  <2>2. m[k] \in Entry /\ m[k].size \in Nat
      BY <1>0, <2>1, ResidentEntry DEF Entry
  <2> DEFINE r == [time |-> now, size |-> m[k].size, hit |-> TRUE]
  <2>3. \/ trace' = [trace EXCEPT ![k] = Append(trace[k], r)] /\ lost' = lost
        \/ trace' = trace /\ lost' = lost \cup {k}
    <3>1. record(k, now, m[k].size, TRUE)
        BY <1>1 DEF GetHit
    <3> QED BY <1>0, <2>1, <2>2, <3>1, Recorded
  <2>4. m' = [m EXCEPT ![k] = touch(m[k], now)]
      BY <1>a, <1>1 DEF GetHit
  <2>5. ASSUME NEW j \in (Resident \ lost)' PROVE \E s \in 1..Len(trace'[j]) : Tells(trace'[j], s, m'[j])
    <3>1. CASE j = k
      <4>1. k \notin lost /\ trace'[k] = Append(trace[k], r)
          BY <1>a, <2>3, <2>5, <3>1
      <4>2. PICK s \in 1..Len(trace[k]) : Tells(trace[k], s, m[k])
          BY <1>0, <2>1, <4>1 DEF HistoryKept
      <4>3. trace[k] \in Seq(Record)
          BY <1>a
      <4>4. Tells(Append(trace[k], r), s, touch(m[k], now))
          BY <2>1, <2>2, <4>2, <4>3, TellsTouched
      <4>5. m'[k] = touch(m[k], now)
          BY <1>a, <2>4
      <4>6. Tells(trace'[k], s, m'[k])
          BY <4>1, <4>4, <4>5
      <4>7. s \in 1..Len(trace'[k])
          BY <4>1, <4>2, <4>3
      <4> QED BY <3>1, <4>6, <4>7
    <3>2. CASE j # k
      <4>1. j \in Keys /\ m'[j] # None /\ j \notin lost'
          BY <2>5 DEF Resident
      <4>2. m'[j] = m[j] /\ trace'[j] = trace[j] /\ j \notin lost
          BY <1>a, <2>3, <2>4, <3>2, <4>1
      <4>3. j \in Resident \ lost
          BY <4>1, <4>2 DEF Resident
      <4> QED BY <1>0, <4>2, <4>3 DEF HistoryKept
    <3> QED BY <3>1, <3>2
  <2> QED BY <2>5 DEF HistoryKept
<1>2. ASSUME NEW k \in Keys, m' = [m EXCEPT ![k] = None], UNCHANGED <<trace, lost>>
      PROVE  HistoryKept'
  <2>1. ASSUME NEW j \in (Resident \ lost)' PROVE j \in Resident \ lost /\ m'[j] = m[j]
      BY <1>a, <1>2 DEF Resident
  <2> QED BY <1>0, <1>2, <2>1 DEF HistoryKept
<1>3. CASE EvictOne
  <2>1. PICK v \in Victims : m' = [m EXCEPT ![v] = None]
      BY <1>3 DEF EvictOne, drop
  <2>2. v \in Keys
      BY <2>1, VictimResident DEF Resident
  <2> QED BY <1>2, <1>3, <2>1, <2>2 DEF EvictOne
<1>4. CASE Admit
  <2> DEFINE k == pending.key
             r == [time |-> pending.now, size |-> pending.size, hit |-> FALSE]
             e == NewEntry(pending.size, pending.now, pending.expires)
  <2>1. /\ k \in Keys /\ pending.size \in Nat /\ pending.now \in Nat /\ pending.expires \in Nat
      BY <1>a, <1>4 DEF Admit, Request
  <2>2. m' = [m EXCEPT ![k] = e] /\ record(k, pending.now, pending.size, FALSE)
      BY <1>4 DEF Admit
  <2>3. \/ trace' = [trace EXCEPT ![k] = Append(trace[k], r)] /\ lost' = lost \ {k}
        \/ trace' = trace /\ lost' = lost \cup {k}
      BY <1>0, <2>1, <2>2, Recorded
  <2>4. trace[k] \in Seq(Record)
      BY <1>a, <2>1
  <2>5. Tells(Append(trace[k], r), Len(trace[k]) + 1, e)
      BY <2>1, <2>4, TellsFresh
  <2> HIDE DEF k, e
  <2>6. ASSUME NEW j \in (Resident \ lost)' PROVE \E s \in 1..Len(trace'[j]) : Tells(trace'[j], s, m'[j])
    <3>1. CASE j = k
      <4>1. trace'[k] = Append(trace[k], r) /\ m'[k] = e
          BY <1>a, <2>1, <2>2, <2>3, <2>6, <3>1
      <4>2. Len(trace[k]) + 1 \in 1..Len(trace'[k])
          BY <2>4, <4>1
      <4> QED BY <2>5, <3>1, <4>1, <4>2
    <3>2. CASE j # k
      <4>1. j \in Keys /\ m'[j] # None /\ j \notin lost'
          BY <2>6 DEF Resident
      <4>2. m'[j] = m[j] /\ trace'[j] = trace[j] /\ j \notin lost
          BY <1>a, <2>1, <2>2, <2>3, <3>2, <4>1
      <4>3. j \in Resident \ lost
          BY <4>1, <4>2 DEF Resident
      <4> QED BY <1>0, <4>2, <4>3 DEF HistoryKept
    <3> QED BY <3>1, <3>2
  <2> QED BY <2>6 DEF HistoryKept
<1>5. CASE UNCHANGED <<m, trace, lost>>
    BY <1>0, <1>5 DEF HistoryKept, Resident
<1> QED
    BY <1>1, <1>2, <1>3, <1>4, <1>5
    DEF Next, vars, drop, GetExpired, Delete, InsertOversize, InsertBegin, GiveUp, Store, Tick

LEMMA PendingStep == Inv /\ [Next]_vars => PendingOK'
<1> SUFFICES ASSUME Inv, [Next]_vars PROVE PendingOK'
    OBVIOUS
<1>0. TypeOK /\ PendingOK
    BY DEF Inv
<1>a. m \in [Keys -> Entry \cup {None}] /\ pending \in Request \cup {None}
    BY <1>0 DEF TypeOK
<1>1. CASE pending' = None
    BY <1>1 DEF PendingOK
<1>2. ASSUME NEW k \in Keys, NEW size \in Sizes, NEW now \in Nows, NEW ttl \in TTLs,
             InsertBegin(k, size, now, ttl)
      PROVE  PendingOK'
  <2>1. pending'.key = k /\ pending'.size = size /\ size <= Capacity
      BY <1>2 DEF InsertBegin
  <2>2. m'[k] = None
      BY <1>a, <1>2 DEF InsertBegin, drop, Resident
  <2> QED BY <2>1, <2>2 DEF PendingOK, Resident
<1>3. CASE EvictOne
  <2>1. PICK v \in Victims : m' = [m EXCEPT ![v] = None]
      BY <1>3 DEF EvictOne, drop
  <2>2. pending' = pending /\ Resident' \subseteq Resident
      BY <1>a, <1>3, <2>1 DEF EvictOne, Resident
  <2> QED BY <1>0, <2>2 DEF PendingOK
<1>4. CASE UNCHANGED <<m, pending>>
    BY <1>0, <1>4 DEF PendingOK, Resident
<1> QED
    BY <1>1, <1>2, <1>3, <1>4
    DEF Next, vars, GetHit, GetExpired, Delete, InsertOversize, GiveUp, Admit, Store, Tick

-----------------------------------------------------------------------------
(* Sums of sizes.                                                           *)

\* A set of subsets of a finite set that holds the empty one, and each one all
\* of whose one-smaller subsets it holds, holds them all.
LEMMA SubsetInduction ==
    ASSUME NEW S, IsFiniteSet(S), NEW T, {} \in T,
           \A s \in SUBSET S : s # {} /\ (\A x \in s : s \ {x} \in T) => s \in T
    PROVE  SUBSET S \subseteq T
<1> DEFINE U == (SUBSET S) \ T
<1> SUFFICES ASSUME U # {} PROVE FALSE
    OBVIOUS
<1>1. IsWellFoundedOn(StrictSubsetOrdering(S), FiniteSubsetsOf(S))
    BY FS_StrictSubsetOrderingWellFounded
<1>2. U \subseteq FiniteSubsetsOf(S)
    BY FS_Subset DEF FiniteSubsetsOf
<1>3. PICK s \in U : \A t \in U : <<t, s>> \notin StrictSubsetOrdering(S)
  <2> HIDE DEF U
  <2> QED BY <1>1, <1>2, WFMin
<1>4. \A x \in s : s \ {x} \in T
  <2> SUFFICES ASSUME NEW x \in s PROVE s \ {x} \in T
      OBVIOUS
  <2>1. <<s \ {x}, s>> \in StrictSubsetOrdering(S)
      BY <1>3 DEF StrictSubsetOrdering
  <2>2. s \ {x} \notin U /\ s \ {x} \in SUBSET S
    <3> HIDE DEF U
    <3>1. s \ {x} \notin U
        BY <1>3, <2>1
    <3>2. s \ {x} \in SUBSET S
        BY <1>3 DEF U
    <3> QED BY <3>1, <3>2
  <2> QED BY <2>2
<1>5. s \in SUBSET S /\ s # {} /\ s \notin T
    BY <1>3
<1> QED BY <1>4, <1>5

\* The units of one key, apart from those of the others.
LEMMA UnitsSplit ==
    ASSUME NEW f \in [Keys -> Nat], NEW S \in SUBSET Keys, NEW k \in S
    PROVE  \E U : /\ Units(f, S) = Units(f, S \ {k}) \cup U
                  /\ Units(f, S \ {k}) \cap U = {}
                  /\ IsFiniteSet(U) /\ Cardinality(U) = f[k]
<1> DEFINE I == 0..(f[k] - 1)
           U == {k} \X I
<1>1. f[k] \in Nat
    OBVIOUS
<1>2. IsFiniteSet(I) /\ Cardinality(I) = f[k]
  <2>1. 0 \in Int /\ f[k] - 1 \in Int
      BY <1>1
  <2>2. IsFiniteSet(I) /\ Cardinality(I) = IF 0 > f[k] - 1 THEN 0 ELSE (f[k] - 1) - 0 + 1
      BY <2>1, FS_Interval
  <2> HIDE DEF I
  <2> QED BY <1>1, <2>2
<1>3. IsFiniteSet(U) /\ Cardinality(U) = f[k]
  <2>1. IsFiniteSet({k}) /\ Cardinality({k}) = 1
      BY FS_Singleton
  <2> HIDE DEF I
  <2>2. IsFiniteSet({k} \X I) /\ Cardinality({k} \X I) = Cardinality({k}) * Cardinality(I)
      BY <1>2, <2>1, FS_Product
  <2> QED BY <1>1, <1>2, <2>1, <2>2
<1>4. Units(f, S) = Units(f, S \ {k}) \cup U
  <2>1. ASSUME NEW p \in Units(f, S) PROVE p \in Units(f, S \ {k}) \cup U
    <3>1. p \in S \X Nat /\ p[2] < f[p[1]] /\ p = <<p[1], p[2]>>
        BY <2>1 DEF Units
    <3>2. CASE p[1] = k
      <4>1. p[2] \in I
          BY <1>1, <3>1, <3>2
      <4> QED BY <3>1, <3>2, <4>1
    <3>3. CASE p[1] # k
        BY <3>1, <3>3 DEF Units
    <3> QED BY <3>2, <3>3
  <2>2. ASSUME NEW p \in U PROVE p \in Units(f, S)
      BY <1>1, <2>2 DEF Units
  <2>3. Units(f, S \ {k}) \subseteq Units(f, S)
      BY DEF Units
  <2> QED BY <2>1, <2>2, <2>3
<1>5. Units(f, S \ {k}) \cap U = {}
    BY DEF Units
<1> HIDE DEF U
<1> QED BY <1>3, <1>4, <1>5

LEMMA CountNone ==
    ASSUME NEW f
    PROVE  IsFiniteSet(Units(f, {})) /\ Count(f, {}) = 0
<1>1. Units(f, {}) = {}
    BY DEF Units
<1> QED BY <1>1, FS_EmptySet DEF Count

LEMMA CountNat ==
    ASSUME NEW f \in [Keys -> Nat], NEW S \in SUBSET Keys
    PROVE  IsFiniteSet(Units(f, S)) /\ Count(f, S) \in Nat
<1> DEFINE T == {s \in SUBSET Keys : IsFiniteSet(Units(f, s))}
<1>1. {} \in T
    BY CountNone
<1>2. ASSUME NEW s \in SUBSET Keys, s # {}, \A x \in s : s \ {x} \in T PROVE s \in T
  <2>1. PICK x \in s : TRUE
      BY <1>2
  <2>2. IsFiniteSet(Units(f, s \ {x}))
      BY <1>2
  <2> HIDE DEF T
  <2>3. PICK U : Units(f, s) = Units(f, s \ {x}) \cup U /\ IsFiniteSet(U)
      BY UnitsSplit
  <2>4. IsFiniteSet(Units(f, s \ {x}) \cup U)
      BY <2>2, <2>3, FS_Union
  <2> QED BY <2>3, <2>4 DEF T
<1>3. SUBSET Keys \subseteq T
  <2> HIDE DEF T
  <2> QED BY <1>1, <1>2, LearnedShardAssumption, SubsetInduction
<1>4. IsFiniteSet(Units(f, S))
    BY <1>3
<1> QED BY <1>4, FS_CardinalityType DEF Count

\* The sum is one key's value and the sum of the others'.
LEMMA CountOne ==
    ASSUME NEW f \in [Keys -> Nat], NEW S \in SUBSET Keys, NEW k \in S
    PROVE  Count(f, S) = Count(f, S \ {k}) + f[k]
<1>0. PICK U : /\ Units(f, S) = Units(f, S \ {k}) \cup U /\ Units(f, S \ {k}) \cap U = {}
               /\ IsFiniteSet(U) /\ Cardinality(U) = f[k]
    BY UnitsSplit
<1>1. PICK A : /\ A = Units(f, S \ {k}) /\ Units(f, S) = A \cup U /\ A \cap U = {}
               /\ IsFiniteSet(U) /\ Cardinality(U) = f[k]
    BY <1>0
<1>2. S \ {k} \in SUBSET Keys
    OBVIOUS
<1>3. IsFiniteSet(A) /\ Cardinality(A) \in Nat /\ f[k] \in Nat
    BY <1>1, <1>2, CountNat DEF Count
<1>4. Cardinality(A \cup U) = Cardinality(A) + Cardinality(U) - Cardinality(A \cap U)
    BY <1>1, <1>3, FS_Union
<1>5. Cardinality(A \cap U) = 0
    BY <1>1, FS_EmptySet
<1> QED BY <1>1, <1>3, <1>4, <1>5 DEF Count

\* Only what f says of the keys counted matters.
LEMMA CountSame ==
    ASSUME NEW S, NEW f, NEW h, \A k \in S : f[k] = h[k]
    PROVE  Count(f, S) = Count(h, S)
<1>1. Units(f, S) = Units(h, S)
    BY DEF Units
<1> QED BY <1>1 DEF Count

\* The library's sum of sizes counts their units.
LEMMA SumIsCount ==
    ASSUME NEW a, NEW f \in [Keys -> Nat], NEW S \in SUBSET Keys, \A k \in S : a[k].size = f[k]
    PROVE  MapThenSumSet(LAMBDA k : a[k].size, S) = Count(f, S)
<1> DEFINE Eq(g) == g = [s \in SUBSET S |->
                            IF s = {} THEN 0
                            ELSE a[CHOOSE x \in s : TRUE].size + g[s \ {CHOOSE x \in s : TRUE}]]
           count == [s \in SUBSET S |-> Count(f, s)]
<1>1. MapThenSumSet(LAMBDA k : a[k].size, S) = (CHOOSE g : Eq(g))[S]
    BY DEF MapThenSumSet, MapThenFoldSet
<1>2. \A s \in SUBSET S : s # {} =>
        LET x == CHOOSE y \in s : TRUE IN
        x \in s /\ s \ {x} \in SUBSET S /\ Count(f, s) = a[x].size + Count(f, s \ {x})
  <2> SUFFICES ASSUME NEW s \in SUBSET S, s # {}
               PROVE  LET x == CHOOSE y \in s : TRUE IN
                      x \in s /\ s \ {x} \in SUBSET S /\ Count(f, s) = a[x].size + Count(f, s \ {x})
      OBVIOUS
  <2>1. PICK x : x = CHOOSE y \in s : TRUE
      OBVIOUS
  <2>2. x \in s /\ s \in SUBSET Keys /\ s \ {x} \in SUBSET Keys
      BY <2>1
  <2>3. Count(f, s) = Count(f, s \ {x}) + f[x]
      BY <2>2, CountOne
  <2>4. Count(f, s \ {x}) \in Nat /\ f[x] \in Nat /\ a[x].size = f[x]
      BY <2>2, CountNat
  <2>5. Count(f, s) = a[x].size + Count(f, s \ {x})
      BY <2>3, <2>4
  <2> QED BY <2>1, <2>2, <2>5
<1>3. Eq(count)
  <2>1. Count(f, {}) = 0
      BY CountNone
  <2> QED BY <1>2, <2>1
<1>4. PICK g : Eq(g) /\ MapThenSumSet(LAMBDA k : a[k].size, S) = g[S]
  <2> HIDE DEF Eq, count
  <2> QED BY <1>1, <1>3
<1> DEFINE T == {s \in SUBSET S : g[s] = Count(f, s)}
<1>5. {} \in T
    BY <1>4, CountNone
<1>6. ASSUME NEW s \in SUBSET S, s # {}, \A x \in s : s \ {x} \in T PROVE s \in T
  <2>1. PICK x : x = CHOOSE y \in s : TRUE
      OBVIOUS
  <2>2. x \in s /\ Count(f, s) = a[x].size + Count(f, s \ {x})
      BY <1>2, <1>6, <2>1
  <2>3. g[s] = a[x].size + g[s \ {x}]
      BY <1>4, <1>6, <2>1
  <2>4. g[s \ {x}] = Count(f, s \ {x})
      BY <1>6, <2>2
  <2> QED BY <2>2, <2>3, <2>4
<1>7. SUBSET S \subseteq T
  <2>1. IsFiniteSet(S)
      BY LearnedShardAssumption, FS_Subset
  <2> HIDE DEF T
  <2> QED BY <1>5, <1>6, <2>1, SubsetInduction
<1> QED BY <1>4, <1>7

LEMMA SizesNat ==
    ASSUME TypeOK
    PROVE  SizeOf \in [Keys -> Nat]
BY DEF TypeOK, SizeOf, Entry

\* A drop takes an entry's bytes off both sides.
LEMMA DropBytes ==
    ASSUME TypeOK, BytesOK, NEW k \in Resident, drop(k)
    PROVE  BytesOK'
<1>0. k \in Keys /\ m[k] \in Entry /\ m[k].size \in Nat /\ m \in [Keys -> Entry \cup {None}]
    BY ResidentEntry DEF Entry, TypeOK
<1>1. m' = [m EXCEPT ![k] = None] /\ used' = used - m[k].size
    BY DEF drop
<1>2. PICK f, h : f = SizeOf /\ h = SizeOf'
    OBVIOUS
<1>3. f \in [Keys -> Nat] /\ h \in [Keys -> Nat]
  <2>1. \A j \in Keys : m'[j] = IF j = k THEN None ELSE m[j]
      BY <1>0, <1>1
  <2> QED BY <1>0, <1>2, <2>1, SizesNat DEF SizeOf
<1>4. f[k] = m[k].size /\ h[k] = 0 /\ \A j \in Keys \ {k} : h[j] = f[j]
    BY <1>0, <1>1, <1>2 DEF SizeOf, Resident
<1>5. Count(f, Keys) = Count(f, Keys \ {k}) + f[k] /\ Count(h, Keys) = Count(h, Keys \ {k}) + h[k]
    BY <1>0, <1>3, CountOne
<1>6. Count(h, Keys \ {k}) = Count(f, Keys \ {k}) /\ Count(f, Keys \ {k}) \in Nat
    BY <1>3, <1>4, CountSame, CountNat
<1>7. used = Count(f, Keys) /\ used <= Capacity
    BY <1>2 DEF BytesOK
<1>8. used' = Count(h, Keys) /\ used' <= Capacity
    BY <1>0, <1>1, <1>4, <1>5, <1>6, <1>7, LearnedShardAssumption
<1>9. Count(SizeOf, Keys)' = Count(h, Keys)
    BY <1>2 DEF Count, Units
<1> QED BY <1>8, <1>9 DEF BytesOK

LEMMA BytesStep == Inv /\ [Next]_vars => BytesOK'
<1> SUFFICES ASSUME Inv, [Next]_vars PROVE BytesOK'
    OBVIOUS
<1>0. TypeOK /\ BytesOK /\ PendingOK
    BY DEF Inv
<1>a. m \in [Keys -> Entry \cup {None}] /\ pending \in Request \cup {None} /\ used \in Int
    BY <1>0 DEF TypeOK
<1>1. CASE UNCHANGED <<m, used>>
  <2>1. SizeOf' = SizeOf
      BY <1>1 DEF SizeOf
  <2> QED BY <1>0, <1>1, <2>1 DEF BytesOK, Count, Units
<1>2. ASSUME NEW k \in Resident, drop(k) PROVE BytesOK'
    BY <1>0, <1>2, DropBytes
<1>3. ASSUME NEW k \in Keys, NEW now \in Nows, GetHit(k, now) PROVE BytesOK'
  <2>1. k \in Resident /\ m[k] \in Entry /\ now \in Nat
      BY <1>0, <1>3, NowNat, ResidentEntry DEF GetHit
  <2>2. touch(m[k], now).size = m[k].size /\ touch(m[k], now) \in Entry
      BY <2>1, Touched
  <2>3. m' = [m EXCEPT ![k] = touch(m[k], now)] /\ used' = used
      BY <1>a, <1>3 DEF GetHit
  <2>4. \A j \in Keys : m'[j] = IF j = k THEN touch(m[k], now) ELSE m[j]
      BY <1>a, <2>3
  <2>5. SizeOf' = SizeOf
      BY <2>1, <2>2, <2>4, NotNone DEF SizeOf, Resident
  <2> QED BY <1>0, <2>3, <2>5 DEF BytesOK, Count, Units
<1>4. CASE Admit
  <2> DEFINE k == pending.key
             e == NewEntry(pending.size, pending.now, pending.expires)
  <2>1. pending # None /\ used + pending.size <= Capacity /\ m' = [m EXCEPT ![k] = e]
        /\ used' = used + pending.size
      BY <1>4 DEF Admit, Fits
  <2>2. /\ k \in Keys /\ pending.size \in Nat /\ e \in Entry /\ e.size = pending.size
        /\ m[k] = None
    <3>1. /\ pending.key \in Keys /\ pending.size \in Nat /\ pending.now \in Nat
          /\ pending.expires \in Nat
        BY <1>a, <2>1 DEF Request
    <3>2. m[k] = None
        BY <1>0, <2>1, <3>1 DEF PendingOK, Resident
    <3> QED BY <3>1, <3>2, Fresh DEF NewEntry
  <2> HIDE DEF k, e
  <2>3. PICK f, h : f = SizeOf /\ h = SizeOf'
      OBVIOUS
  <2>4. f \in [Keys -> Nat] /\ h \in [Keys -> Nat]
    <3>1. TypeOK'
        BY <1>0, TypeStep
    <3>2. SizeOf' \in [Keys -> Nat]
        BY <3>1 DEF TypeOK, SizeOf, Entry
    <3> QED BY <1>0, <2>3, <3>2, SizesNat
  <2>5. \A j \in Keys : m'[j] = IF j = k THEN e ELSE m[j]
      BY <1>a, <2>1
  <2>6. f[k] = 0 /\ h[k] = pending.size /\ \A j \in Keys \ {k} : h[j] = f[j]
      BY <2>2, <2>3, <2>5, NotNone DEF SizeOf
  <2>7. Count(f, Keys) = Count(f, Keys \ {k}) + f[k] /\ Count(h, Keys) = Count(h, Keys \ {k}) + h[k]
      BY <2>2, <2>4, CountOne
  <2>8. Count(h, Keys \ {k}) = Count(f, Keys \ {k}) /\ Count(f, Keys \ {k}) \in Nat
      BY <2>4, <2>6, CountSame, CountNat
  <2>9. used = Count(f, Keys)
      BY <1>0, <2>3 DEF BytesOK
  <2>10. used' = Count(h, Keys)
      BY <2>1, <2>2, <2>6, <2>7, <2>8, <2>9
  <2>11. Count(SizeOf, Keys)' = Count(h, Keys)
      BY <2>3 DEF Count, Units
  <2> QED BY <2>1, <2>10, <2>11 DEF BytesOK
<1>5. ASSUME NEW k \in Keys, NEW size \in Sizes, NEW now \in Nows, NEW ttl \in TTLs,
             InsertBegin(k, size, now, ttl)
      PROVE  BytesOK'
    BY <1>1, <1>2, <1>5 DEF InsertBegin
<1>6. CASE EvictOne
  <2>1. PICK v \in Victims : drop(v)
      BY <1>6 DEF EvictOne
  <2> QED BY <1>2, <2>1, VictimResident
<1> QED
    BY <1>1, <1>2, <1>3, <1>4, <1>5, <1>6
    DEF Next, vars, GetExpired, Delete, InsertOversize, GiveUp, Store, Tick

LEMMA InitInv == Init => Inv
<1> SUFFICES ASSUME Init PROVE Inv
    OBVIOUS
<1>1. TypeOK
    BY LearnedShardAssumption DEF Init, TypeOK
<1>2. Resident = {}
    BY DEF Init, Resident
<1>3. BytesOK
  <2>1. \A k \in Keys : SizeOf[k] = 0
      BY DEF Init, SizeOf
  <2>2. Units(SizeOf, Keys) = {}
      BY <2>1 DEF Units
  <2>3. Count(SizeOf, Keys) = 0
      BY <2>2, FS_EmptySet DEF Count
  <2> QED BY <2>3, LearnedShardAssumption DEF Init, BytesOK
<1> QED BY <1>1, <1>2, <1>3 DEF Inv, HistoryKept, PendingOK, Init

\* Whatever the skew of the clock readings and whichever records are dropped, evicted
\* or overwritten keys included, every resident entry of a key without a lost record
\* has the history that the key's records since its last admission tell.
THEOREM LearnedShardInvariant == Spec => []Inv
<1>1. Inv /\ [Next]_vars => Inv'
    BY TypeStep, HistoryStep, PendingStep, BytesStep DEF Inv
<1> QED BY InitInv, <1>1, PTL DEF Spec

-----------------------------------------------------------------------------
(* The trainer's stable sort: every record has a rank of its own.            *)

Earlier(recs, n) == {a \in DOMAIN recs : Before(recs, a, n)}

LEMMA TimesNat ==
    ASSUME NEW recs \in Seq(Record)
    PROVE  /\ Len(recs) \in Nat /\ DOMAIN recs = 1..Len(recs)
           /\ \A n \in 1..Len(recs) : recs[n] \in Record /\ recs[n].time \in Nat
<1>1. \A n \in 1..Len(recs) : recs[n] \in Record
    OBVIOUS
<1> QED BY <1>1 DEF Record

LEMMA EarlierFinite ==
    ASSUME NEW recs \in Seq(Record), NEW n \in 1..Len(recs)
    PROVE  /\ IsFiniteSet(Earlier(recs, n)) /\ Cardinality(Earlier(recs, n)) \in Nat
           /\ Earlier(recs, n) \subseteq (1..Len(recs)) \ {n}
           /\ Rank(recs, n) = Cardinality(Earlier(recs, n)) + 1
<1>1. Earlier(recs, n) \subseteq (1..Len(recs)) \ {n}
    BY TimesNat DEF Earlier, Before
<1>2. IsFiniteSet(1..Len(recs))
    BY TimesNat, FS_Interval
<1>3. IsFiniteSet(Earlier(recs, n))
    BY <1>1, <1>2, FS_Subset
<1>4. Cardinality(Earlier(recs, n)) \in Nat
    BY <1>3, FS_CardinalityType
<1> QED BY <1>1, <1>3, <1>4 DEF Rank, Earlier

LEMMA RankRange ==
    ASSUME NEW recs \in Seq(Record), NEW n \in 1..Len(recs)
    PROVE  Rank(recs, n) \in 1..Len(recs)
<1> DEFINE N == Len(recs)
<1>1. N \in Nat /\ 1 <= N
    BY TimesNat
<1>2. IsFiniteSet(1..N) /\ Cardinality(1..N) = N
    BY <1>1, FS_Interval
<1>3. IsFiniteSet((1..N) \ {n}) /\ Cardinality((1..N) \ {n}) = N - 1
    BY <1>2, FS_RemoveElement
<1>4. Cardinality(Earlier(recs, n)) <= N - 1
    BY <1>3, EarlierFinite, FS_Subset
<1> QED BY <1>1, <1>4, EarlierFinite

LEMMA RankOrder ==
    ASSUME NEW recs \in Seq(Record), NEW a \in 1..Len(recs), NEW b \in 1..Len(recs),
           Before(recs, a, b)
    PROVE  Rank(recs, a) < Rank(recs, b)
<1>1. Earlier(recs, a) \subseteq Earlier(recs, b)
    BY TimesNat DEF Earlier, Before
<1>2. a \in Earlier(recs, b) /\ a \notin Earlier(recs, a)
    BY TimesNat DEF Earlier, Before
<1>3. /\ Cardinality(Earlier(recs, a)) <= Cardinality(Earlier(recs, b))
      /\ Cardinality(Earlier(recs, a)) # Cardinality(Earlier(recs, b))
    BY <1>1, <1>2, EarlierFinite, FS_Subset
<1> QED BY <1>3, EarlierFinite

LEMMA RankInjective ==
    ASSUME NEW recs \in Seq(Record), NEW a \in 1..Len(recs), NEW b \in 1..Len(recs),
           Rank(recs, a) = Rank(recs, b)
    PROVE  a = b
<1>1. a # b => Before(recs, a, b) \/ Before(recs, b, a)
    BY TimesNat DEF Before
<1>2. Rank(recs, a) \in Nat /\ Rank(recs, b) \in Nat
    BY EarlierFinite
<1> QED BY <1>1, <1>2, RankOrder

\* The n-th record is at its rank in the sorted sequence.
LEMMA SortedAt ==
    ASSUME NEW recs \in Seq(Record), NEW n \in 1..Len(recs)
    PROVE  Sorted(recs)[Rank(recs, n)] = recs[n]
<1>1. Rank(recs, n) \in DOMAIN recs
    BY TimesNat, RankRange
<1>2. (CHOOSE a \in DOMAIN recs : Rank(recs, a) = Rank(recs, n)) = n
    BY TimesNat, RankInjective
<1> QED BY <1>1, <1>2 DEF Sorted

LEMMA RankSurjective ==
    ASSUME NEW recs \in Seq(Record), NEW i \in 1..Len(recs)
    PROVE  \E n \in 1..Len(recs) : Rank(recs, n) = i
<1> DEFINE I == 1..Len(recs)
           f == [n \in I |-> Rank(recs, n)]
<1>1. f \in [I -> I]
    BY RankRange
<1>2. \A a, b \in I : f[a] = f[b] => a = b
    BY RankInjective
<1>3. IsFiniteSet(I)
  <2>1. 1 \in Int /\ Len(recs) \in Int
      BY TimesNat
  <2> QED BY <2>1, FS_Interval
<1> HIDE DEF f, I
<1>4. f \in Injection(I, I)
    BY <1>1, <1>2 DEF Injection, IsInjective
<1>5. f \in Surjection(I, I)
    BY <1>3, <1>4, FS_Injection
<1>6. \E n \in I : f[n] = i
    BY <1>5 DEF Surjection, I
<1> QED BY <1>6 DEF f, I

LEMMA SortedSeq ==
    ASSUME NEW recs \in Seq(Record)
    PROVE  /\ Sorted(recs) \in Seq(Record) /\ Len(Sorted(recs)) = Len(recs)
           /\ DOMAIN Sorted(recs) = 1..Len(recs)
<1> DEFINE f == Sorted(recs)
<1>1. DOMAIN f = 1..Len(recs) /\ f = [i \in 1..Len(recs) |-> f[i]]
    BY TimesNat DEF Sorted
<1>2. \A i \in 1..Len(recs) : f[i] \in Record
    BY TimesNat, RankSurjective, SortedAt
<1> HIDE DEF f
<1>3. f \in [1..Len(recs) -> Record]
  <2>1. [i \in 1..Len(recs) |-> f[i]] \in [1..Len(recs) -> Record]
      BY <1>2
  <2> QED BY <1>1, <2>1, Zenon
<1>4. f \in Seq(Record) /\ Len(f) = Len(recs)
    BY <1>3, TimesNat
<1> QED BY <1>1, <1>4 DEF f

\* Where the records from s on follow all that were logged before them in time too,
\* sorting moves none of them.
LEMMA SuffixSorted ==
    ASSUME NEW recs \in Seq(Record), NEW s \in 1..Len(recs),
           \A b \in s..Len(recs), a \in 1..Len(recs) : a <= b => recs[a].time <= recs[b].time,
           NEW i \in s..Len(recs)
    PROVE  Sorted(recs)[i] = recs[i]
<1>1. i \in 1..Len(recs) /\ i \in Nat
    BY TimesNat
<1>2. Earlier(recs, i) = 1..(i - 1)
  <2>1. ASSUME NEW a \in 1..Len(recs) PROVE Before(recs, a, i) <=> a < i
    <3>1. a < i => recs[a].time <= recs[i].time
        BY <1>1, TimesNat
    <3>2. a >= i => recs[i].time <= recs[a].time
        BY <1>1, TimesNat
    <3> QED BY <1>1, <3>1, <3>2, TimesNat DEF Before
  <2> QED BY <1>1, <2>1, TimesNat DEF Earlier
<1>3. Cardinality(1..(i - 1)) = i - 1
    BY <1>1, FS_Interval
<1>4. Rank(recs, i) = i
    BY <1>1, <1>2, <1>3, EarlierFinite
<1> QED BY <1>1, <1>4, SortedAt

-----------------------------------------------------------------------------
(* The trainer's columns are the shard's.                                   *)

\* Healthy is about the records since the last admission.
LEMMA HealthyTimes ==
    ASSUME TypeOK, NEW k \in Keys, NEW s \in 1..Len(trace[k]),
           ~trace[k][s].hit, \A i \in (s + 1)..Len(trace[k]) : trace[k][i].hit, Healthy(k)
    PROVE  \A b \in s..Len(trace[k]), a \in 1..Len(trace[k]) :
              a <= b => trace[k][a].time <= trace[k][b].time
<1> DEFINE recs == trace[k]
           misses == {0} \cup {n \in DOMAIN recs : ~recs[n].hit}
<1>1. recs \in Seq(Record)
    BY DEF TypeOK
<1>2. /\ s \in misses /\ misses \in SUBSET Int /\ \A y \in misses : y <= s
    BY <1>1, TimesNat
<1>3. Max(misses) = s
    BY <1>2, MaxIs
<1>4. \A b \in s..Len(recs), a \in 1..Len(recs) :
         1 <= b /\ a <= b => recs[a].time <= recs[b].time
    BY <1>3 DEF Healthy
<1> QED BY <1>1, <1>4, TimesNat

\* The segment the last row belongs to starts at the last admission.
LEMMA SegmentStart ==
    ASSUME NEW recs \in Seq(Record), NEW s \in 1..Len(recs),
           ~recs[s].hit, \A i \in (s + 1)..Len(recs) : recs[i].hit
    PROVE  SegStart(recs, Len(recs)) = s
<1> DEFINE starts == {j \in 1..Len(recs) : NewSegment(recs, j)}
<1>1. s \in starts /\ starts \in SUBSET Int /\ \A y \in starts : y <= s
    BY TimesNat DEF NewSegment
<1>2. Max(starts) = s
    BY <1>1, MaxIs
<1> QED BY <1>2 DEF SegStart

LEMMA GapsAgree ==
    ASSUME NEW recs \in Seq(Record), NEW s \in 1..Len(recs),
           ~recs[s].hit, \A i \in (s + 1)..Len(recs) : recs[i].hit,
           \A b \in s..Len(recs), a \in 1..Len(recs) : a <= b => recs[a].time <= recs[b].time,
           NEW i \in s..Len(recs)
    PROVE  GapMS(recs, i) = IF i = s THEN 0 ELSE Gap(recs, i)
<1>1. CASE i = s
    BY <1>1 DEF GapMS, NewSegment
<1>2. CASE i # s
  <2>1. i \in (s + 1)..Len(recs) /\ i # 1 /\ i - 1 \in 1..Len(recs) /\ i - 1 <= i /\ i \in 1..Len(recs)
      BY <1>2, TimesNat
  <2>2. ~NewSegment(recs, i)
      BY <2>1 DEF NewSegment
  <2>3. recs[i - 1].time <= recs[i].time /\ recs[i - 1].time \in Nat /\ recs[i].time \in Nat
      BY <2>1, TimesNat
  <2>4. Clip(recs[i].time - recs[i - 1].time) = recs[i].time - recs[i - 1].time
      BY <2>3 DEF Clip
  <2> QED BY <1>2, <2>2, <2>4 DEF GapMS, Gap
<1> QED BY <1>1, <1>2

\* Sorting the records keeps the last segment, its admission and its gaps.
LEMMA SuffixRow ==
    ASSUME NEW tr \in Seq(Record), NEW s \in 1..Len(tr), NEW e \in Entry, Tells(tr, s, e),
           \A b \in s..Len(tr), a \in 1..Len(tr) : a <= b => tr[a].time <= tr[b].time,
           NEW delta \in Nat
    PROVE  Extract(e, e.lastAccess + delta) = Row(Sorted(tr), Len(tr), delta)
<1> DEFINE N == Len(tr)
           recs == Sorted(tr)
<1>1. N \in Nat /\ s \in 1..N /\ N \in s..N /\ s \in s..N /\ HistoryLen \in Nat
    BY TimesNat, LearnedShardAssumption
<1>2. recs \in Seq(Record) /\ Len(recs) = N
    BY SortedSeq
<1>3. \A i \in s..N : recs[i] = tr[i]
    BY SuffixSorted
<1>4. /\ ~tr[s].hit /\ \A i \in (s + 1)..N : tr[i].hit
      /\ e.size = tr[N].size
      /\ e.admitted = tr[s].time /\ e.lastAccess = tr[N].time
      /\ e.accesses = N - s + 1 /\ e.freq = (IF N - s + 1 < 3 THEN N - s + 1 ELSE 3)
      /\ \A j \in 1..HistoryLen :
            e.deltas[j] = IF j <= N - s THEN Gap(tr, N - (j - 1)) ELSE 0
    BY DEF Tells
<1>5. e.deltas \in [1..HistoryLen -> Nat]
    BY DEF Entry
<1> HIDE DEF recs, N
<1>6. ~recs[s].hit /\ \A i \in (s + 1)..N : recs[i].hit
  <2>1. \A i \in (s + 1)..N : i \in s..N
      BY <1>1
  <2> QED BY <1>1, <1>3, <1>4, <2>1
<1>7. SegStart(recs, N) = s
    BY <1>1, <1>2, <1>6, SegmentStart
<1>8. /\ tr[N].time \in Nat /\ tr[s].time \in Nat /\ tr[s].time <= tr[N].time
      /\ recs[N] = tr[N] /\ recs[s] = tr[s]
    BY <1>1, <1>3, TimesNat DEF N
<1>9. /\ Clip((e.lastAccess + delta) - e.lastAccess) = delta
      /\ Clip((e.lastAccess + delta) - e.admitted) = recs[N].time + delta - recs[s].time
  <2>1. ASSUME NEW last \in Nat, NEW adm \in Nat, adm <= last
        PROVE  /\ Clip((last + delta) - last) = delta
               /\ Clip((last + delta) - adm) = last + delta - adm
      BY <2>1 DEF Clip
  <2>2. e.lastAccess \in Nat /\ e.admitted \in Nat /\ e.admitted <= e.lastAccess
      BY <1>4, <1>8
  <2>3. recs[N].time = e.lastAccess /\ recs[s].time = e.admitted
      BY <1>4, <1>8
  <2> QED BY <2>1, <2>2, <2>3
<1>10. Min({N - s + 1, 3}) = e.freq
  <2>1. N - s + 1 \in Int /\ 3 \in Int
      BY <1>1
  <2>2. Min({N - s + 1, 3}) = IF N - s + 1 <= 3 THEN N - s + 1 ELSE 3
      BY <2>1, MinIs
  <2> QED BY <1>1, <1>4, <2>2
<1>11. ASSUME NEW j \in 1..HistoryLen
       PROVE  e.deltas[j] = IF N - s >= j - 1 THEN GapMS(recs, N - (j - 1)) ELSE 0
  <2> DEFINE i == N - (j - 1)
  <2>1. CASE j <= N - s
    <3>1. i \in s..N /\ i # s /\ N - s >= j - 1 /\ i - 1 \in s..N /\ i \in 1..N
        BY <1>1, <2>1
    <3>2. recs[i] = tr[i] /\ recs[i - 1] = tr[i - 1]
        BY <1>3, <3>1
    <3>3. GapMS(tr, i) = Gap(tr, i)
        BY <1>4, <3>1, GapsAgree DEF N
    <3>4. GapMS(recs, i) = GapMS(tr, i)
        BY <3>2 DEF GapMS, NewSegment
    <3> QED BY <1>4, <2>1, <3>1, <3>3, <3>4
  <2>2. CASE j = N - s + 1
    <3>1. i = s /\ N - s >= j - 1 /\ ~(j <= N - s)
        BY <1>1, <2>2
    <3>2. GapMS(recs, s) = 0
        BY <1>6 DEF GapMS, NewSegment
    <3> QED BY <1>4, <3>1, <3>2
  <2>3. CASE j > N - s + 1
    <3>1. ~(N - s >= j - 1) /\ ~(j <= N - s)
        BY <1>1, <2>3
    <3> QED BY <1>4, <3>1
  <2> QED BY <1>1, <2>1, <2>2, <2>3
<1>12. e.deltas = [j \in 1..HistoryLen |->
                      IF N - s >= j - 1 THEN GapMS(recs, N - (j - 1)) ELSE 0]
    BY <1>5, <1>11
<1>13. Extract(e, e.lastAccess + delta) =
         [size |-> e.size, recency |-> delta \div PerMS,
          age |-> (recs[N].time + delta - recs[s].time) \div PerMS,
          accesses |-> e.accesses, freq |-> e.freq,
          rate |-> <<e.accesses, recs[N].time + delta - recs[s].time>>, deltas |-> e.deltas]
    BY <1>9 DEF Extract
<1>14. Row(recs, N, delta) =
         [size |-> recs[N].size, recency |-> delta \div PerMS,
          age |-> (recs[N].time + delta - recs[s].time) \div PerMS,
          accesses |-> N - s + 1, freq |-> Min({N - s + 1, 3}),
          rate |-> <<N - s + 1, recs[N].time + delta - recs[s].time>>,
          deltas |-> [j \in 1..HistoryLen |->
                        IF N - s >= j - 1 THEN GapMS(recs, N - (j - 1)) ELSE 0]]
    BY <1>7, Zenon DEF Row
<1>15. e.size = recs[N].size /\ e.accesses = N - s + 1
    BY <1>4, <1>8
<1>16. Extract(e, e.lastAccess + delta) = Row(recs, N, delta)
    BY <1>10, <1>12, <1>13, <1>14, <1>15
<1> QED BY <1>16 DEF recs, N

\* A model is shown, at any moment after a resident key's last access, the columns the
\* trainer derives for that moment, unless a record since the key's admission was
\* dropped or is out of the clock's order.
THEOREM TrainedAsServedHolds == Spec => []TrainedAsServed
<1>1. ASSUME Inv PROVE TrainedAsServed
  <2> SUFFICES ASSUME NEW k \in Resident, Healthy(k)
               PROVE  LET recs == Sorted(trace[k])
                      IN  recs # <<>> /\ \A delta \in 0..MaxTime :
                             Extract(m[k], m[k].lastAccess + delta) = Row(recs, Len(recs), delta)
      BY DEF TrainedAsServed
  <2>1. TypeOK /\ HistoryKept
      BY <1>1 DEF Inv
  <2>2. k \in Keys /\ k \notin lost /\ m[k] \in Entry /\ trace[k] \in Seq(Record)
      BY <2>1, ResidentEntry DEF TypeOK, Healthy
  <2>3. PICK s \in 1..Len(trace[k]) : Tells(trace[k], s, m[k])
      BY <2>1, <2>2 DEF HistoryKept
  <2>4. \A b \in s..Len(trace[k]), a \in 1..Len(trace[k]) :
           a <= b => trace[k][a].time <= trace[k][b].time
    <3>1. ~trace[k][s].hit /\ \A i \in (s + 1)..Len(trace[k]) : trace[k][i].hit
        BY <2>3 DEF Tells
    <3> QED BY <2>1, <2>2, <3>1, HealthyTimes
  <2>5. Len(Sorted(trace[k])) = Len(trace[k]) /\ Sorted(trace[k]) # <<>>
      BY <2>2, SortedSeq, TimesNat
  <2>6. ASSUME NEW delta \in 0..MaxTime
        PROVE  Extract(m[k], m[k].lastAccess + delta) = Row(Sorted(trace[k]), Len(trace[k]), delta)
    <3>1. delta \in Nat
        BY LearnedShardAssumption
    <3> QED BY <2>2, <2>3, <2>4, <3>1, SuffixRow
  <2> QED BY <2>5, <2>6
<1> QED BY <1>1, LearnedShardInvariant, PTL

-----------------------------------------------------------------------------
(* A label, once given, stands.                                             *)

\* A finite, non-empty set of integers has a largest element.
LEMMA MaxExists ==
    ASSUME NEW S \in SUBSET Int, IsFiniteSet(S), S # {}
    PROVE  Max(S) \in S /\ \A s \in S : Max(S) >= s
<1> DEFINE HasMax(U) == \E x \in U : \A s \in U : x >= s
           T == {U \in SUBSET S : U # {} /\ ~HasMax(U)}
<1>1. HasMax(S)
  <2> SUFFICES ASSUME S \in T PROVE FALSE
      OBVIOUS
  <2>1. IsWellFoundedOn(StrictSubsetOrdering(S), FiniteSubsetsOf(S))
      BY FS_StrictSubsetOrderingWellFounded
  <2>2. T \subseteq FiniteSubsetsOf(S)
      BY FS_Subset DEF FiniteSubsetsOf
  <2>3. PICK U \in T : \A V \in T : <<V, U>> \notin StrictSubsetOrdering(S)
    <3> HIDE DEF T
    <3> QED BY <2>1, <2>2, WFMin
  <2>4. PICK u \in U : TRUE
      BY <2>3
  <2>5. <<U \ {u}, U>> \in StrictSubsetOrdering(S)
      BY <2>3, <2>4 DEF StrictSubsetOrdering
  <2>6. U \ {u} \notin T
      BY <2>3, <2>5
  <2>7. CASE U \ {u} = {}
    <3>1. \A s \in U : u >= s
        BY <2>3, <2>4, <2>7
    <3> QED BY <3>1, <2>3, <2>4
  <2>8. CASE U \ {u} # {}
    <3>1. PICK x \in U \ {u} : \A s \in U \ {u} : x >= s
        BY <2>3, <2>6, <2>8
    <3>2. CASE x >= u
      <4>1. \A s \in U : x >= s
          BY <3>1, <3>2
      <4> QED BY <4>1, <3>1, <2>3
    <3>3. CASE ~(x >= u)
      <4>1. \A s \in U : u >= s
          BY <2>3, <2>4, <3>1, <3>3
      <4> QED BY <4>1, <2>4, <2>3
    <3> QED BY <3>2, <3>3
  <2> QED BY <2>7, <2>8
<1> QED BY <1>1 DEF Max

\* The end of the trace is at or after each of its records.
LEMMA TraceEndBound ==
    ASSUME TypeOK
    PROVE  /\ TraceEnd(trace) \in Nat
           /\ \A k \in Keys : \A n \in DOMAIN trace[k] : trace[k][n].time <= TraceEnd(trace)
<1> DEFINE times(k) == {trace[k][n].time : n \in DOMAIN trace[k]}
           all == {times(k) : k \in Keys}
           S == {0} \cup UNION all
<1>1. \A k \in Keys : trace[k] \in Seq(Record)
    BY DEF TypeOK
<1>2. ASSUME NEW k \in Keys PROVE IsFiniteSet(times(k)) /\ times(k) \subseteq Nat
  <2> DEFINE f == [n \in 1..Len(trace[k]) |-> trace[k][n].time]
  <2>1. DOMAIN trace[k] = 1..Len(trace[k]) /\ Len(trace[k]) \in Nat
      BY <1>1, TimesNat
  <2>2. f \in Surjection(1..Len(trace[k]), times(k))
      BY <2>1 DEF Surjection
  <2>3. IsFiniteSet(1..Len(trace[k]))
    <3>1. 1 \in Int /\ Len(trace[k]) \in Int
        BY <2>1
    <3> QED BY <3>1, FS_Interval
  <2>4. times(k) \subseteq Nat
      BY <1>1, TimesNat
  <2> HIDE DEF f, times
  <2> QED BY <2>2, <2>3, <2>4, FS_Surjection
<1> HIDE DEF times
<1>3. IsFiniteSet(all)
  <2> DEFINE f == [k \in Keys |-> times(k)]
  <2>1. f \in Surjection(Keys, all)
      BY DEF Surjection
  <2> HIDE DEF f, all
  <2> QED BY <2>1, LearnedShardAssumption, FS_Surjection
<1>4. \A T \in all : IsFiniteSet(T) /\ T \subseteq Nat
    BY <1>2
<1> HIDE DEF all
<1>5. IsFiniteSet(UNION all)
    BY <1>3, <1>4, FS_UNION
<1>6. IsFiniteSet(S)
    BY <1>5, FS_Singleton, FS_Union
<1>7. S \in SUBSET Int /\ S # {} /\ S \subseteq Nat
    BY <1>4
<1>8. Max(S) \in S /\ \A t \in S : Max(S) >= t
    BY <1>6, <1>7, MaxExists
<1>9. TraceEnd(trace) = Max(S)
    BY DEF TraceEnd, all, times
<1>10. ASSUME NEW k \in Keys, NEW n \in DOMAIN trace[k]
       PROVE  trace[k][n].time \in S
    BY DEF all, times
<1> HIDE DEF S
<1>11. \A k \in Keys : \A n \in DOMAIN trace[k] : trace[k][n].time \in Nat
    BY <1>1, TimesNat
<1> QED BY <1>7, <1>8, <1>9, <1>10, <1>11

\* A record that is later than the others is sorted last and moves none of them.
LEMMA SortedAppend ==
    ASSUME NEW recs \in Seq(Record), NEW r \in Record,
           \A n \in 1..Len(recs) : recs[n].time < r.time
    PROVE  /\ \A i \in 1..Len(recs) : Sorted(Append(recs, r))[i] = Sorted(recs)[i]
           /\ Sorted(Append(recs, r))[Len(recs) + 1] = r
<1> DEFINE new == Append(recs, r)
           N == Len(recs)
<1>1. /\ new \in Seq(Record) /\ Len(new) = N + 1 /\ new[N + 1] = r
      /\ \A n \in 1..N : new[n] = recs[n]
    OBVIOUS
<1>2. N \in Nat /\ \A n \in 1..N : recs[n].time \in Nat
    BY TimesNat
<1>3. DOMAIN new = 1..(N + 1) /\ DOMAIN recs = 1..N /\ r.time \in Nat
    BY TimesNat, <1>1 DEF Record
<1> HIDE DEF new
<1>4. ASSUME NEW n \in 1..N PROVE Rank(new, n) = Rank(recs, n)
  <2>1. ~Before(new, N + 1, n)
      BY <1>1, <1>2, <1>3 DEF Before
  <2>2. \A a \in 1..N : Before(new, a, n) <=> Before(recs, a, n)
      BY <1>1 DEF Before
  <2>3. Earlier(new, n) = Earlier(recs, n)
      BY <1>2, <1>3, <2>1, <2>2 DEF Earlier
  <2> QED BY <2>3 DEF Rank, Earlier
<1>5. Rank(new, N + 1) = N + 1
  <2>1. \A a \in 1..N : Before(new, a, N + 1)
      BY <1>1, <1>2, <1>3 DEF Before
  <2>2. ~Before(new, N + 1, N + 1)
      BY <1>1, <1>2, <1>3 DEF Before
  <2>3. Earlier(new, N + 1) = 1..N
      BY <1>2, <1>3, <2>1, <2>2 DEF Earlier
  <2>4. Cardinality(1..N) = N
    <3>1. 1 \in Int /\ N \in Int
        BY <1>2
    <3>2. Cardinality(1..N) = IF 1 > N THEN 0 ELSE N - 1 + 1
        BY <3>1, FS_Interval
    <3> QED BY <1>2, <3>2
  <2> QED BY <2>3, <2>4 DEF Rank, Earlier
<1>6. ASSUME NEW i \in 1..N PROVE Sorted(new)[i] = Sorted(recs)[i]
  <2>1. PICK n \in 1..N : Rank(recs, n) = i
      BY RankSurjective
  <2>2. Sorted(recs)[i] = recs[n]
      BY <2>1, SortedAt
  <2>3. n \in 1..Len(new) /\ Rank(new, n) = i
      BY <1>1, <1>2, <1>4, <2>1
  <2>4. Sorted(new)[i] = new[n]
      BY <1>1, <2>3, SortedAt
  <2> QED BY <1>1, <2>2, <2>4
<1>7. Sorted(new)[N + 1] = r
  <2>1. N + 1 \in 1..Len(new)
      BY <1>1, <1>2
  <2> QED BY <1>1, <1>5, <2>1, SortedAt
<1> QED BY <1>6, <1>7 DEF new

\* What a kept row's label says does not change when a later record is appended.
LEMMA LabelStands ==
    ASSUME NEW recs \in Seq(Record), NEW r \in Record, NEW end \in Nat, r.time > end,
           \A n \in 1..Len(recs) : recs[n].time <= end,
           NEW i \in 1..Len(recs), NEW delta \in Offsets(Sorted(recs), i),
           Keep(Sorted(recs), i, delta, end)
    PROVE  /\ delta \in Offsets(Sorted(Append(recs, r)), i)
           /\ Beyond(Sorted(Append(recs, r)), i, delta) = Beyond(Sorted(recs), i, delta)
<1> DEFINE N == Len(recs)
           old == Sorted(recs)
           new == Sorted(Append(recs, r))
<1>1. N \in Nat /\ r.time \in Nat /\ \A n \in 1..N : recs[n].time \in Nat /\ recs[n].time < r.time
    BY TimesNat DEF Record
<1>2. (\A n \in 1..N : new[n] = old[n]) /\ new[N + 1] = r
    BY <1>1, SortedAppend
<1>3. Len(old) = N /\ old \in Seq(Record)
    BY SortedSeq
<1>4. Len(new) = N + 1
  <2>1. Append(recs, r) \in Seq(Record) /\ Len(Append(recs, r)) = N + 1
      OBVIOUS
  <2> QED BY <2>1, SortedSeq
<1>5. \A n \in 1..N : old[n].time \in Nat
    BY <1>3, TimesNat
<1>6. MaxRecency \in Nat \ {0} /\ Boundary \in Nat \ {0}
    BY LearnedShardAssumption
<1> HIDE DEF N, old, new
<1>7. ~Censored(new, i)
    BY <1>1, <1>4 DEF Censored, N
<1>8. CASE i # N
  <2>1. i \in 1..N /\ i + 1 \in 1..N
      BY <1>1, <1>8 DEF N
  <2>2. ~Censored(old, i)
      BY <1>3, <1>8 DEF Censored
  <2>3. new[i] = old[i] /\ new[i + 1] = old[i + 1]
      BY <1>2, <2>1
  <2>4. Offsets(new, i) = Offsets(old, i)
      BY <1>7, <2>2, <2>3 DEF Offsets
  <2>5. Beyond(new, i, delta) = Beyond(old, i, delta)
      BY <1>7, <2>2, <2>3 DEF Beyond
  <2> QED BY <2>4, <2>5 DEF old, new
<1>9. CASE i = N
  <2>1. Censored(old, i)
      BY <1>3, <1>9 DEF Censored
  <2>2. i \in 1..N /\ new[i] = old[i] /\ old[i].time \in Nat /\ new[i + 1].time = r.time
      BY <1>2, <1>5, <1>9 DEF N
  <2> DEFINE gap == r.time - old[i].time
             span == IF gap <= MaxRecency THEN gap ELSE MaxRecency
  <2>3. Offsets(old, i) = 0..(MaxRecency - 1)
    <3>1. Max({MaxRecency, 1}) = MaxRecency
        BY <1>6, MaxPair
    <3> QED BY <2>1, <3>1 DEF Offsets
  <2>4. delta \in 0..(MaxRecency - 1)
      BY <2>3 DEF old
  <2>5. old[i].time + delta + Boundary <= end
      BY <2>1 DEF Keep, old
  <2>6. delta + Boundary < gap /\ gap \in Nat
    <3>1. ASSUME NEW a \in Nat, NEW b \in Nat, NEW d \in Nat, a + d + Boundary <= end, b > end
          PROVE  d + Boundary < b - a /\ b - a \in Nat
        BY <1>6, <3>1
    <3>2. delta \in Nat
        BY <1>6, <2>4
    <3> QED BY <1>1, <2>2, <2>5, <3>1, <3>2
  <2>7. Min({gap, MaxRecency}) = span
      BY <1>6, <2>6, MinIs
  <2>8. span \in Nat /\ span >= 1 /\ delta < span
      BY <1>6, <2>4, <2>6
  <2>9. Offsets(new, i) = 0..(Max({span, 1}) - 1)
      BY <1>7, <2>2, <2>7 DEF Offsets
  <2> HIDE DEF span
  <2>10. Max({span, 1}) = span
      BY <2>8, MaxPair
  <2>11. delta \in Offsets(new, i)
      BY <2>4, <2>8, <2>9, <2>10
  <2>12. Beyond(old, i, delta) = TRUE
      BY <2>1 DEF Beyond
  <2>13. gap - delta > Boundary
      BY <1>6, <2>4, <2>6
  <2>14. Beyond(new, i, delta) = TRUE
      BY <1>7, <2>2, <2>13 DEF Beyond
  <2> QED BY <2>11, <2>12, <2>14 DEF old, new
<1> QED BY <1>8, <1>9

\* A step appends at most one record to a key's part of the trace.
LEMMA TraceStep ==
    ASSUME TypeOK, [Next]_vars, NEW k \in Keys
    PROVE  trace'[k] = trace[k] \/ \E r \in Record : trace'[k] = Append(trace[k], r)
<1>0. trace \in [Keys -> Seq(Record)] /\ pending \in Request \cup {None}
    BY DEF TypeOK
<1>1. ASSUME NEW j \in Keys, NEW now \in Nat, NEW size \in Nat, NEW hit \in BOOLEAN,
             record(j, now, size, hit)
      PROVE  trace'[k] = trace[k] \/ \E r \in Record : trace'[k] = Append(trace[k], r)
  <2> DEFINE r == [time |-> now, size |-> size, hit |-> hit]
  <2>1. r \in Record /\ (trace' = [trace EXCEPT ![j] = Append(trace[j], r)] \/ trace' = trace)
      BY <1>1, Recorded
  <2> HIDE DEF r
  <2> QED BY <1>0, <2>1
<1>2. ASSUME NEW j \in Keys, NEW now \in Nows, GetHit(j, now)
      PROVE  trace'[k] = trace[k] \/ \E r \in Record : trace'[k] = Append(trace[k], r)
  <2>1. j \in Resident /\ now \in Nat /\ record(j, now, m[j].size, TRUE)
      BY <1>2, NowNat DEF GetHit
  <2>2. m[j].size \in Nat
      BY <2>1, ResidentEntry DEF Entry
  <2> QED BY <1>1, <2>1, <2>2
<1>3. CASE Admit
  <2>1. pending.key \in Keys /\ pending.size \in Nat /\ pending.now \in Nat
      BY <1>0, <1>3 DEF Admit, Request
  <2>2. record(pending.key, pending.now, pending.size, FALSE)
      BY <1>3 DEF Admit
  <2> QED BY <1>1, <2>1, <2>2
<1>4. CASE UNCHANGED trace
    BY <1>4
<1> QED
    BY <1>2, <1>3, <1>4
    DEF Next, vars, GetExpired, Delete, InsertOversize, InsertBegin, EvictOne, GiveUp, Store, Tick

\* A row the trainer keeps has the label that any longer trace gives it, if the records
\* to come are later than the trace's end.
THEOREM LabelsFinalHolds == Spec => LabelsFinal
<1> DEFINE Final ==
      \A k \in Keys :
         (trace'[k] # trace[k] /\ trace'[k][Len(trace'[k])].time > TraceEnd(trace)) =>
             LET old == Sorted(trace[k])
                 new == Sorted(trace'[k])
             IN  \A n \in DOMAIN old : \A delta \in Offsets(old, n) :
                     Keep(old, n, delta, TraceEnd(trace)) =>
                         /\ delta \in Offsets(new, n)
                         /\ Beyond(new, n, delta) = Beyond(old, n, delta)
<1>1. ASSUME Inv, [Next]_vars PROVE [Final]_trace
  <2> SUFFICES ASSUME NEW k \in Keys, trace'[k] # trace[k],
                      trace'[k][Len(trace'[k])].time > TraceEnd(trace),
                      NEW n \in DOMAIN Sorted(trace[k]),
                      NEW delta \in Offsets(Sorted(trace[k]), n),
                      Keep(Sorted(trace[k]), n, delta, TraceEnd(trace))
               PROVE  /\ delta \in Offsets(Sorted(trace'[k]), n)
                      /\ Beyond(Sorted(trace'[k]), n, delta) = Beyond(Sorted(trace[k]), n, delta)
      BY Zenon
  <2>1. TypeOK
      BY <1>1 DEF Inv
  <2>2. PICK r \in Record : trace'[k] = Append(trace[k], r)
      BY <1>1, <2>1, TraceStep
  <2>3. trace[k] \in Seq(Record)
      BY <2>1 DEF TypeOK
  <2>4. r.time > TraceEnd(trace)
    <3>1. trace'[k][Len(trace'[k])] = r
        BY <2>2, <2>3
    <3> QED BY <3>1
  <2>5. TraceEnd(trace) \in Nat /\ \A i \in 1..Len(trace[k]) : trace[k][i].time <= TraceEnd(trace)
      BY <2>1, <2>3, TraceEndBound, TimesNat
  <2>6. n \in 1..Len(trace[k])
      BY <2>3, SortedSeq
  <2> QED BY <2>2, <2>3, <2>4, <2>5, <2>6, LabelStands
<1>2. Spec => [][Final]_trace
    BY <1>1, LearnedShardInvariant, PTL DEF Spec
<1> QED BY <1>2 DEF LabelsFinal

-----------------------------------------------------------------------------
(* An insert that does not fit finds a victim, if it looks for one.         *)

\* A finite set has a subset of each size up to its own.
LEMMA SubsetOfSize ==
    ASSUME NEW S, IsFiniteSet(S), NEW n \in 0..Cardinality(S)
    PROVE  \E U \in SUBSET S : Cardinality(U) = n
<1>1. Cardinality(S) \in Nat
    BY FS_CardinalityType
<1>2. PICK f \in Bijection(1..Cardinality(S), S) : TRUE
    BY FS_CardinalityType DEF ExistsBijection
<1> DEFINE U == {f[i] : i \in 1..n}
           h == [i \in 1..n |-> f[i]]
<1>3. 1..n \subseteq 1..Cardinality(S) /\ n \in Nat
    BY <1>1
<1>4. /\ f \in [1..Cardinality(S) -> S]
      /\ \A i, j \in 1..Cardinality(S) : f[i] = f[j] => i = j
    BY <1>2 DEF Bijection, Injection, IsInjective
<1>5. U \in SUBSET S
    BY <1>3, <1>4
<1>6. h \in Bijection(1..n, U)
  <2>1. h \in [1..n -> U]
      OBVIOUS
  <2>2. \A i, j \in 1..n : h[i] = h[j] => i = j
      BY <1>3, <1>4
  <2>3. \A u \in U : \E i \in 1..n : h[i] = u
      OBVIOUS
  <2> HIDE DEF h, U
  <2> QED BY <2>1, <2>2, <2>3 DEF Bijection, Injection, IsInjective, Surjection
<1>7. IsFiniteSet(1..n) /\ Cardinality(1..n) = n
    BY <1>3, FS_Interval
<1>8. Cardinality(U) = n
    BY <1>6, <1>7, FS_Bijection DEF ExistsBijection
<1> QED BY <1>5, <1>8

\* Of some keys, one has the least of a number each has.
LEMMA SomeLeast ==
    ASSUME NEW S, IsFiniteSet(S), S # {}, NEW v \in [S -> Nat]
    PROVE  {k \in S : \A j \in S : v[k] <= v[j]} # {}
<1> DEFINE T == {0 - v[k] : k \in S}
<1>1. \A k \in S : v[k] \in Nat
    OBVIOUS
<1>2. T \in SUBSET Int /\ T # {}
    BY <1>1
<1>3. IsFiniteSet(T)
  <2> DEFINE g == [k \in S |-> 0 - v[k]]
  <2>1. g \in Surjection(S, T)
      BY DEF Surjection
  <2> QED BY <2>1, FS_Surjection
<1>4. Max(T) \in T /\ \A t \in T : Max(T) >= t
    BY <1>2, <1>3, MaxExists
<1>5. PICK k \in S : Max(T) = 0 - v[k]
    BY <1>4
<1>6. \A j \in S : v[k] <= v[j]
  <2> SUFFICES ASSUME NEW j \in S PROVE v[k] <= v[j]
      OBVIOUS
  <2>1. 0 - v[k] >= 0 - v[j]
    <3>1. 0 - v[j] \in T
        OBVIOUS
    <3> HIDE DEF T
    <3> QED BY <1>4, <1>5, <3>1
  <2> QED BY <1>1, <2>1
<1> QED BY <1>6

\* The resident bytes are the count.
LEMMA BytesAre ==
    ASSUME TypeOK
    PROVE  Bytes = Count(SizeOf, Keys)
<1>1. PICK f, a : f = SizeOf /\ a = m
    OBVIOUS
<1>2. f \in [Keys -> Nat] /\ Resident \in SUBSET Keys
    BY <1>1, SizesNat DEF Resident
<1>3. \A k \in Resident : a[k].size = f[k]
    BY <1>1 DEF SizeOf, Resident
<1>4. MapThenSumSet(LAMBDA k : a[k].size, Resident) = Count(f, Resident)
    BY <1>2, <1>3, SumIsCount
<1>5. Bytes = Count(f, Resident)
    BY <1>1, <1>4 DEF Bytes
<1>6. Units(f, Keys) = Units(f, Resident)
  <2>1. \A k \in Keys \ Resident : f[k] = 0
      BY <1>1 DEF SizeOf, Resident
  <2> QED BY <1>2, <2>1 DEF Units
<1> QED BY <1>1, <1>5, <1>6 DEF Count

LEMMA VictimThere ==
    ASSUME Inv, pending # None, ~Fits, Visits > 0
    PROVE  Victims # {}
<1>0. TypeOK /\ PendingOK /\ BytesOK
    BY DEF Inv
<1>1. pending.size \in Nat /\ pending.size <= Capacity /\ Capacity \in Nat
    BY <1>0, LearnedShardAssumption DEF TypeOK, PendingOK, Request
<1>2. Resident # {}
  <2> SUFFICES ASSUME Resident = {} PROVE FALSE
      OBVIOUS
  <2>1. \A k \in Keys : SizeOf[k] = 0
      BY DEF SizeOf, Resident
  <2>2. Units(SizeOf, Keys) = {}
      BY <2>1 DEF Units
  <2>3. used = 0
      BY <1>0, <2>2, FS_EmptySet DEF BytesOK, Count
  <2> QED BY <1>1, <2>3 DEF Fits
<1>3. IsFiniteSet(Resident)
    BY LearnedShardAssumption, FS_Subset DEF Resident
<1>4. Cardinality(Resident) \in Nat \ {0} /\ Visits \in Nat \ {0} /\ Clip(Visits) = Visits
  <2>1. Visits \in Int
      BY <1>0, LearnedShardAssumption DEF Visits, TypeOK, Setup
  <2> QED BY <1>2, <1>3, <2>1, FS_CardinalityType, FS_EmptySet DEF Clip
<1> DEFINE n == Min({Clip(Visits), Cardinality(Resident)})
<1>5. n \in 1..Cardinality(Resident)
  <2>1. n = IF Visits <= Cardinality(Resident) THEN Visits ELSE Cardinality(Resident)
      BY <1>4, MinIs
  <2> QED BY <1>4, <2>1
<1> HIDE DEF n
<1>6. PICK S \in SUBSET Resident : Cardinality(S) = n
    BY <1>3, <1>4, <1>5, SubsetOfSize
<1>7. S \in Samples
    BY <1>6 DEF Samples, kSubset, n
<1>8. IsFiniteSet(S) /\ S # {}
    BY <1>3, <1>4, <1>5, <1>6, FS_Subset, FS_EmptySet
<1>9. Worst(S) # {}
  <2>1. \A k \in S : m[k].lastAccess \in Nat /\ m[k].accesses \in Nat
      BY <1>0, ResidentEntry DEF Entry
  <2>2. LongestIdle(S) # {} /\ LeastUsed(S) # {}
    <3> DEFINE idle == [k \in S |-> m[k].lastAccess]
               uses == [k \in S |-> m[k].accesses]
    <3>1. idle \in [S -> Nat] /\ uses \in [S -> Nat]
        BY <2>1
    <3>2. LongestIdle(S) = {k \in S : \A j \in S : idle[k] <= idle[j]}
        BY DEF LongestIdle
    <3>3. LeastUsed(S) = {k \in S : \A j \in S : uses[k] <= uses[j]}
        BY DEF LeastUsed
    <3> HIDE DEF idle, uses
    <3> QED BY <1>8, <3>1, <3>2, <3>3, SomeLeast
  <2> QED BY <1>8, <2>2 DEF Worst
<1> QED BY <1>7, <1>9 DEF Victims

\* An insert of an object that fits an empty shard makes room for it, whatever the
\* policy, the history and the bytes it finds, unless the policy was told to look at no
\* candidate; and the resident bytes never exceed the shard's capacity.
THEOREM RoomIsMadeHolds == Spec => RoomIsMade
<1> DEFINE Room == pending # None /\ pending' = None /\ pending.key \notin Resident' => Visits <= 0
<1>1. Inv => Bytes <= Capacity
    BY BytesAre DEF Inv, BytesOK
<1>2. ASSUME Inv, [Next]_vars PROVE [Room]_vars
  <2> SUFFICES ASSUME pending # None, pending' = None, pending.key \notin Resident' PROVE Visits <= 0
      OBVIOUS
  <2>0. TypeOK /\ m \in [Keys -> Entry \cup {None}] /\ pending \in Request /\ Visits \in Int
      BY <1>2, LearnedShardAssumption DEF Inv, TypeOK, Visits, Setup
  <2>1. ~Admit
    <3> SUFFICES ASSUME Admit PROVE FALSE
        OBVIOUS
    <3>1. /\ pending.key \in Keys /\ pending.size \in Nat /\ pending.now \in Nat
          /\ pending.expires \in Nat
        BY <2>0 DEF Request
    <3>2. m'[pending.key] = NewEntry(pending.size, pending.now, pending.expires)
        BY <2>0, <3>1 DEF Admit
    <3> QED BY <3>1, <3>2, Fresh, NotNone DEF Resident
  <2>2. GiveUp
      BY <1>2, <2>1
      DEF Next, vars, GetHit, GetExpired, Delete, InsertOversize, InsertBegin, EvictOne, Store, Tick
  <2> QED BY <1>2, <2>0, <2>2, VictimThere DEF GiveUp
<1>3. Spec => []Inv /\ [][Next]_vars
    BY LearnedShardInvariant DEF Spec
<1>4. Spec => [](Bytes <= Capacity)
    BY <1>1, <1>3, PTL
<1>5. Spec => [][Room]_vars
    BY <1>2, <1>3, PTL
<1> QED BY <1>4, <1>5 DEF RoomIsMade
=============================================================================
