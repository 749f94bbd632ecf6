---------------------------- MODULE LearnedShard ----------------------------
(***************************************************************************)
(* A shard whose policy samples candidates and scores them (policy.go,     *)
(* lrb.go), the history every entry keeps (entry.go), the access trace the *)
(* shard writes, and the trainer's reconstruction of that history from the *)
(* trace (samples.py). The model a node evicts by was fitted to the second *)
(* history and is applied to the first.                                    *)
(*                                                                         *)
(* The shard's lock makes an operation atomic, but the clock is read       *)
(* before the lock is taken: an operation's nowUS lies up to MaxSkew       *)
(* behind the clock, and operations need not run in the order of theirs.   *)
(* What a model answers is abstracted (TreeModel): with a model installed  *)
(* any sampled candidate may have the highest score.                       *)
(***************************************************************************)
EXTENDS Integers, Sequences, FiniteSets, FiniteSetsExt

CONSTANTS
    Keys, None,
    Sizes, Capacity,
    TTLs, DefaultTTL,  \* a TTL of 0 is no TTL
    Setups,            \* CACHE_POLICY with CACHE_SAMPLE_SIZE, any number
    DefaultSample,     \* what NewLRB looks at if told to look at none (8)
    HistoryLen,        \* gaps an entry remembers (8)
    PerMS,             \* microseconds in a millisecond (1000)
    MaxDelta,          \* the largest gap a uint32 of milliseconds holds
    Boundary,          \* the Relaxed Belady boundary, in microseconds
    MaxRecency,        \* the trainer's bound on a snapshot's idleness
    MaxTime, MaxSkew, MaxRecords, MaxDrops

Entry ==
    [size : Nat, lastAccess : Nat, admitted : Nat, expires : Nat,
     deltas : [1..HistoryLen -> Nat], accesses : Nat, freq : 0..3]
Request == [key : Keys, size : Nat, now : Nat, expires : Nat]
Setup == [policy : {"lru", "lfu", "lrb"}, sample : Int]

ASSUME LearnedShardAssumption ==
    /\ IsFiniteSet(Keys)
    /\ Sizes \subseteq Nat /\ Capacity \in Nat \ {0}
    /\ TTLs \subseteq Nat /\ DefaultTTL \in Nat
    /\ Setups \subseteq Setup
    /\ {DefaultSample, HistoryLen, PerMS, MaxDelta, Boundary, MaxRecency} \subseteq Nat \ {0}
    /\ {MaxTime, MaxSkew, MaxRecords, MaxDrops} \subseteq Nat
    /\ None \notin Entry \cup Request

VARIABLES
    setup,     \* what the node was started with
    m,         \* the shard's entries, by key
    used,      \* shard.used, kept as entries come and go
    pending,   \* the insert that holds the lock while it evicts, or None
    installed, \* ModelHolder: is there a model?
    trace,     \* per key, its records in the order the ring took them
    drops,     \* records the ring refused
    lost,      \* history: keys with a refused record since their last admission
    clock      \* microseconds

vars == <<setup, m, used, pending, installed, trace, drops, lost, clock>>

Resident == {k \in Keys : m[k] # None}
Bytes == MapThenSumSet(LAMBDA k : m[k].size, Resident)

\* The time an operation may have read before it got the lock.
Nows == {t \in (clock - MaxSkew)..clock : t >= 1}

Clip(x) == IF x < 0 THEN 0 ELSE x

-----------------------------------------------------------------------------
(* Entries.                                                                *)

NewEntry(size, now, expires) ==
    [size |-> size, lastAccess |-> now, admitted |-> now, expires |-> expires,
     deltas |-> [j \in 1..HistoryLen |-> 0], accesses |-> 1, freq |-> 1]

\* touch: fold an access into the history, newest gap first.
touch(e, now) ==
    [e EXCEPT !.deltas = [j \in 1..HistoryLen |->
                             IF j = 1 THEN Min({Clip(now - e.lastAccess) \div PerMS, MaxDelta})
                                      ELSE @[j - 1]],
              !.lastAccess = now, !.accesses = @ + 1, !.freq = Min({@ + 1, 3})]

expired(e, now) == e.expires # 0 /\ now >= e.expires

deadline(now, ttl) ==
    LET d == IF ttl = 0 THEN DefaultTTL ELSE ttl
    IN  IF d = 0 THEN 0 ELSE now + d

\* Extract: the columns a candidate is scored on. The reuse rate is a function
\* of the pair that stands for it.
Extract(e, now) ==
    [size |-> e.size, recency |-> Clip(now - e.lastAccess) \div PerMS,
     age |-> Clip(now - e.admitted) \div PerMS, accesses |-> e.accesses, freq |-> e.freq,
     rate |-> <<e.accesses, Clip(now - e.admitted)>>, deltas |-> e.deltas]

-----------------------------------------------------------------------------
(* Operations.                                                             *)

Init ==
    /\ setup \in Setups
    /\ m = [k \in Keys |-> None] /\ used = 0 /\ pending = None /\ installed = FALSE
    /\ trace = [k \in Keys |-> <<>>] /\ drops = 0 /\ lost = {}
    /\ clock = 1

\* The bounds leave room for one more record or one more drop.
Bounded == MapThenSumSet(LAMBDA j : Len(trace[j]), Keys) < MaxRecords \/ drops < MaxDrops

\* record: the ring takes the record or, when it is full, drops it. Damage to a
\* key's history lasts until an admission of the key is recorded.
record(k, now, size, hit) ==
    \/ /\ MapThenSumSet(LAMBDA j : Len(trace[j]), Keys) < MaxRecords
       /\ trace' = [trace EXCEPT ![k] = Append(@, [time |-> now, size |-> size, hit |-> hit])]
       /\ lost' = IF hit THEN lost ELSE lost \ {k}
       /\ UNCHANGED drops
    \/ /\ drops < MaxDrops
       /\ drops' = drops + 1 /\ lost' = lost \cup {k}
       /\ UNCHANGED trace

\* drop: an entry leaves the map and the byte count.
drop(k) == m' = [m EXCEPT ![k] = None] /\ used' = used - m[k].size

\* get of a live entry. A miss only counts; what follows it is an Insert.
GetHit(k, now) ==
    /\ pending = None /\ k \in Resident /\ ~expired(m[k], now)
    /\ m' = [m EXCEPT ![k] = touch(@, now)]
    /\ record(k, now, m[k].size, TRUE)
    /\ UNCHANGED <<setup, used, pending, installed, clock>>

\* get of an expired entry: dropped without a record, then a miss.
GetExpired(k, now) ==
    /\ pending = None /\ k \in Resident /\ expired(m[k], now)
    /\ drop(k)
    /\ UNCHANGED <<setup, pending, installed, trace, drops, lost, clock>>

Delete(k) ==
    /\ pending = None /\ k \in Resident
    /\ drop(k)
    /\ UNCHANGED <<setup, pending, installed, trace, drops, lost, clock>>

\* insert of a value that can never fit: refused, and an older value stays.
InsertOversize(k, size) ==
    /\ pending = None /\ size > Capacity
    /\ UNCHANGED vars

\* Mutant: the overwritten entry's bytes stay counted.
OverwriteUncounted(k, size, now, ttl) ==
    /\ pending = None /\ size <= Capacity /\ Bounded
    /\ m' = [m EXCEPT ![k] = None]
    /\ pending' = [key |-> k, size |-> size, now |-> now, expires |-> deadline(now, ttl)]
    /\ UNCHANGED <<setup, used, installed, trace, drops, lost, clock>>

\* insert (Admit after a miss, or a client's Put): the key's old entry goes first.
InsertBegin(k, size, now, ttl) ==
    /\ pending = None /\ size <= Capacity /\ Bounded
    /\ IF k \in Resident THEN drop(k) ELSE UNCHANGED <<m, used>>
    /\ pending' = [key |-> k, size |-> size, now |-> now, expires |-> deadline(now, ttl)]
    /\ UNCHANGED <<setup, installed, trace, drops, lost, clock>>

\* How many candidates the policy looks at. NewLRU and NewLFU take the configured
\* number as it is; NewLRB puts a default in place of none.
Visits ==
    IF setup.policy = "lrb" /\ setup.sample <= 0 THEN DefaultSample ELSE setup.sample

\* Sample: a map iterated from a random place shows any few entries, and none at all
\* to a policy that asks for none.
Samples == kSubset(Min({Clip(Visits), Cardinality(Resident)}), Resident)

LongestIdle(S) == {k \in S : \A j \in S : m[k].lastAccess <= m[j].lastAccess}
LeastUsed(S) == {k \in S : \A j \in S : m[k].accesses <= m[j].accesses}

\* The highest score of a sample: an LFU's, an LRU's, which is also LRB's until a
\* model is installed, or a model's, whichever that is.
Worst(S) ==
    IF installed THEN S
    ELSE IF setup.policy = "lfu" THEN LeastUsed(S) ELSE LongestIdle(S)

Victims == UNION {Worst(S) : S \in Samples}

\* The negation of the condition of insert's eviction loop.
Fits == used + pending.size <= Capacity

\* One turn of insert's loop in which evictOne drops a victim. The model is loaded
\* once per victim.
EvictOne ==
    /\ pending # None /\ ~Fits
    /\ \E v \in Victims : drop(v)
    /\ UNCHANGED <<setup, pending, installed, trace, drops, lost, clock>>

\* evictOne has no victim and insert gives up: rejected, the key's old entry gone.
GiveUp ==
    /\ pending # None /\ ~Fits /\ Victims = {}
    /\ pending' = None
    /\ UNCHANGED <<setup, m, used, installed, trace, drops, lost, clock>>

\* Mutant: only admissions after a miss are traced, not a client's Put.
AdmitUntraced ==
    /\ pending # None /\ Fits
    /\ m' = [m EXCEPT ![pending.key] = NewEntry(pending.size, pending.now, pending.expires)]
    /\ used' = used + pending.size /\ pending' = None
    /\ \/ record(pending.key, pending.now, pending.size, FALSE)
       \/ UNCHANGED <<trace, drops, lost>>
    /\ UNCHANGED <<setup, installed, clock>>

\* The rest of insert: the entry starts over and the admission is recorded.
Admit ==
    /\ pending # None /\ Fits
    /\ m' = [m EXCEPT ![pending.key] = NewEntry(pending.size, pending.now, pending.expires)]
    /\ used' = used + pending.size /\ pending' = None
    /\ record(pending.key, pending.now, pending.size, FALSE)
    /\ UNCHANGED <<setup, installed, clock>>

\* ModelHolder.Store, by the Watcher, without the shard's lock. Only LRB has a holder.
Store ==
    /\ setup.policy = "lrb" /\ ~installed /\ installed' = TRUE
    /\ UNCHANGED <<setup, m, used, pending, trace, drops, lost, clock>>

Tick ==
    /\ clock < MaxTime /\ clock' = clock + 1
    /\ UNCHANGED <<setup, m, used, pending, installed, trace, drops, lost>>

Next ==
    \/ \E k \in Keys, now \in Nows : GetHit(k, now) \/ GetExpired(k, now)
    \/ \E k \in Keys : Delete(k)
    \/ \E k \in Keys, size \in Sizes : InsertOversize(k, size)
    \/ \E k \in Keys, size \in Sizes, now \in Nows, ttl \in TTLs : InsertBegin(k, size, now, ttl)
    \/ EvictOne \/ GiveUp \/ Admit \/ Store \/ Tick

Spec == Init /\ [][Next]_vars

-----------------------------------------------------------------------------
(* The trainer.                                                            *)

\* load and build sort a key's records by time, stably: a record comes after those
\* that are older, or as old and logged before it.
Before(recs, a, b) ==
    recs[a].time < recs[b].time \/ (recs[a].time = recs[b].time /\ a < b)
Rank(recs, n) == Cardinality({a \in DOMAIN recs : Before(recs, a, n)}) + 1
Sorted(recs) == [i \in DOMAIN recs |-> recs[CHOOSE n \in DOMAIN recs : Rank(recs, n) = i]]

\* A segment begins at a key's first record and at every miss.
NewSegment(recs, n) == n = 1 \/ ~recs[n].hit
SegStart(recs, n) == Max({j \in 1..n : NewSegment(recs, j)})

GapMS(recs, n) ==
    IF NewSegment(recs, n) THEN 0
    ELSE Min({(recs[n].time - recs[n - 1].time) \div PerMS, MaxDelta})

\* The columns of row n for a snapshot delta microseconds after its access.
Row(recs, n, delta) ==
    LET start == SegStart(recs, n)
        accesses == n - start + 1
        age == recs[n].time + delta - recs[start].time
    IN  [size |-> recs[n].size, recency |-> delta \div PerMS, age |-> age \div PerMS,
         accesses |-> accesses, freq |-> Min({accesses, 3}), rate |-> <<accesses, age>>,
         deltas |-> [j \in 1..HistoryLen |->
                        IF n - start >= j - 1 THEN GapMS(recs, n - (j - 1)) ELSE 0]]

Censored(recs, n) == n = Len(recs)

\* Mutant: a row without a next access is always labelled.
KeepAll(recs, n, delta, end) == TRUE

\* A row with no next access counts only when the trace goes on long enough.
Keep(recs, n, delta, end) ==
    \/ ~Censored(recs, n)
    \/ recs[n].time + delta + Boundary <= end

\* Is the next access further away than the boundary?
Beyond(recs, n, delta) ==
    Censored(recs, n) \/ recs[n + 1].time - recs[n].time - delta > Boundary

\* The offsets row n's snapshot may be drawn from.
Offsets(recs, n) ==
    LET span == IF Censored(recs, n) THEN MaxRecency
                ELSE Min({recs[n + 1].time - recs[n].time, MaxRecency})
    IN  0..(Max({span, 1}) - 1)

TraceEnd(tr) ==
    Max({0} \cup UNION {{tr[k][n].time : n \in DOMAIN tr[k]} : k \in Keys})

-----------------------------------------------------------------------------
(* Properties.                                                             *)

\* "An object that cannot fit even in an empty shard is never worth thrashing"
\* (shard.go:134): any other is stored, so insert gives up, which costs the key its
\* old value too, only under a policy that was told to look at no candidate. And the
\* resident bytes stay within the shard's capacity. Both need the count of the bytes
\* to be kept over hits, expiries, deletes, overwriting Puts and evictions.
RoomIsMade ==
    /\ [](Bytes <= Capacity)
    /\ [][pending # None /\ pending' = None /\ pending.key \notin Resident' =>
             Visits <= 0]_vars

\* The records since the key's last admission are complete, and neither they nor
\* any earlier one is out of the clock's order.
Healthy(k) ==
    /\ k \notin lost
    /\ LET recs == trace[k]
           start == Max({0} \cup {n \in DOMAIN recs : ~recs[n].hit})
       IN  \A b \in start..Len(recs), a \in 1..Len(recs) :
              1 <= b /\ a <= b => recs[a].time <= recs[b].time

\* "It has to be replayed to match internal/cache/entry.go exactly"
\* (samples.py:8): at every moment after a resident key's last access the model
\* is shown the columns that the trainer derives for that moment from the trace,
\* over evictions, expiries, deletes and overwriting Puts, none of which is
\* recorded as such. Dropped or reordered records do harm only until the next
\* recorded admission.
TrainedAsServed ==
    \A k \in Resident : Healthy(k) =>
        LET recs == Sorted(trace[k])
        IN  recs # <<>> /\ \A delta \in 0..MaxTime :
                Extract(m[k], m[k].lastAccess + delta) = Row(recs, Len(recs), delta)

\* "A label that says never used again would be an artefact of the trace window"
\* (samples.py:136): a label the trainer gives from the trace so far is the label
\* it gives from any longer trace, if the records to come are later ones.
LabelsFinal ==
    [][\A k \in Keys :
         (trace'[k] # trace[k] /\ trace'[k][Len(trace'[k])].time > TraceEnd(trace)) =>
             LET old == Sorted(trace[k])
                 new == Sorted(trace'[k])
             IN  \A n \in DOMAIN old : \A delta \in Offsets(old, n) :
                     Keep(old, n, delta, TraceEnd(trace)) =>
                         /\ delta \in Offsets(new, n)
                         /\ Beyond(new, n, delta) = Beyond(old, n, delta)]_trace
=============================================================================
