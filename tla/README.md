# Belady in TLA+

Belady is a distributed in-memory cache: a gateway routes keys to cache nodes
with bounded-load consistent hashing, a node serves hits from a sharded cache
and fetches misses from an origin, an offline trainer learns from the nodes'
access traces, and a registry hands the trained models back to the nodes.
This directory models its core in TLA+, checks the models with TLC and proves
with TLAPS, for all values of the constants, the safety properties and refinements
that TLC finds to hold on small ones.

    tlc -config MCS3FIFO.cfg MCS3FIFO      # one run; PROJECT.json lists them all
    tlapm S3FIFOProofs.tla                 # the proofs of a module

## The system

| component | state | operations | interacts with |
|---|---|---|---|
| shard + policy (`internal/cache`) | entry map, bytes used, the policy's queues | get, insert, remove, evictOne | cache node calls it under the shard's mutex; pushes to its trace ring |
| trace ring (`internal/trace/ring.go`) | slots, two cursors, a cached cursor, counters | Push (request path), Drain (recorder) | the shard and the recorder, without a lock |
| recorder and reader (`internal/trace/recorder.go`, `reader.go`) | open segment, counters, segment files | Run, drainAll, writeBatch, rotation; ReadFile, ReadDir | rings, files, the process's context; segments are read back by readers of the trace |
| cache node (`cmd/cachenode`) | the cache, singleflight group | Get, Put, Delete, Stats | origin, registry (through the Watcher), gateway |
| gateway (`cmd/gateway`, `internal/hashring`) | semaphore, per-node load, total | HTTP and gRPC Get, Put, Delete, Stats; forward, broadcast, Pick, Done | clients, cache nodes |
| registry (`internal/registry`) | version files, latest, changed channel | PublishModel, ListModels, WatchModels, GetModel | trainer, the nodes' Watchers |
| watcher (`internal/registry/watcher.go`) | a stream, the installed model | Run, watch, install, fetch | registry, LRB policy |
| sampled policies LRU, LFU, LRB; features; model evaluator | per-entry history, trees | Victim over a sample | shard, ModelHolder |
| load generator (`cmd/loadgen`), offline MIN (`internal/belady/min.go`) | samples, two counter snapshots; residents and a lazy heap | replay, delta, derive; MINHitRatioFrom | the gateway, as its client |
| trainer, origin | - | batch program, stub | traces, registry |

What is hard in it, and so what the properties are about:

- **queues that are never cleaned in place**: an S3-FIFO queue keeps the slots of
  entries that are gone, and generations tell live from stale;
- **counters kept incrementally in many places**: bytes used, bytes on probation,
  load per node, records written, lost and dropped;
- **lock-free code**: the ring's cursors, the hash ring's separate atomics, the
  registry's snapshot-and-channel wakeup;
- **failures between steps**: a registry crash between two renames, a power failure
  under files that were never synced, a failing disk under the recorder, a half
  written frame, a broadcast Delete that fails half way, a watch stream or a
  download that breaks under way, clients that give up and calls that arrive late;
- **answers that must mean something**: a 404 that the origin did not say, a 429 for
  a write that was stored all the same;
- **measurements**: counters that a restart resets under a window, and a ceiling that
  must not lie below what it bounds;
- **two histories of one key**: the node keeps one, the trainer rebuilds another from
  a trace with holes, and a model fitted to the second is applied to the first;
- **walks without checks**: Raw indexes flat arrays that a downloaded file filled;
- **shutdown**: the recorder and the RPC server stop on the same signal.

PROJECT.json lists each hazard at its line with the property that would catch it.

## Modules

| module | models | run by |
|---|---|---|
| `BoundedStore` | what a shard promises while its policy names victims | through `S3FIFO` |
| `S3FIFO` | shard.go with s3fifo.go | `MCS3FIFO` |
| `S3FIFOProofs` | theorems about `S3FIFO` | tlapm |
| `LearnedShard` | shard.go with the sampled policies LRU, LFU and LRB, entry.go, features.Extract, the trace, and the trainer's samples.py | `MCLearnedShard` |
| `LearnedShardProofs` | theorems about `LearnedShard` | tlapm |
| `TreeModel` | internal/model: Load, flush, checkShape, Raw, and ModelHolder.Store's check | `MCTreeModel` |
| `TreeModelProofs` | theorems about `TreeModel` | tlapm |
| `LossyQueue` | what a trace ring promises | through `TraceRing` |
| `TraceRing` | ring.go | `MCTraceRing` |
| `Recorder` | recorder.go, reader.go, and the node's shutdown | `MCRecorder` |
| `TraceProofs` | theorems about `TraceRing` and `Recorder` | tlapm |
| `ModelStream` | the framing of uploads and downloads: receive, validate | through `Registry` |
| `Registry` | extends `ModelStream` with the store, PublishModel and ListModels | through `ModelRollout` |
| `ModelRollout` | extends `Registry` with WatchModels, GetModel and the nodes' Watchers | `MCModelRollout` |
| `ModelRolloutProofs` | theorems about `ModelStream`, `Registry` and `ModelRollout` | tlapm |
| `Gateway` | admit, forward, route, broadcast, Pick, Done | `MCGateway` |
| `GatewayProofs` | theorems about `Gateway` | tlapm |
| `CacheNode` | a node's Get with singleflight, Put, Delete, for one key on every node | through `Cluster` |
| `Cluster` | extends `CacheNode` with the HTTP adapter, the gateway's slots and calls | `MCCluster` |
| `ClusterProofs` | theorems about `CacheNode` and `Cluster` | tlapm |
| `BeladyMin` | min.go | through `Loadgen` |
| `Loadgen` | extends `BeladyMin` with one run of the load generator and the nodes' counters | `MCLoadgen` |
| `LoadgenProofs` | theorems about `BeladyMin` and `Loadgen` | tlapm |

Each MC module only adds what a .cfg cannot write: symmetry sets, sequences and
(`MCTreeModel`, `MCModelRollout`, `MCLoadgen`) the files, uploads and traces.
Operators marked "Mutant" in a module are plausible bugs of the definition that
follows them. No specification uses them; each shows that one property can fail.

### BoundedStore

The part of shard.go that does not depend on a policy, seen from outside: a set of
resident objects with their sizes, and the insert that holds the lock. `Evict` may
take any object but only while the insert does not fit; `Begin` drops the key's old
object first, as insert does, and has no counterpart in which the insert gives up:
that evictOne can return false is in the code, and that it never does under S3-FIFO
is what the refinement shows. It can under a sampled policy, so LearnedShard has an
action for it and does not implement this store for every setup. Expiry and Delete
are both `Drop`.

### S3FIFO

A shard runs every operation under its mutex, so operations are atomic, except
that an insert which evicts is spread over one action per iteration of Victim
(`VictimSkip`, `VictimPromote`, `VictimReinsert`, `VictimReturn`): the state
between iterations is where the invariants are interesting. `m` is the shard's
map; an entry is its size and its saturating `freq`. `inS` and `inM` map a key to
the generation of its live slot, 0 for absent. Any resident entry may turn out to
be expired (`GetExpired`), because a client chooses the TTL. `OnAdmit`,
`rememberGhost`, `compact`, `drop` and `isLive` are the functions of the same
name. `compact`'s slack of 64 and the ghost target are constants. For the
refinement of `BoundedStore` the queues, generations and counters are hidden and
only `m` and the insert remain, so each turn of Victim that moves a slot is a
stutter.

### LearnedShard

The shard again, now with the history that `Entry.touch` keeps (gaps, newest first, in
whole milliseconds and saturating; access count; two-bit counter) and a policy that
scores a sample. `setup` is what newPolicy made of CACHE_POLICY and CACHE_SAMPLE_SIZE,
which may be any number: NewLRB puts a default in the place of none, NewLRU and NewLFU
do not (`Visits`), and Sample then shows no entry. The sample is any subset of the
right size, because Go starts a map iteration anywhere. Without a model the victim is
the longest idle of the sample (LRU, and LRB's fallback) or the one with the fewest
accesses (LFU); with one it is any member, since what a model answers is not the
shard's concern. insert's eviction loop is `EvictOne`, one turn that drops a victim,
and `GiveUp`, one that has none: the insert is rejected and the old value of its key
is already gone. `used` is the code's counter, kept by `drop` and `Admit`. `Store` may
come between two victims of one insert. An operation's time was read before the lock
was taken, so it lies up to `MaxSkew` behind the clock and times may run backwards.
`record` appends to the trace or drops. The trainer is the operators `Sorted`,
`SegStart`, `GapMS`, `Row`, `Keep`, `Beyond` and `Offsets`, the columns samples.py
computes with numpy, one row at a time. A stable sort is the order by `Rank`: a
record's rank is the number of records before it in time, or in the log at the same
time. The reuse rate is kept as the pair it is a quotient of.

### TreeModel

A file is any sequence of `max_feature_idx` lines (`Header`), of trees from the
constant `Trees`, well formed or not, and of lines that run refuses (`BadLine`): run
takes a key wherever it stands, and the last value counts. A tree is what the parser
holds when flush is called, with arrays of any length. `Flush` appends it to the flat
arrays as the function of that name does, `Refuse` is any of its errors, `Store` is
ModelHolder.Store's one comparison, and `RawNode`/`RawLeaf` walk. `RawPanics` is Go's
bounds check on nodes, leaves and the row of features. Thresholds are left out: a walk
may turn either way at a node. `local` follows the same turns in the file's own tree,
and `SameAsTheFile` compares the two; `widest` is the highest feature count that a tree
was checked against. The text of numbers is left out.

### TraceRing and LossyQueue

Push and Drain are cut at each load and store that the other side can observe:
the producer's check, the refresh of `cachedHead`, the slot's write, the store of
`tail`, the counter; the consumer's read of both cursors, each slot's copy, the
store of `head`. `accepted` and `delivered` are history variables, and the
refinement mapping to `LossyQueue` is the identity on them. The ring's names
(`RingInit`, `Accesses`, `DrainBatch`, `ringDrops`, ...) differ from the recorder's so
that `TraceProofs` can extend both modules. Cursors are naturals:
`CursorsOrdered` is why a wrap of the uint64 subtraction cannot be observed, and
2^64 pushes to one ring are out of reach.

### Recorder

A ring is a number of records (it is a lossy queue, by `TraceRing`). A segment file
is a sequence of frames, each with its batch's sequence number and its number of
records, and `Half` is what a short write leaves. `Write`, `WriteFails` and
`WriteTorn` are the outcomes of writeBatch; `CloseSegment` publishes or strands.
`ReadFile` and `ReadDir` are the reader (`ReadAll` folds ReadDir's pass over the
segments, `ReadNext` is one turn of it), and `ReadBack` compares what they return
with the recorder's own counters. `Shutdown` cancels the context that `Run` and
grpcx.Serve share, `ServeReturns` is the end of GracefulStop; handlers may record
until then.

### ModelStream, Registry and ModelRollout

A stream is a sequence of messages, a body a sequence of blocks, and a digest the body
itself in a one-element sequence. `Receive` folds receive's loop over what arrived;
the same operators take apart an upload in one step and a download one message at a
time, since GetModel reads the metadata file, then the model file, while publishes and
crashes go on. A publish is four steps (stat, model file, metadata file, visible); a
crash, a failing write or another publisher may come between any two. A rename is
atomic to the running machine; `PowerFailure` cuts a published model or its metadata
short or takes it away, since nothing is synced. Metadata that was cut in a field is
`Unreadable`; cut between two fields it decodes, to its first fields. newStore fails
on newest metadata that it cannot read (`RestartFails`), and cmd/registry then exits,
at each start. `changed` is the identity of the channel, so closing and replacing it
is an increment. ModelRollout adds, per node, a watch stream (server goroutine plus
events under way), the download under way and the installed body with its version. A
broken stream loses any suffix of its events.

### Gateway

Handlers are processes. Reading `total`, reading a load, charging the load and
charging the total are separate actions, because they are separate atomics.
`Capacities` is capacityLocked: where the exact product is whole, floating point
may land just below it, so both results are possible. `racy` is history: the
Pick overlapped another request's update.

### CacheNode and Cluster

One key on all nodes. CacheNode has each node's copy, the phase of its flight with
its waiters, and singleflight as an external part. Cluster carries a request from
the HTTP adapter (its own refusals), through the gateway's semaphore, to one node or
to all of them, and back to one HTTP status (`Status` is writeStatus). A Put or Get
may go to any node: that is what bounded loads allow (Gateway says when). A call
that outlives its request stays in `calls` and may still reach its node. `acked`,
`shed`, `dead`, `said` and the like are history: what clients were told, and what
the origin said.

### BeladyMin and Loadgen

`MinStep` is one turn of MINHitRatioFrom's loop and `EvictFurthest` the pops of
evictFurthest, stale entries and ties included. Loadgen's phases are main's: warmup,
Stats, replay, Stats, report. Workers stride over the trace; a node is a set of
objects under any eviction policy that admits every miss, so what holds here holds for
each of the repository's policies; `StatsAt` adds one node's counters to the broadcast
under way. A hit ratio is kept as the two numbers it is a quotient of (`Ratio`), and
compared by multiplying crosswise: derive divides what the servers counted,
MINHitRatioFrom the hits by the requests of the window. All objects have one size, so
the conversion of bytes to objects is exact.

## Runs

Every run finishes within two minutes on two workers. PROJECT.json says for each
property which change of the code would break it.

| run | shows |
|---|---|
| s3fifo | map, queues, bytes, victim search, compaction and ghost queue consistent for 3 keys; the shard implements `BoundedStore` |
| trace_ring | the ring is race-free, FIFO, accounted, implements `LossyQueue`, and drains |
| recorder | conservation of records, the reader gets back what was counted as written, flush at shutdown, publication by age while the recorder runs, and its return after the signal |
| rollout | whole and immutable versions, no rollback while power holds; nodes only move forward to whole, usable models; no lost wakeup, no event lost for good, unless the registry cannot open its store again |
| gateway | load accounting, fallback to the home node only under a race |
| cluster | a successful Delete leaves no copy settled before it; a refused Put is nowhere; a 404 is the origin's; cancellation is isolated, every miss is answered |
| learned_shard | the trainer rebuilds the columns the node scores, whatever was evicted, expired, deleted or overwritten, until a record is lost and again after the next admission; a label does not change as the trace grows; the bytes stay within the capacity, and insert gives up only where the policy samples nothing |
| tree_model | a file that loads can be walked: in range, unless it lowered its feature count after a tree, without a loop, each tree at its own leaves |
| loadgen | the reported window is what the clients saw; a restart is never reported as extra traffic; the lazy heap always finds its victim; the hit ratio of no policy on any split is above MIN's from cold, when no node restarts |
| cluster_spill, min_warm, tree_redeclared | violations: a comment or document says more than the code does (see Findings) |

### Bounds

- S3FIFO: capacity 20 makes the probation target 2; sizes 1, 19 and 21 are one
  below the target (two reach it), one that fills the shard with the other and for
  which two evictions may be needed, and one that cannot fit. Three keys are one more
  than fit. Empty values are left to the theorems. A slack of 0
  instead of 64 makes compact run within the bound on generations (`MaxGen`,
  the number of inserts and promotions, which is one more than a compacted
  queue may hold); a ghost target of 2 lets the queue hold a key twice and
  forget.
- LearnedShard: 3 keys of size 1 in a shard for 2, so inserts evict; size 3 never
  fits. A millisecond of 2 microseconds makes the division round, a history of 2
  gaps and a largest gap of 1 make both ends of it matter within 4 records. One
  dropped record, times that lag by 1, a TTL of 1 and a clock of 3 let a key be
  damaged, expire and come back. The setups are LRB told to sample nothing, which gets
  a default of 2 and so sees the whole shard, LRU told the same, which samples nothing,
  and LFU with samples of one.
- TreeModel: every pair of child arrays for 2 and for 3 leaves with indices from one
  past either end; two trees of 4 leaves, a chain and one with a cycle the root does
  not reach; each array one too long or too short, wrong features and split types. The
  row has one feature and a header declares none, one or two, so a count can be
  raised and lowered around a tree that splits on the second. Two trees per file, as
  the second one has a base to add. Parents are counted modulo 2 instead of 256, so
  that a count that wraps is within the bound.
- TraceRing: 4 slots and 7 pushes, so the cursors lap the ring; a batch of 3 is
  smaller than the ring, so a drain is cut short.
- ModelRollout: 2 publishers, 2 versions and 2 whole bodies give out-of-order and
  same-version publishes with different content. Version 1 cannot be loaded or has
  another boundary, depending on the upload. Two blocks per body let a file be cut
  short or mixed; thirteen bad uploads break the protocol in each of the ways
  receive and validate tell apart. Two faults of any kind: a second one after a
  recovery, or one power failure, which counts as two and leaves each prefix of a
  model, each prefix of fields of its metadata, or metadata that does not decode.
- Gateway: 4 requests over 2 nodes with 3 slots: one queues, and three are what
  it takes to find both nodes full. The factor is the default 1.25.
- Cluster: 2 nodes, 2 Gets (so a flight has a second waiter or is flown twice), a
  Put, a Delete and 3 slots, one fewer than requests; one restart. cluster_spill has
  2 Puts and no Delete. What sends the second Put to another node is the load of
  other keys, which is abstracted into the free choice of a node: with one slot and one
  key alone there is no spill.
- Recorder: 2 rings of 2 records, batches of 2 and segments of 3, so a full
  batch, a partial one, rotation by size and by age all occur; 5 pushes and 2
  failing operations reach a half frame with a segment after it.
- Loadgen: 2 nodes of one object for three objects, so nodes evict and MIN has a
  choice; all traces up to 5, a warmup of 0 or 2, 1 or 2 workers, one restart.
  min_warm: one node of 2 objects and traces up to 4. Counters wrap at 64 instead of
  2^64, which no run reaches.

The generation counter, the pushes, the publishes and the faults are bounded in
the guards by constants named Max...; everything else is finite by itself.

### Fairness

- TraceRing: the producer finishes a push it began (weak fairness), and the
  recorder keeps draining: Run's ticker. New pushes are not assumed.
- Recorder: the goroutine runs and its file operations end; strong fairness for
  `Rotate`, because a segment that stays open gets old, and for `Done`, because Go's
  select does not pass over a ready case for ever; handlers end or the ten-second hard
  stop ends them.
- ModelRollout: the node's loop and the server's goroutines run, a dead registry is
  restarted where newStore lets it start, a publish under way finishes. No new
  publish, no fault and no node restart is assumed. A download may fail, but only
  boundedly often.
- TreeModel: an evaluation that began goes on; it is a loop without a wait.
- Cluster: goroutines are scheduled and an origin call ends, with an answer or with
  the node's own timeout. No client is assumed to give up.

Deadlock is checked in every run. Where the process really ends (`Recorder`), all
requests have been answered (`Cluster`), the generator exits (`Loadgen`), a model file
is refused (`TreeModel`) or the registry cannot start (`Registry`), an action that
changes nothing says so.

## Findings

Each is a run that TLC ends with a violation, and a line that promises more.

1. `cluster_spill`: a Get can be answered with an older Put than the last
   acknowledged one (ADR 0007 "not a wrong answer").
2. `tree_redeclared`: a file that declares, say, max_feature_idx=99, splits on feature
   50 and then declares the one this build expects is accepted by flush (model.go:234),
   Load (model.go:62) and Store (lrb.go:38), and Raw panics when it comes to that split
   (model.go:251 "neither index out of range nor loop, so Raw needs no checks of its
   own"). LightGBM writes the line once, before the trees; `OrderedHeadersNeverPanic`
   proves that such a file cannot do this. A check of the features in Store, or of
   every tree at the end of Load, would settle it.
3. `min_warm`: MIN over warmup and window, scored on the window, is not a ceiling
   (min.go:29-31, report.go:39-41). The trace a b c a with a warmup of 4 and room for
   two objects: a policy that takes an extra miss in the warmup enters the window
   with a and b and has 3 hits there, MIN has 2.

Observations: the models also do the following, which a comment words more
strongly than the code. No run is spent on them.

- A download that fails for a passing reason is handled as a bad model and not
  retried while the stream is up (watcher.go:33 "keeps the node's model current").
- WatchModels coalesces: of two publishes between two polls only the newer is
  announced (registry.go:366 "an event for every model newer"). A usable model
  can so be hidden behind one the node refuses.
- A request that missed before a flight ended and calls DoChan after it fetches
  again (cachenode/main.go:47 "costs origin one request").
- Requests that share a flight leave one trace record, the admission's
  (shard.go:51 "exactly one record is written per request").
- Records that handlers make while GracefulStop waits, after the recorder's last pass,
  stay in the rings (recorder.go:159 "no records are lost on a clean shutdown").
  `FlushedBeforeSignal` shows that nothing else does.
- With CACHE_POLICY lru or lfu and a CACHE_SAMPLE_SIZE of 0 or less a shard rejects
  every insert that needs room, and drops the old value of its key first; lrb has a default
  instead (policy.go:55 gives the reason for having none). `RoomIsMade` shows that
  nothing else makes insert give up.
- A failed close or rename leaves records counted as written in a .partial file
  no reader opens (recorder.go:72); `Conserved` shows where they are
  (`stranded`).
- A fetch that began before a Put may end after it and put the origin's value over
  the newer one. A Put that was answered 5xx or 499 may arrive after a later Delete.
- A body within the 8 MiB that the HTTP adapter takes can exceed MaxRecvBytes as a
  gRPC message; the node's ResourceExhausted then reaches the client as 429, which
  docs/04-api.md:188 and docs/05-operations.md:294 explain as load.
- docs/04-api.md:63 and :189 call a failed node in a fan-out `Unavailable`; broadcast
  keeps the node's code. docs/04-api.md:81 says evict_ns_mean is averaged unweighted;
  Stats divides the sums.
- A torn segment that could not be cut back is published (recorder.go:238-249), so
  "always a complete sequence" (recorder.go:31) has an exception; the reader copes.
- After a power failure that cuts the newest metadata file short in a field the
  registry does not start again until the file is removed (registry.go:132), although
  ListModels skips such a file (registry.go:403). If the file is empty, or is cut
  between two fields, it does start, with a latest version of "" or without a digest,
  and refuses that version as already published. `OnlyNewerFetched` shows that no node
  goes back; `ConvergesOrLogs` makes an exception of the first case only.
- A key whose older ghost slot is popped while a younger one is queued is forgotten by
  the ghost set (s3fifo.go:214). `GhostConsistent` allows that: it costs a ghost hit.
- A node restart in the measured window that other nodes' progress hides makes the
  window report too little, without an error (`NeverOverstated` is one-sided), and its
  hit ratio can be above MIN: the trace a b b b on two nodes of one object, where the
  node that served a restarts in the window, is reported as 2 of 3 against 2 of 4
  (report.go:39 "means the conversion is off"). `MinIsCeiling` and `MinIsWarmCeiling`
  therefore ask for no restart. With several workers the requests are served in an
  order of their own and a policy can beat MIN of the trace's order, so `MinIsCeiling`
  asks for one worker.
- A label can depend on where the trace is cut when the next access falls in the
  very microsecond in which the trace ends; `LabelsFinal` asks for later records.
- An access whose time was read earlier than the last one's moves lastAccess back
  (entry.go); the trainer sorts instead. `Healthy` excludes such keys until their
  next admission.
- checkShape accepts nodes that form a cycle of their own beside the tree
  (model.go:251); `EveryWalkEnds` holds all the same, as no walk gets there.

## Proofs

Theorems hold for every value of the constants that the assumptions allow. A
module's assumption is named after it, is stated beside its CONSTANTS, and is
evaluated by TLC in each run of the module. Mostly it gives the constants their
types; what it says beyond that is named below. The bounds (MaxGen, MaxPushes,
MaxFaults and so on) are arbitrary constants in the guards, so the theorems cover
every finite number of faults, pushes or publishes.

Each proof module begins with an inductive invariant `Inv`, has one lemma per
action or per conjunct, and ends with the theorems. Two techniques recur. Sums are
counted: a sum of counters over a set is the cardinality of a set of units, one per
unit of each counter, so that what a step does to a sum is what it does to a set.
Inductions are written as the absence of a minimal counterexample in a well-founded
order (numbers, or subsets of a finite set), because the library's induction
theorems take an operator.

**S3FIFOProofs.** `Inv` is TypeOK, Partition, SlotsOK, PendingOK and
GhostConsistent. OneLiveSlot alone is not inductive: to know that a push creates
the only slot of its generation one needs that every queued generation is at most
the counter (`GenBounded`), and to know that popping a stale head cannot orphan a
live key one needs that a generation is in one slot only (`GenUnique`). Partition
needs that the key being inserted is not resident (`PendingOK`), since Admit
overwrites its queue maps. The heavy part is `compact`: `LiveSlots` is defined by
counting, and `RankBijective` and `LiveSlotsExact` show that it is exactly the
live slots in order. Each conjunct has one step lemma with one case per action
(`TypeStep`, `PartitionStep`, `SlotsStep`, `PendingStep`, `GhostStep`), and
`Invariance` combines them. CapacityRespected and SmallBounded are then short;
TypeOK and CapacityRespected are only proved, the latter being also what BytesExact and
`BoundedStore` imply together.
BytesExact is proved of the counts of units, `SumIsCount` links those to the sums
of the model. VictimGuaranteed needs a measure: `Work` bounds the turns that a
search has left (two per slot of small, one per slot of main, and the remaining
laps of main's live keys), each turn that does not return lowers it by at least one
as it lowers `steps`, and at the start it is below the code's bound of four per slot
and eight (`SearchInv`, `WorkAtMost`). That there is a victim at all follows from
the bytes: a shard too full for an object that fits an empty one holds something
(`SomethingQueued`). `StoreSafe` puts these together: BytesExact makes the store's sum
of sizes the counter `used`, a turn that only moves slots leaves `m` as it is
(`FreqHidden`), and the step in which insert would give up is excluded by
VictimGuaranteed, so the bounded store needs no such action.

**LearnedShardProofs.** `Inv` is TypeOK, `HistoryKept`, `PendingOK` and `BytesOK`. HistoryKept
speaks of the log alone, without the trainer: for each resident key that has lost no
record since its last admission there is a position s in the key's records from which
on they tell the entry's history (`Tells`): an admission at s, only hits after it, one
touch each, so the access count, the two-bit counter, the gaps newest first, the times
and the size are functions of the records from s. It is inductive because every
admission is recorded or marks the key as damaged, and nothing else touches an entry.
TrainedAsServed then is a statement about sorting. A finite trace is sorted by rank,
and ranks are a bijection on its positions (`RankInjective`, `RankSurjective`, both by
counting). For a key whose records from s on are later than everything before them,
the stable sort leaves that suffix where it is (`SuffixSorted`), so the trainer's
segment begins at s (`SegmentStart`) and its row has the same columns (`SuffixRow`).
LabelsFinal rests on one lemma: a record later than all of a trace is sorted to its
end and changes no other place (`SortedAppend`). The only row that gets a successor
was the last one, and its label was kept only if the trace went on beyond the boundary
(`LabelStands`). The assumption says that None is neither an entry nor a request.
RoomIsMade needs that `used` is the sum of the resident sizes (`BytesOK`, by counting
units: `SumIsCount`, `DropBytes`): bytes are in use as long as an object does not fit
that fits an empty shard, so the shard is not empty, a policy that looks at an entry has
a sample with a member, and one member of it scores highest (`VictimThere`). No sample
size is assumed, so what the theorem leaves to GiveUp is exactly LRU and LFU with none.

**TraceProofs, the ring.** `RingInv` says in addition to the cursors' order what each slot
between `head` and `tail` holds (the accepted record of that position), what the
consumer has copied so far, and at which program points the producer has the slot
at `tail` to itself. NoRace, Fifo and Accounted follow, and `QueueRefinement` maps
each step to a step of `LossyQueue` or a stutter: a drop happens only when
`cachedHead` has just been refreshed, and the slots are then all taken.

**TraceProofs, the recorder.** `Inv` is TypeOK, Conserved, `FilesInv` and `FlushInv`. ReadBack
is the claim about the reader; inductive is that the reader's frames followed by the
open segment account for all that is written and not stranded, in rising order of
sequence (`Accounts`). It survives a torn frame because every published file is a
sequence of frames with at most one half frame at its end (`SoundFiles`), which the
reader reads over. FlushedBeforeSignal is an account of the last pass ring by ring:
the rings it has left hold no more than was pushed since the signal, and a batch
that is not full is what shows that a ring is empty.

**ModelRolloutProofs.** For the store, `Inv` says who is past the publishing mutex
and that nobody else is (`Exclusive`), what each of the publish steps has put on
disk under its version (`InPlace`), that what is published is a whole model with its
own metadata except where power failed, and there nothing or at least no other
version's metadata (`OnDisk`), and that `latest` is the newest published version but
for the one that is about to move it (`LatestIsNewest`). `AcceptedWhole` is about
receive and validate: whatever was sent, what gets past both is whole. What a power
failure leaves of metadata names no other version (`FirstFieldsDescribe`). NoRollback
follows while power holds; PublishedImmutable is an action property and needs no
such condition. For a node, its stream names only versions newer than what it has
taken, in rising order (`StreamAhead`), a download under way has the metadata of the
version it asked for (`Downloading`), and what runs is usable and what was published
(`Running`). These give InstalledUsable and OnlyNewerFetched, the latter through
power failures too. `UploadsAssumption` types the uploads and says that a digest in a
message is absent, that of nothing, or that of a whole body: a sender cannot name
bytes nobody has. Bodies stand for their digests, so SHA-256 is free of collisions
here.

**GatewayProofs.** LoadAccounted is inductive once each counter is defined as the
number of requests that charged it and did not yet discharge it. FallbackOnlyUnderRace
is the pigeonhole argument of bounded loads: a Pick that nothing disturbed passed
every node in one lap, each at or above its ceiling; the requests on the nodes are
then more than the total has counted (`Spread`). It uses from the assumption that
there is more than one node (Pick does not walk for a single one), that every node is
on the ring, and that the factor is above 1: New replaces any other factor, and
AddNode puts every node on the ring.

**ClusterProofs.** The node's part of `Inv` is that whoever waits for a shared fetch
waits for one that is under way (`WaitersHaveFlight`), where each Get is, and that a
flight's phase says what the origin said (`SaidInv`); NotFoundIsAbsent and
FailuresAreOrigins follow. For the writes, a Put has at most one call out, and none
once it has been answered for good (`PutInv`), so nothing can bring a settled value
back; and while a Delete is out, each node either has its call still to come or holds
nothing of what was settled before the Delete began (`DeleteInv`). That is where
DeletedStaysDeleted and ShedLeavesNothing come from. Assumed: Gets, Puts and Deletes
are disjoint, which is naming.

**TreeModelProofs.** `Inv` says that each tree of the file is in the flat arrays from
its own offset on, child by child, with every child in range (`Placed`), and that
the flat walk stands where a walk of the file's own tree would. WalkInRange and
SameAsTheFile are both read off it. Everything rests on the lemma about checkShape
and flush, that a tree they accept has its children in range (`AcceptedInside`), which is
proved from their tests alone. For the features `Inv` bounds those of all nodes by
`widest`, the highest count that a tree was checked against; what Store compares is the
last count read, and only where that is not below widest do the two meet
(`WalkStaysInRange`, `OrderedHeadersNeverPanic`). The assumption gives the trees that a
file may hold their types, not their validity, and arrays of any length. That walks end
is liveness, and checked by TLC.

**LoadgenProofs.** WindowExact and NeverOverstated come from `WindowInv` and
`ReportedInv`: in each phase the nodes' counters are at most what the clients saw so
far, and equal to it while no node has restarted (`Within`), also half way through
either Stats broadcast (`asked`). HeapCoversResident is part of `MinInv`, with each
resident keyed on its next request. MinIsCeiling is a potential argument.
A `Play` is what any policy that admits every miss may do with the trace, and
`AheadInv` says of every play and every horizon j that its hits, with the objects it
holds that are requested up to j, never outweigh MIN's. MIN's eviction of the
furthest object keeps that true for all horizons at once, and at the trace's end
only the hits are left. `PlayInv` shows that one worker's run from a cold cluster
is a play, whatever each node evicts. The ratio follows from the hits where no node
restarts, because the window then counts every request of the trace (WindowExact).

Only model-checked:

- Every liveness property (EveryMissAnswered, ConvergesOrLogs, EventuallyPublished,
  ReturnsAfterShutdown, EventuallyDrained, EveryWalkEnds): they need ENABLED of the
  fair actions.
- Nothing bounds S3-FIFO's main queue: see the note on the hazard at s3fifo.go:115.
- The properties of the three violation runs, which are false.

## Not modelled

Fitting a model is numerical work
outside the repository's own code, and so are the load generator's workload,
quantiles and thresholds. Configuration, metrics, generated code, process wiring and
the origin stub keep no state that a correctness property depends on. A ring
topology that changes while serving (the code adds nodes at start-up only) and
clocks outside LearnedShard (TTL, backoff, rotation age and deadlines are
nondeterministic) are abstracted. The trainer reads the traces of all nodes;
LearnedShard has the trace of one, so a key that several nodes served is left out.
Sharding is a mask of the key's hash, and a shard is what S3FIFO and LearnedShard
model. MIN over objects of different sizes is an estimate in the code already.

## Plan

Done: the modules above, and proofs of every safety property and refinement that
their runs check. What is left, in order of what matters most:

1. The records of a key that several nodes served after a spill, merged by the
   trainer by time: what TrainedAsServed becomes when histories interleave.
2. Gateway's liveness: every request that asks for a slot ends.
3. A bound on main's length: a promotion pushes without compacting, so the bound has
   to come from the number of promotions between two admissions.
