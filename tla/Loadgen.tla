------------------------------- MODULE Loadgen -------------------------------
(***************************************************************************)
(* One run of the load generator (cmd/loadgen) against a cluster: replay a *)
(* prefix of the trace as warmup, read the cluster's counters through the  *)
(* gateway, replay the whole trace, read the counters again, report their  *)
(* difference and compare it with MIN (BeladyMin) over the same requests.  *)
(*                                                                         *)
(* A node is a set of objects of one size under any eviction policy that   *)
(* admits every miss (which node gets a request is the ring's choice, see  *)
(* Gateway) and two counters that a restart resets. The generator is the   *)
(* cluster's only client. A quantity is in bytes and objects alike.        *)
(***************************************************************************)
EXTENDS BeladyMin

CONSTANTS
    Keys,
    Traces,        \* the traces to replay, sequences of Keys
    Warmups,       \* values of WARMUP
    Concurrencies, \* values of CONCURRENCY
    Nodes,
    NodeCapacity,  \* objects a node holds
    MaxRestarts,   \* bound on restarts, for TLC
    Wrap           \* 2^64 in the code, where unsigned subtraction wraps

ASSUME LoadgenAssumption ==
    /\ Traces \subseteq Seq(Keys) /\ Warmups \subseteq Nat /\ Concurrencies \subseteq Nat \ {0}
    /\ IsFiniteSet(Nodes) /\ "none" \notin Nodes
    /\ NodeCapacity \in Nat \ {0} /\ MaxRestarts \in Nat
    /\ Wrap \in Nat \ {0}

VARIABLES
    trace, warmup, concurrency,   \* the options of the run
    phase,      \* "warmup", "before", "replay", "after", "report", "done" or "died"
    pos,        \* worker -> the request it is at
    miss,       \* worker -> the node that is fetching its key, or "none"
    held,       \* node -> the objects it holds
    hits, misses,   \* node -> its counters since it started
    asked,      \* nodes that have answered the Stats broadcast under way
    sum,        \* the sums of that broadcast so far
    before,     \* the sums of the first one
    served, fromCache,   \* what the workers saw in the replay
    sd,         \* the reported window and its hit ratio, one record, or none yet
    restarts,
    torn        \* history: a node restarted after the first broadcast had begun

clusterVars == <<held, hits, misses>>
runVars == <<trace, warmup, concurrency>>
vars == <<minVars, runVars, clusterVars, phase, pos, miss, asked, sum, before, served,
          fromCache, sd, restarts, torn>>

Zero == [hits |-> 0, misses |-> 0, objects |-> 0]
Workers == 1..concurrency
AtStart == [w \in Workers |-> w]

\* The warmup is a prefix of the trace itself.
Warmed == SubSeq(trace, 1, IF warmup < Len(trace) THEN warmup ELSE Len(trace))
Replayed == IF phase = "warmup" THEN Warmed ELSE trace

Init ==
    /\ trace \in Traces /\ warmup \in Warmups /\ concurrency \in Concurrencies
    /\ phase = IF warmup > 0 THEN "warmup" ELSE "before"
    /\ pos = AtStart /\ miss = [w \in Workers |-> "none"]
    /\ held = [n \in Nodes |-> {}]
    /\ hits = [n \in Nodes |-> 0] /\ misses = [n \in Nodes |-> 0]
    /\ asked = {} /\ sum = Zero /\ before = Zero
    /\ served = 0 /\ fromCache = 0 /\ sd = {}
    /\ restarts = 0 /\ torn = FALSE
    /\ MinInit

-----------------------------------------------------------------------------
(* replay: workers take every concurrency-th request.                      *)

Sending(w) ==
    /\ phase \in {"warmup", "replay"} /\ miss[w] = "none" /\ pos[w] <= Len(Replayed)

\* An answered Get: a sample, and the worker's next stride.
Answered(w, cached) ==
    /\ pos' = [pos EXCEPT ![w] = @ + concurrency]
    /\ IF phase = "replay"
       THEN served' = served + 1 /\ fromCache' = fromCache + (IF cached THEN 1 ELSE 0)
       ELSE UNCHANGED <<served, fromCache>>

GetHit(w, n) ==
    /\ Sending(w)
    /\ Replayed[pos[w]] \in held[n]
    /\ hits' = [hits EXCEPT ![n] = @ + 1]
    /\ Answered(w, TRUE)
    /\ UNCHANGED <<minVars, runVars, held, misses, phase, miss, asked, sum, before, sd, restarts, torn>>

GetMiss(w, n) ==
    /\ Sending(w)
    /\ Replayed[pos[w]] \notin held[n]
    /\ misses' = [misses EXCEPT ![n] = @ + 1]
    /\ miss' = [miss EXCEPT ![w] = n]
    /\ UNCHANGED <<minVars, runVars, held, hits, phase, pos, asked, sum, before, served,
                   fromCache, sd, restarts, torn>>

\* The fetch ends: the object is admitted, in the place of another one when the
\* node is full, and the Get is answered from the origin.
GetFetched(w) ==
    LET n == miss[w]
        k == Replayed[pos[w]]
    IN  /\ n # "none"
        /\ \/ /\ k \in held[n] \/ Cardinality(held[n]) < NodeCapacity
              /\ held' = [held EXCEPT ![n] = @ \cup {k}]
           \/ /\ k \notin held[n] /\ Cardinality(held[n]) = NodeCapacity
              /\ \E v \in held[n] : held' = [held EXCEPT ![n] = (@ \ {v}) \cup {k}]
        /\ miss' = [miss EXCEPT ![w] = "none"]
        /\ Answered(w, FALSE)
        /\ UNCHANGED <<minVars, runVars, hits, misses, phase, asked, sum, before, sd, restarts, torn>>

\* Mutant: replay returns without waiting for the workers whose Get is out.
ReplayEndNoWait ==
    /\ phase \in {"warmup", "replay"}
    /\ \A w \in Workers : pos[w] > Len(Replayed) \/ miss[w] # "none"
    /\ phase' = IF phase = "warmup" THEN "before" ELSE "after"
    /\ asked' = {} /\ sum' = Zero
    /\ UNCHANGED <<minVars, runVars, clusterVars, pos, miss, before, served, fromCache, sd, restarts, torn>>

\* Every worker is past the end: Wait returns, and Stats is next.
ReplayEnd ==
    /\ phase \in {"warmup", "replay"}
    /\ \A w \in Workers : pos[w] > Len(Replayed)
    /\ phase' = IF phase = "warmup" THEN "before" ELSE "after"
    /\ asked' = {} /\ sum' = Zero
    /\ UNCHANGED <<minVars, runVars, clusterVars, pos, miss, before, served, fromCache, sd, restarts, torn>>

\* A Get or a Stats call fails or times out, or the run is interrupted: the
\* workers are cancelled and the program exits with nothing reported.
Die ==
    /\ phase \in {"warmup", "before", "replay", "after"}
    /\ phase' = "died"
    /\ miss' = [w \in Workers |-> "none"]
    /\ UNCHANGED <<minVars, runVars, clusterVars, pos, asked, sum, before, served, fromCache,
                   sd, restarts, torn>>

-----------------------------------------------------------------------------
(* The cluster's Stats, summed by the gateway, and nodes that restart.     *)

StatsAt(n) ==
    /\ phase \in {"before", "after"} /\ n \notin asked
    /\ asked' = asked \cup {n}
    /\ sum' = [hits |-> sum.hits + hits[n], misses |-> sum.misses + misses[n],
               objects |-> sum.objects + Cardinality(held[n])]
    /\ UNCHANGED <<minVars, runVars, clusterVars, phase, pos, miss, before, served, fromCache,
                   sd, restarts, torn>>

\* A node comes back empty, with its counters at zero. A Get it was serving fails
\* (Die); with none out there, the run goes on.
Restart(n) ==
    /\ restarts < MaxRestarts /\ phase \notin {"died", "report", "done"}
    /\ \A w \in Workers : miss[w] # n
    /\ held' = [held EXCEPT ![n] = {}]
    /\ hits' = [hits EXCEPT ![n] = 0] /\ misses' = [misses EXCEPT ![n] = 0]
    /\ restarts' = restarts + 1
    /\ torn' = (torn \/ phase # "warmup")
    /\ UNCHANGED <<minVars, runVars, phase, pos, miss, asked, sum, before, served, fromCache, sd>>

BeforeEnd ==
    /\ phase = "before" /\ asked = Nodes
    /\ before' = sum
    /\ phase' = "replay" /\ pos' = AtStart
    /\ UNCHANGED <<minVars, runVars, clusterVars, miss, asked, sum, served, fromCache, sd, restarts, torn>>

\* Mutant: the unsigned difference without the check.
DeltaWraps(b, a) == {[hits |-> (a.hits - b.hits) % Wrap, misses |-> (a.misses - b.misses) % Wrap]}

\* delta: no window when a counter went backwards.
Delta(b, a) ==
    IF a.hits < b.hits \/ a.misses < b.misses THEN {}
    ELSE {[hits |-> a.hits - b.hits, misses |-> a.misses - b.misses]}

\* A hit ratio as the two numbers it is the quotient of; none of nothing is 0.
Ratio(n, d) == IF d = 0 THEN [num |-> 0, den |-> 1] ELSE [num |-> n, den |-> d]
AtMost(r, s) == r.num * s.den <= s.num * r.den

\* The window with derive's objectHit, of the requests the servers counted and not
\* of those the client sent.
WithRatio(d) ==
    [hits |-> d.hits, misses |-> d.misses, objectHit |-> Ratio(d.hits, d.hits + d.misses)]

\* derive's optimum, what MINHitRatioFrom returns.
Optimum == Ratio(minHits, Len(scored) - from)

\* delta and derive. Without an object in the cluster, or a request, there is no
\* mean size to convert the capacity with, and no MIN.
AfterEnd ==
    LET capacityObjects == Cardinality(Nodes) * NodeCapacity
    IN  /\ phase = "after" /\ asked = Nodes
        /\ \/ /\ Delta(before, sum) = {}
              /\ phase' = "died"
              /\ UNCHANGED <<sd, minVars>>
           \/ /\ Delta(before, sum) # {}
              /\ sd' = {WithRatio(d) : d \in Delta(before, sum)}
              /\ IF served = 0 \/ sum.objects = 0
                 THEN phase' = "done" /\ UNCHANGED minVars
                 ELSE phase' = "report" /\ MinCall(Warmed \o trace, capacityObjects, Len(Warmed))
        /\ UNCHANGED <<runVars, clusterVars, pos, miss, asked, sum, before, served, fromCache, restarts, torn>>

ReportMin ==
    /\ phase = "report"
    /\ MinStep
    /\ UNCHANGED <<runVars, clusterVars, phase, pos, miss, asked, sum, before, served, fromCache,
                   sd, restarts, torn>>

ReportEnd ==
    /\ phase = "report" /\ at > Len(scored)
    /\ phase' = "done"
    /\ UNCHANGED <<minVars, runVars, clusterVars, pos, miss, asked, sum, before, served, fromCache,
                   sd, restarts, torn>>

Exited == phase \in {"done", "died"} /\ UNCHANGED vars

Next ==
    \/ \E w \in Workers : (\E n \in Nodes : GetHit(w, n) \/ GetMiss(w, n)) \/ GetFetched(w)
    \/ \E n \in Nodes : StatsAt(n) \/ Restart(n)
    \/ ReplayEnd \/ Die \/ BeforeEnd \/ AfterEnd \/ ReportMin \/ ReportEnd \/ Exited

Spec == Init /\ [][Next]_vars

-----------------------------------------------------------------------------
(* Properties.                                                             *)

\* "The client sees which node answered from cache. If this disagrees with the
\* server's own count, routing or stats aggregation is broken" (report.go:26):
\* with no restart since the first Stats, the reported hits and misses are the
\* ones the client saw in the window, whatever the warmup counted before and
\* however the workers and the per-node reads interleaved.
WindowExact ==
    ~torn => \A d \in sd : d.hits = fromCache /\ d.misses = served - fromCache

\* "Unsigned subtraction would otherwise wrap to a huge count" (stats.go:32): a
\* window that is reported never counts more hits or misses than there were,
\* also when the other nodes' progress hides that one restarted.
NeverOverstated ==
    \A d \in sd : d.hits <= fromCache /\ d.misses <= served - fromCache

\* A run that reports has a MIN score.
Compared == phase = "done" /\ Len(scored) > 0

\* "Sharding can only lose hits, so a real policy scoring above MIN means the
\* conversion is off, not that the policy beat optimal" (report.go:39): the hit
\* ratio that is reported is at most MIN's, for one worker, no warmup, any policy
\* and any split of the objects over nodes, when no node restarts. A restart that
\* delta cannot see takes the misses it counted before out of the quotient, so that
\* the ratio of what is left may be above MIN.
MinIsCeiling ==
    Compared /\ concurrency = 1 /\ warmup = 0 /\ ~torn =>
        \A d \in sd : AtMost(d.objectHit, Optimum)

\* The same of a measured window after a warmup: "Feed the warmup as a prefix and
\* set from to its length" (min.go:31), so that MIN is not scored below the
\* policy it is meant to bound.
MinIsWarmCeiling ==
    Compared /\ concurrency = 1 /\ ~torn => \A d \in sd : AtMost(d.objectHit, Optimum)
=============================================================================
