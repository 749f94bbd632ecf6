------------------------------- MODULE Gateway -------------------------------
(***************************************************************************)
(* Routing in the gateway: the in-flight semaphore, forward, route and     *)
(* broadcast (cmd/gateway/main.go) around Pick and Done of the bounded-    *)
(* load hash ring (internal/hashring/hashring.go).                         *)
(*                                                                         *)
(* Requests are concurrent handlers. The ring's counters are separate      *)
(* atomics, so reading total, reading a load, charging a load and charging *)
(* the total are separate actions; the topology is fixed at start-up. A    *)
(* key is the position on the ring where its walk starts.                  *)
(***************************************************************************)
EXTENDS Integers, Sequences, FiniteSets

CONSTANTS
    Requests,      \* concurrent handlers
    Nodes,         \* ring members, more than one
    VNodes,        \* the ring: a sequence of nodes, in hash order
    Starts,        \* where the keys' walks may start
    FactorNum, FactorDen,  \* the load factor c = FactorNum / FactorDen > 1
    MaxInflight    \* cap(server.inflight)

ASSUME GatewayAssumption ==
    /\ IsFiniteSet(Requests) /\ IsFiniteSet(Nodes) /\ Cardinality(Nodes) > 1
    /\ VNodes \in Seq(Nodes) /\ \A n \in Nodes : \E i \in 1..Len(VNodes) : VNodes[i] = n
    /\ Starts \subseteq 1..Len(VNodes)
    /\ FactorNum \in Nat /\ FactorDen \in Nat \ {0} /\ FactorNum > FactorDen
    /\ MaxInflight \in Nat \ {0}

VARIABLES
    load,      \* node -> in-flight requests charged to it
    total,     \* Ring.total
    inflight,  \* slots taken in server.inflight
    pc,        \* request -> where it is
    walk,      \* request -> [start, i, cap, node]: the state of its Pick
    racy       \* history, request -> its Pick overlapped another update

vars == <<load, total, inflight, pc, walk, racy>>

At(i) == VNodes[((i - 1) % Len(VNodes)) + 1]
NoWalk == [start |-> 0, i |-> 0, cap |-> 0, node |-> VNodes[1]]

\* Mutant: the per-node ceiling without its + 1.
CapacitiesFloor(t) ==
    LET num == (t + 1) * FactorNum
        den == Cardinality(Nodes) * FactorDen
    IN  {IF num \div den < 1 THEN 1 ELSE num \div den}

\* capacityLocked: int64(avg*factor) + 1 in float64. Where the exact product is
\* whole, rounding may land just below it.
Capacities(t) ==
    LET num == (t + 1) * FactorNum
        den == Cardinality(Nodes) * FactorDen
        p   == num \div den
    IN  IF num % den = 0 THEN {IF p < 1 THEN 1 ELSE p, p + 1} ELSE {p + 1}

\* Requests between their two counter updates, in Pick or in Done.
Torn == {r \in Requests : pc[r] \in {"total", "untotal"}}

\* Requests inside Pick, other than r, are disturbed by r's update.
Disturb(r) ==
    racy' = [q \in Requests |-> racy[q] \/ (q # r /\ pc[q] \in {"walk", "charge", "home"})]

Init ==
    /\ load = [n \in Nodes |-> 0] /\ total = 0 /\ inflight = 0
    /\ pc = [r \in Requests |-> "idle"]
    /\ walk = [r \in Requests |-> NoWalk]
    /\ racy = [r \in Requests |-> FALSE]

Goto(r, l) == pc' = [pc EXCEPT ![r] = l]

-----------------------------------------------------------------------------
\* A request with a non-empty key enters forward.
Arrive(r) ==
    /\ pc[r] = "idle"
    /\ Goto(r, "admit")
    /\ UNCHANGED <<load, total, inflight, walk, racy>>

\* admit: a slot is free.
AdmitSlot(r) ==
    /\ pc[r] = "admit" /\ inflight < MaxInflight
    /\ inflight' = inflight + 1
    /\ Goto(r, "pick")
    /\ UNCHANGED <<load, total, walk, racy>>

\* admit: the context ends first; ResourceExhausted or Canceled, nothing held.
AdmitExpired(r) ==
    /\ pc[r] = "admit"
    /\ Goto(r, "idle")
    /\ UNCHANGED <<load, total, inflight, walk, racy>>

\* broadcast (Delete, Stats) needs no route: it calls every node with the slot
\* held, and gives it back when all have answered or one has failed.
BroadcastEnd(r) ==
    /\ pc[r] = "pick"
    /\ Goto(r, "release")
    /\ UNCHANGED <<load, total, inflight, walk, racy>>

\* Pick reads total, computes the ceiling and finds the key's place.
PickCapacity(r) ==
    /\ pc[r] = "pick"
    /\ \E s \in Starts, c \in Capacities(total) :
          walk' = [walk EXCEPT ![r] = [start |-> s, i |-> 0, cap |-> c, node |-> At(s)]]
    /\ racy' = [racy EXCEPT ![r] = Torn # {}]
    /\ Goto(r, "walk")
    /\ UNCHANGED <<load, total, inflight>>

\* One turn of the walk: read the load of the next virtual node's owner.
PickWalk(r) ==
    LET w == walk[r]
        n == At(w.start + w.i)
    IN  /\ pc[r] = "walk"
        /\ IF load[n] < w.cap
           THEN /\ walk' = [walk EXCEPT ![r].node = n]
                /\ Goto(r, "charge")
           ELSE /\ walk' = [walk EXCEPT ![r].i = @ + 1]
                /\ Goto(r, IF w.i + 1 < Len(VNodes) THEN "walk" ELSE "home")
        /\ UNCHANGED <<load, total, inflight, racy>>

\* The node's load is charged: the one the walk chose, or after a full lap the
\* key's home node.
PickCharge(r) ==
    LET n == IF pc[r] = "home" THEN At(walk[r].start) ELSE walk[r].node
    IN  /\ pc[r] \in {"charge", "home"}
        /\ load' = [load EXCEPT ![n] = @ + 1]
        /\ walk' = [walk EXCEPT ![r].node = n]
        /\ Goto(r, "total")
        /\ Disturb(r)
        /\ UNCHANGED <<total, inflight>>

PickTotal(r) ==
    /\ pc[r] = "total"
    /\ total' = total + 1
    /\ Goto(r, "call")
    /\ Disturb(r)
    /\ UNCHANGED <<load, inflight, walk>>

\* Mutant: a failed call returns without the deferred done.
CallEndLeaks(r) ==
    /\ pc[r] = "call"
    /\ pc' \in {[pc EXCEPT ![r] = "unload"], [pc EXCEPT ![r] = "release"]}
    /\ UNCHANGED <<load, total, inflight, walk, racy>>

\* The upstream call returns, fails or is cancelled; deferred calls follow.
CallEnd(r) ==
    /\ pc[r] = "call"
    /\ Goto(r, "unload")
    /\ UNCHANGED <<load, total, inflight, walk, racy>>

\* Done, the first deferred call.
DoneLoad(r) ==
    /\ pc[r] = "unload"
    /\ load' = [load EXCEPT ![walk[r].node] = @ - 1]
    /\ Goto(r, "untotal")
    /\ Disturb(r)
    /\ UNCHANGED <<total, inflight, walk>>

DoneTotal(r) ==
    /\ pc[r] = "untotal"
    /\ total' = total - 1
    /\ Goto(r, "release")
    /\ Disturb(r)
    /\ UNCHANGED <<load, inflight, walk>>

\* release, the last deferred call, gives the slot back.
Release(r) ==
    /\ pc[r] = "release"
    /\ inflight' = inflight - 1
    /\ Goto(r, "idle")
    /\ walk' = [walk EXCEPT ![r] = NoWalk]
    /\ racy' = [racy EXCEPT ![r] = FALSE]
    /\ UNCHANGED <<load, total>>

Next ==
    \E r \in Requests :
        \/ Arrive(r) \/ AdmitSlot(r) \/ AdmitExpired(r) \/ BroadcastEnd(r)
        \/ PickCapacity(r) \/ PickWalk(r) \/ PickCharge(r) \/ PickTotal(r)
        \/ CallEnd(r) \/ DoneLoad(r) \/ DoneTotal(r) \/ Release(r)

Spec == Init /\ [][Next]_vars

-----------------------------------------------------------------------------
(* Properties.                                                             *)

\* "Load is only meaningful if it is released on every path" (main.go:51): each
\* counter equals what the requests under way have charged and not released, so
\* a quiet gateway is back at zero and a failed call leaves no phantom load; and
\* the semaphore is never over its size.
LoadAccounted ==
    /\ \A n \in Nodes : load[n] =
          Cardinality({r \in Requests : walk[r].node = n /\ pc[r] \in {"total", "call", "unload"}})
    /\ total = Cardinality({r \in Requests : pc[r] \in {"call", "unload", "untotal"}})
    /\ inflight = Cardinality({r \in Requests : pc[r] \notin {"idle", "admit"}})
    /\ inflight <= MaxInflight

\* "Sum of capacities strictly exceeds total load, so some node has room"
\* (hashring.go:121): a walk that finds every node full overlapped another
\* request's update; a Pick that runs alone never falls back to the home node.
FallbackOnlyUnderRace == \A r \in Requests : pc[r] = "home" => racy[r]
=============================================================================
