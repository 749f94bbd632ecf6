------------------------------ MODULE CacheNode ------------------------------
(***************************************************************************)
(* The handlers of the cache nodes for one key (cmd/cachenode/main.go):    *)
(* Get looks in the shard and on a miss joins or starts the key's origin   *)
(* fetch through singleflight; Put and Delete act on the shard. Keys share *)
(* nothing but the shard's space: another key's insert may evict this one  *)
(* at any time (Evict), which also stands for an expired TTL.              *)
(*                                                                         *)
(* singleflight is external (golang.org/x/sync): DoChan looks the key up   *)
(* in the group's map under its mutex and joins or starts a call; a call   *)
(* that ends is removed from the map and hands its result to its waiters.  *)
(* A flight runs on its own goroutine under its own timeout.               *)
(*                                                                         *)
(* A handler ends in a gRPC code or a response; Cluster says what becomes  *)
(* of it. A copy is named after the Put that wrote it.                     *)
(***************************************************************************)
EXTENDS Integers, FiniteSets

CONSTANTS Nodes, Gets, Puts, Deletes, None, Origin

ASSUME CacheNodeAssumption ==
    /\ IsFiniteSet(Nodes) /\ IsFiniteSet(Gets) /\ IsFiniteSet(Puts) /\ IsFiniteSet(Deletes)
    /\ None \notin Puts /\ Origin \notin Puts \cup {None}

VARIABLES
    readThrough,  \* whether ORIGIN_ADDR is set; without it a miss is not found
    copy,         \* node -> whose value it holds for the key: a Put's, Origin's, None's
    flight,       \* node -> "none", or the phase of the call in the group's map
    waiters,      \* node -> the Gets waiting for that call
    get,          \* Get -> "away" from any node, "missed" or "waiting"
    at,           \* Get -> the node the ring picked for it, until it is answered
    said          \* history, node -> what the origin said in that call

nodeVars == <<readThrough, copy, flight, waiters, get, said>>

NodeInit ==
    /\ readThrough \in BOOLEAN
    /\ copy = [n \in Nodes |-> None]
    /\ flight = [n \in Nodes |-> "none"] /\ waiters = [n \in Nodes |-> {}]
    /\ get = [g \in Gets |-> "away"]
    /\ said = [n \in Nodes |-> "nothing"]

\* cache.Get missed, and there is an origin to ask.
GetMissed(g) ==
    /\ readThrough /\ copy[at[g]] = None
    /\ get' = [get EXCEPT ![g] = "missed"]
    /\ UNCHANGED <<readThrough, copy, flight, waiters, said>>

\* DoChan joins the flight or starts one. The shard is not looked at again, so
\* a flight that ended since the miss is flown twice.
DoChan(g) ==
    LET n == at[g]
    IN  /\ get[g] = "missed"
        /\ get' = [get EXCEPT ![g] = "waiting"]
        /\ waiters' = [waiters EXCEPT ![n] = @ \cup {g}]
        /\ flight' = [flight EXCEPT ![n] = IF @ = "none" THEN "fetching" ELSE @]
        /\ UNCHANGED <<readThrough, copy, said>>

Fly(n, phase) ==
    /\ flight' = [flight EXCEPT ![n] = phase]
    /\ UNCHANGED <<readThrough, waiters, get>>

\* The origin answers in time. Proto decodes an empty value as nil.
OriginAnswers(n) ==
    /\ flight[n] = "fetching"
    /\ \E decoded \in {"bytes", "nil"} : Fly(n, decoded)
    /\ said' = [said EXCEPT ![n] = "found"]
    /\ UNCHANGED copy

\* The origin does not know the key: nothing is admitted, and the result is nil.
OriginNotFound(n) ==
    /\ flight[n] = "fetching"
    /\ Fly(n, "notFound")
    /\ said' = [said EXCEPT ![n] = "absent"]
    /\ UNCHANGED copy

\* The origin fails, or originTimeout passes.
OriginFails(n) ==
    /\ flight[n] = "fetching"
    /\ \E code \in {"Unavailable", "DeadlineExceeded"} : Fly(n, code)
    /\ said' = [said EXCEPT ![n] = "failed"]
    /\ UNCHANGED copy

\* Mutant: an empty value is passed on as it was decoded.
FlightAdmitAsDecoded(n) ==
    /\ flight[n] \in {"bytes", "nil"}
    /\ Fly(n, IF flight[n] = "nil" THEN "notFound" ELSE "result")
    /\ copy' = [copy EXCEPT ![n] = Origin]
    /\ UNCHANGED said

\* The flight's value is not nil from here on, for nil means not found. Admit
\* stores it over whatever arrived since the miss, or the shard refuses it.
FlightAdmit(n) ==
    /\ flight[n] \in {"bytes", "nil"}
    /\ Fly(n, "result")
    /\ \/ copy' = [copy EXCEPT ![n] = Origin]
       \/ UNCHANGED copy
    /\ UNCHANGED said

Landed(n) == flight[n] \in {"result", "notFound", "Unavailable", "DeadlineExceeded"}

\* The call leaves the group's map, and every one of `told` has its result.
FlightEnds(n, told) ==
    /\ Landed(n)
    /\ flight' = [flight EXCEPT ![n] = "none"] /\ waiters' = [waiters EXCEPT ![n] = {}]
    /\ get' = [g \in Gets |-> IF g \in told THEN "away" ELSE get[g]]
    /\ said' = [said EXCEPT ![n] = "nothing"]
    /\ UNCHANGED <<readThrough, copy>>

\* Mutant: the fetch runs under the caller's context.
GetLeavesAndCancels(g) ==
    LET n == at[g]
    IN  /\ get[g] = "waiting"
        /\ get' = [get EXCEPT ![g] = "away"]
        /\ waiters' = [waiters EXCEPT ![n] = @ \ {g}]
        /\ flight' = [flight EXCEPT ![n] = IF @ = "fetching" THEN "Unavailable" ELSE @]
        /\ UNCHANGED <<readThrough, copy, said>>

\* The caller's context ends: its handler returns and the flight goes on.
GetLeaves(g) ==
    /\ get[g] = "waiting"
    /\ get' = [get EXCEPT ![g] = "away"]
    /\ waiters' = [waiters EXCEPT ![at[g]] = @ \ {g}]
    /\ UNCHANGED <<readThrough, copy, flight, said>>

\* Put and Delete, and what takes an entry away without being asked to.
SetCopy(n, c) ==
    /\ copy' = [copy EXCEPT ![n] = c]
    /\ UNCHANGED <<readThrough, flight, waiters, get, said>>

Evict(n) == copy[n] # None /\ SetCopy(n, None)

\* The node restarts, empty; its handlers are gone.
NodeRestarts(n) ==
    /\ copy' = [copy EXCEPT ![n] = None]
    /\ flight' = [flight EXCEPT ![n] = "none"] /\ waiters' = [waiters EXCEPT ![n] = {}]
    /\ get' = [g \in Gets |-> IF get[g] # "away" /\ at[g] = n THEN "away" ELSE get[g]]
    /\ said' = [said EXCEPT ![n] = "nothing"]
    /\ UNCHANGED readThrough

=============================================================================
