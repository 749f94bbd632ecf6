------------------------------- MODULE Cluster -------------------------------
(***************************************************************************)
(* A request's whole way: the gateway's HTTP adapter (cmd/gateway/http.go),*)
(* its slot and its route (cmd/gateway/main.go), the cache nodes' handlers *)
(* (CacheNode) and the way back, for one key. Get and Put go to the one    *)
(* node that bounded-load routing picks, which depends on the load of the  *)
(* moment and is any node here (see Gateway); Delete goes to all of them.  *)
(*                                                                         *)
(* A request is answered once, with an HTTP status. The gRPC surface is    *)
(* the same way without the adapter's own checks. A caller that is gone,   *)
(* or that was answered early, may leave calls behind that still reach     *)
(* their node.                                                             *)
(***************************************************************************)
EXTENDS CacheNode

CONSTANTS
    MaxInflight,   \* cap(server.inflight)
    MaxRestarts    \* bound on node restarts, for TLC

ASSUME ClusterAssumption ==
    /\ MaxInflight \in Nat \ {0} /\ MaxRestarts \in Nat
    /\ Gets \cap Puts = {} /\ Gets \cap Deletes = {} /\ Puts \cap Deletes = {}

VARIABLES
    pc,         \* request -> "new", "queued", "called" or "answered"
    calls,      \* <<request, node>>: calls of Puts and Deletes out to a node
    restarts,
    acked,      \* history: Puts answered with 200 and admitted = true
    shed,       \* history: Puts answered with a status that says they were not stored
    doomed,     \* history, Delete -> the Puts answered for good before it began
    dead,       \* history: Puts answered for good before a Delete that succeeded began
    seen,       \* history, Put -> the Puts acknowledged before it began
    superseded, \* history: Puts acknowledged before an acknowledged one began
    bar         \* history, Get -> the Puts superseded before it began

begun == <<doomed, seen, bar>>
known == <<acked, shed, dead, superseded>>
vars == <<nodeVars, at, pc, calls, restarts, begun, known>>

Requests == Gets \cup Puts \cup Deletes
Holding == {r \in Requests : pc[r] = "called"}

Init ==
    /\ NodeInit
    /\ at = [g \in Gets |-> None]
    /\ pc = [r \in Requests |-> "new"]
    /\ calls = {} /\ restarts = 0
    /\ shed = {} /\ dead = {} /\ acked = {} /\ superseded = {}
    /\ doomed = [d \in Deletes |-> {}] /\ seen = [p \in Puts |-> {}] /\ bar = [g \in Gets |-> {}]

-----------------------------------------------------------------------------
(* Answers.                                                                *)

\* writeStatus: the status of a gRPC code.
Status == [InvalidArgument |-> 400, NotFound |-> 404, ResourceExhausted |-> 429,
           Unavailable |-> 503, DeadlineExceeded |-> 504, Canceled |-> 499, Internal |-> 500]

\* Statuses that leave a Put's fate open: the node may have stored it, or will.
Open == {503, 504, 499, 500}

AnswerAll(rs) ==
    /\ pc' = [r \in Requests |-> IF r \in rs THEN "answered" ELSE pc[r]]
    /\ at' = [g \in Gets |-> IF g \in rs THEN None ELSE at[g]]

\* An answer other than a success, and what the client of a Put knows from it.
Refuse(r, status) ==
    /\ AnswerAll({r})
    /\ shed' = IF r \in Puts /\ status \notin Open THEN shed \cup {r} ELSE shed
    /\ UNCHANGED <<acked, dead, superseded>>

\* Nobody is answered.
Silent == UNCHANGED <<pc, at, known>>

\* The request begins: what was true before it did.
Begins(r) ==
    /\ doomed' = IF r \in Deletes THEN [doomed EXCEPT ![r] = acked \cup shed] ELSE doomed
    /\ seen' = IF r \in Puts THEN [seen EXCEPT ![r] = acked] ELSE seen
    /\ bar' = IF r \in Gets THEN [bar EXCEPT ![r] = superseded] ELSE bar

-----------------------------------------------------------------------------
(* The HTTP adapter and the gateway's slot.                                *)

\* A request the adapter refuses by itself: 401 without the token, 400 with an
\* empty key, a ttl that is no duration or out of range, or a body that breaks
\* off, 413 with a body over the limit.
HTTPRefuses(r) ==
    /\ pc[r] = "new"
    /\ \E status \in {401, 400} \cup (IF r \in Puts THEN {413} ELSE {}) :
          Refuse(r, status)
    /\ UNCHANGED <<nodeVars, calls, restarts, begun>>

Arrives(r) ==
    /\ pc[r] = "new"
    /\ pc' = [pc EXCEPT ![r] = "queued"]
    /\ Begins(r)
    /\ UNCHANGED <<nodeVars, at, calls, restarts, known>>

\* Mutant: the error of admit is answered and the call goes out all the same.
AdmitExpiresAndCalls(r) ==
    /\ pc[r] = "queued"
    /\ Refuse(r, 429)
    /\ IF r \in Puts THEN \E n \in Nodes : calls' = calls \cup {<<r, n>>} ELSE UNCHANGED calls
    /\ UNCHANGED <<nodeVars, restarts, begun>>

\* admit: the context ends first. A deadline is ResourceExhausted.
AdmitExpires(r) ==
    /\ pc[r] = "queued"
    /\ \E code \in {"ResourceExhausted", "Canceled"} : Refuse(r, Status[code])
    /\ UNCHANGED <<nodeVars, calls, restarts, begun>>

\* The request has a slot.
Called(r) ==
    /\ pc[r] = "queued" /\ Cardinality(Holding) < MaxInflight
    /\ pc' = [pc EXCEPT ![r] = "called"]
    /\ UNCHANGED <<nodeVars, restarts, begun, known>>

\* forward: a slot, a node, and the call.
ForwardGet(g, n) ==
    /\ Called(g)
    /\ at' = [at EXCEPT ![g] = n]
    /\ UNCHANGED calls

ForwardPut(p, n) ==
    /\ Called(p)
    /\ calls' = calls \cup {<<p, n>>}
    /\ UNCHANGED at

\* Mutant: the Delete is routed like a Put.
BroadcastToOne(d) ==
    /\ Called(d)
    /\ \E n \in Nodes : calls' = calls \cup {<<d, n>>}
    /\ UNCHANGED at

\* broadcast: a slot, and a call to every node.
Broadcast(d) ==
    /\ Called(d)
    /\ calls' = calls \cup {<<d, n>> : n \in Nodes}
    /\ UNCHANGED at

\* The caller's deadline passes or it goes away while a node has the request. A
\* Put or Delete that is out may still arrive.
GivesUp(r) ==
    /\ pc[r] = "called"
    /\ \E code \in {"DeadlineExceeded", "Canceled"} : Refuse(r, Status[code])
    /\ IF r \in Gets /\ get[r] = "waiting" THEN GetLeaves(r)
       ELSE (r \in Gets => get[r] = "away") /\ UNCHANGED nodeVars
    /\ UNCHANGED <<calls, restarts, begun>>

-----------------------------------------------------------------------------
(* Get.                                                                    *)

\* 200 with the copy, 404 in cache-aside mode, or a fetch.
Lookup(g) ==
    /\ pc[g] = "called" /\ get[g] = "away"
    /\ \/ /\ copy[at[g]] # None \/ ~readThrough
          /\ AnswerAll({g})
          /\ UNCHANGED <<nodeVars, known>>
       \/ GetMissed(g) /\ Silent
    /\ UNCHANGED <<calls, restarts, begun>>

Misses(g) == DoChan(g) /\ Silent /\ UNCHANGED <<calls, restarts, begun>>

Flies(n) ==
    /\ OriginAnswers(n) \/ OriginNotFound(n) \/ OriginFails(n) \/ FlightAdmit(n)
    /\ Silent /\ UNCHANGED <<calls, restarts, begun>>

\* What Get makes of the flight's result.
FlightStatus(n) ==
    IF flight[n] = "result" THEN 200
    ELSE IF flight[n] = "notFound" THEN 404 ELSE Status[flight[n]]

\* Mutant: the result goes to one of the waiters only.
FlightAnswersOne(n) ==
    /\ \E w \in waiters[n] : FlightEnds(n, {w}) /\ AnswerAll({w})
    /\ UNCHANGED <<calls, restarts, begun, known>>

\* The flight ends, and its waiters are answered with FlightStatus.
FlightAnswers(n) ==
    /\ FlightEnds(n, waiters[n])
    /\ AnswerAll(waiters[n])
    /\ UNCHANGED <<calls, restarts, begun, known>>

-----------------------------------------------------------------------------
(* Put and Delete at a node.                                               *)

\* A call reaches its node. Its request may have been answered long since.
Received(r, n) == <<r, n>> \in calls /\ calls' = calls \ {<<r, n>>}

\* The node stores the value. Its client, if there is one, hears of it.
PutStored(p, n) ==
    /\ Received(p, n)
    /\ SetCopy(n, p)
    /\ IF pc[p] = "called"
       THEN /\ AnswerAll({p})
            /\ acked' = acked \cup {p} /\ superseded' = superseded \cup seen[p]
            /\ UNCHANGED <<shed, dead>>
       ELSE Silent
    /\ UNCHANGED <<restarts, begun>>

\* The shard declines: 200 with admitted = false, and the old copy stays. Or the
\* message is over the transport's limit although the body was not: 429.
PutDeclined(p, n) ==
    /\ Received(p, n)
    /\ IF pc[p] = "called"
       THEN \E status \in {200, Status["ResourceExhausted"]} : Refuse(p, status)
       ELSE Silent
    /\ UNCHANGED <<nodeVars, restarts, begun>>

DeleteAt(d, n) ==
    /\ Received(d, n)
    /\ SetCopy(n, None)
    /\ Silent /\ UNCHANGED <<restarts, begun>>

\* Every node has answered.
DeleteDone(d) ==
    /\ pc[d] = "called" /\ \A n \in Nodes : <<d, n>> \notin calls
    /\ AnswerAll({d})
    /\ dead' = dead \cup doomed[d]
    /\ UNCHANGED <<nodeVars, calls, restarts, begun, acked, shed, superseded>>

\* A call fails, before or after its node carried it out: the request is answered
\* with the error, a Delete with the key gone from some nodes; its other calls are
\* cancelled, which may be late.
CallFails(r, n) ==
    /\ <<r, n>> \in calls
    /\ \/ Received(r, n)
       \/ pc[r] = "called" /\ UNCHANGED calls
    /\ IF pc[r] = "called"
       THEN \E code \in {"Unavailable", "Internal"} : Refuse(r, Status[code])
       ELSE Silent
    /\ UNCHANGED <<nodeVars, restarts, begun>>

-----------------------------------------------------------------------------
Evicts(n) == Evict(n) /\ Silent /\ UNCHANGED <<calls, restarts, begun>>

\* A node restarts: it comes back empty and the Gets it served get an error, as
\* its Puts and Deletes do in CallFails.
Restart(n) ==
    /\ restarts < MaxRestarts
    /\ restarts' = restarts + 1
    /\ NodeRestarts(n)
    /\ AnswerAll({g \in Gets : at[g] = n})
    /\ UNCHANGED <<calls, begun, known>>

Finished ==
    /\ \A r \in Requests : pc[r] = "answered"
    /\ calls = {} /\ \A n \in Nodes : flight[n] = "none"
    /\ UNCHANGED vars

Next ==
    \/ \E r \in Requests :
          \/ HTTPRefuses(r) \/ Arrives(r) \/ AdmitExpires(r) \/ GivesUp(r)
          \/ \E n \in Nodes : CallFails(r, n)
    \/ \E g \in Gets : Lookup(g) \/ Misses(g)
    \/ \E n \in Nodes :
          \/ Flies(n) \/ FlightAnswers(n) \/ Evicts(n) \/ Restart(n)
          \/ \E g \in Gets : ForwardGet(g, n)
          \/ \E p \in Puts : ForwardPut(p, n) \/ PutStored(p, n) \/ PutDeclined(p, n)
          \/ \E d \in Deletes : DeleteAt(d, n)
    \/ \E d \in Deletes : Broadcast(d) \/ DeleteDone(d)
    \/ Finished

Spec == Init /\ [][Next]_vars

\* Goroutines are scheduled, and an origin call ends: with an answer, or with the
\* node's own timeout. No client is assumed to give up.
FairSpec ==
    /\ Spec
    /\ \A n \in Nodes : WF_vars(Flies(n)) /\ WF_vars(FlightAnswers(n))
    /\ \A g \in Gets : WF_vars(Misses(g))

-----------------------------------------------------------------------------
(* Properties.                                                             *)

\* The reason Delete reaches every node (docs/04-api.md: "the alternative is a
\* stale value resurfacing when load shifts back"): after a Delete answered with
\* 200, no node holds the value of a Put that was answered before the Delete
\* began with a status that settles it, whatever was fetched, evicted, put or
\* deleted half way in between. Only a Put whose client was told 5xx, or that
\* left, can come back.
DeletedStaysDeleted == \A n \in Nodes : copy[n] \notin dead

\* A Put that was refused, declined or shed (4xx but 499, and admitted = false)
\* left nothing behind: its value is on no node, then or later, so a client may
\* take the answer for final. admit's early return has to come before the call.
ShedLeavesNothing == \A n \in Nodes : copy[n] \notin shed

\* "nil here means not found" (cachenode main.go:76): with an origin behind the
\* cache a fetch is answered 404 only if the origin said that it has no such key.
\* An empty value, a failed fetch or a caller that left is never a 404.
NotFoundIsAbsent ==
    \A n \in Nodes : Landed(n) /\ FlightStatus(n) = 404 => said[n] = "absent"

\* "The call runs under its own originTimeout rather than any one caller's
\* context, because every waiter shares its result" (cachenode main.go:49): the
\* Gets that share a fetch are answered with a failure only if the origin failed;
\* the client that started it giving up never fails the others.
FailuresAreOrigins ==
    \A n \in Nodes : Landed(n) /\ FlightStatus(n) \in {503, 504} => said[n] = "failed"

\* Every Get that missed is answered, whatever the other clients, the origin and
\* the shard do meanwhile.
EveryMissAnswered == \A g \in Gets : get[g] = "missed" ~> pc[g] = "answered"

\* "Spill is invisible to correctness ... A key served from a second node is a
\* miss that becomes a fetch, not a wrong answer" (docs/adr/0007:39): a Get is
\* never about to be answered with a Put that another acknowledged Put had
\* replaced before the Get began.
NoOlderPutRead ==
    \A g \in Gets : pc[g] = "called" /\ get[g] = "away" => copy[at[g]] \notin bar[g]
=============================================================================
