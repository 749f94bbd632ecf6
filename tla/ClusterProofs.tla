---------------------------- MODULE ClusterProofs ----------------------------
(***************************************************************************)
(* Proofs about Cluster, for every number of nodes and requests, every     *)
(* capacity and every number of restarts.                                  *)
(*                                                                         *)
(* The safety properties of the runs are not inductive by themselves. What *)
(* makes them so is where a request's traces can be: a Put has at most one *)
(* call out, and none once its answer settles it, so nothing can bring a   *)
(* settled value back; and while a Delete is out, each node either still   *)
(* has its call to come or holds nothing of what was settled before it.    *)
(***************************************************************************)
EXTENDS Cluster, TLAPS

Phases == {"none", "fetching", "bytes", "nil", "result", "notFound",
           "Unavailable", "DeadlineExceeded"}

NodesTypeOK ==
    /\ copy \in [Nodes -> Puts \cup {Origin, None}]
    /\ flight \in [Nodes -> Phases]
    /\ waiters \in [Nodes -> SUBSET Gets]
    /\ get \in [Gets -> {"away", "missed", "waiting"}]
    /\ said \in [Nodes -> {"nothing", "found", "absent", "failed"}]

RequestsTypeOK ==
    /\ at \in [Gets -> Nodes \cup {None}]
    /\ pc \in [Requests -> {"new", "queued", "called", "answered"}]

KnownTypeOK ==
    /\ calls \in SUBSET ((Puts \cup Deletes) \X Nodes)
    /\ acked \in SUBSET Puts /\ shed \in SUBSET Puts
    /\ doomed \in [Deletes -> SUBSET Puts]

TypeOK == NodesTypeOK /\ RequestsTypeOK /\ KnownTypeOK

\* A Get is at a node for as long as it is called.
GetInv(g) ==
    /\ get[g] # "away" => pc[g] = "called"
    /\ pc[g] = "called" => at[g] \in Nodes

\* The phase of a flight says what the origin said.
SaidInv(n) ==
    /\ flight[n] = "notFound" => said[n] = "absent"
    /\ flight[n] \in {"Unavailable", "DeadlineExceeded"} => said[n] = "failed"

Settled == acked \cup shed

\* Where a Put's value can be, and where it can still come from.
PutInv(p) ==
    /\ \A m, n \in Nodes : <<p, m>> \in calls /\ <<p, n>> \in calls => m = n
    /\ pc[p] # "answered" => p \notin Settled /\ \A n \in Nodes : copy[n] # p
    /\ pc[p] \in {"new", "queued"} \/ p \in Settled => \A n \in Nodes : <<p, n>> \notin calls
    /\ p \in shed => \A n \in Nodes : copy[n] # p

\* What a Delete has yet to do at a node, its call is there to do.
DeleteInv(d) ==
    /\ doomed[d] \subseteq Settled
    /\ pc[d] = "called" => \A n \in Nodes : <<d, n>> \in calls \/ copy[n] \notin doomed[d]

DeadInv == dead \subseteq Settled /\ DeletedStaysDeleted

\* Whoever waits has a call to wait for, the one of its node.
WaitersHaveFlight ==
    \A n \in Nodes :
        /\ waiters[n] = {g \in Gets : get[g] = "waiting" /\ at[g] = n}
        /\ waiters[n] # {} => flight[n] # "none"

GetsInv ==
    /\ WaitersHaveFlight
    /\ \A g \in Gets : GetInv(g)
    /\ \A n \in Nodes : SaidInv(n)

WritesInv ==
    /\ \A p \in Puts : PutInv(p)
    /\ \A d \in Deletes : DeleteInv(d)
    /\ DeadInv

Inv == TypeOK /\ GetsInv /\ WritesInv

-----------------------------------------------------------------------------
(* Frames: what a step may do without touching a part of the invariant.    *)

\* A step that only moves requests that are at no node.
LEMMA GetsKept ==
    ASSUME GetsInv, UNCHANGED <<flight, waiters, get, said>>,
           \A g \in Gets : /\ get[g] # "away" => at'[g] = at[g] /\ pc'[g] = pc[g]
                           /\ pc'[g] = "called" => at'[g] \in Nodes
    PROVE  GetsInv'
<1>1. WaitersHaveFlight'
    BY DEF GetsInv, WaitersHaveFlight
<1>2. \A g \in Gets : GetInv(g)'
    BY DEF GetsInv, GetInv
<1>3. \A n \in Nodes : SaidInv(n)'
    BY DEF GetsInv, SaidInv
<1> QED BY <1>1, <1>2, <1>3 DEF GetsInv

\* A step that only moves Gets, or puts the origin's value or nothing on a node.
LEMMA WritesKept ==
    ASSUME WritesInv, UNCHANGED <<calls, acked, shed, doomed, dead>>,
           acked \subseteq Puts, shed \subseteq Puts,
           \A n \in Nodes : copy'[n] = copy[n] \/ copy'[n] \notin Puts,
           \A r \in Puts \cup Deletes : pc'[r] = pc[r]
    PROVE  WritesInv'
<1>1. \A p \in Puts : PutInv(p)'
    BY DEF WritesInv, PutInv, Settled
<1>2. \A d \in Deletes : DeleteInv(d)'
    BY DEF WritesInv, DeleteInv, Settled
<1>3. DeadInv'
    BY DEF WritesInv, DeadInv, DeletedStaysDeleted, Settled
<1> QED BY <1>1, <1>2, <1>3 DEF WritesInv

\* A request is answered.
LEMMA AnswerOne ==
    ASSUME RequestsTypeOK, NEW r \in Requests, AnswerAll({r})
    PROVE  /\ RequestsTypeOK'
           /\ \A q \in Requests : pc'[q] = IF q = r THEN "answered" ELSE pc[q]
           /\ \A g \in Gets : at'[g] = IF g = r THEN None ELSE at[g]
BY DEF AnswerAll, RequestsTypeOK, Requests

LEMMA Typed ==
    ASSUME NodesTypeOK', RequestsTypeOK', KnownTypeOK', GetsInv', WritesInv'
    PROVE  Inv'
BY DEF Inv, TypeOK

\* The kinds of requests are distinct, and so are the values of a copy.
LEMMA Kinds ==
    /\ Gets \cap Puts = {} /\ Gets \cap Deletes = {} /\ Puts \cap Deletes = {}
    /\ Gets \subseteq Requests /\ Puts \subseteq Requests /\ Deletes \subseteq Requests
    /\ None \notin Puts /\ Origin \notin Puts
BY CacheNodeAssumption, ClusterAssumption DEF Requests

-----------------------------------------------------------------------------
(* The actions.                                                            *)

LEMMA InitInv == Init => Inv
<1> SUFFICES ASSUME Init PROVE Inv
    OBVIOUS
<1>1. TypeOK
    BY DEF Init, NodeInit, TypeOK, NodesTypeOK, RequestsTypeOK, KnownTypeOK, Phases
<1>2. GetsInv
    BY DEF Init, NodeInit, GetsInv, WaitersHaveFlight, GetInv, SaidInv, Requests
<1>3. WritesInv
    BY Kinds DEF Init, NodeInit, WritesInv, PutInv, DeleteInv, DeadInv, DeletedStaysDeleted, Settled
<1> QED BY <1>1, <1>2, <1>3 DEF Inv

\* A request that had no slot yet is answered: none of its calls went out.
LEMMA TurnedAway ==
    ASSUME Inv, NEW r \in Requests, pc[r] \in {"new", "queued"},
           \E status : Refuse(r, status), UNCHANGED <<nodeVars, calls, doomed>>
    PROVE  Inv'
<1>1. /\ NodesTypeOK /\ RequestsTypeOK /\ KnownTypeOK /\ GetsInv /\ WritesInv
      /\ UNCHANGED <<copy, flight, waiters, get, said>>
    BY DEF Inv, TypeOK, nodeVars
<1>2. /\ AnswerAll({r}) /\ UNCHANGED <<acked, dead>>
      /\ shed' = shed \/ (r \in Puts /\ shed' = shed \cup {r})
    BY DEF Refuse
<1>3. NodesTypeOK' /\ KnownTypeOK'
    BY <1>1, <1>2 DEF NodesTypeOK, KnownTypeOK
<1>4. /\ RequestsTypeOK'
      /\ \A q \in Requests : pc'[q] = IF q = r THEN "answered" ELSE pc[q]
      /\ \A g \in Gets : at'[g] = IF g = r THEN None ELSE at[g]
    BY <1>1, <1>2, AnswerOne
<1>5. GetsInv'
  <2>1. \A g \in Gets : g # r => at'[g] = at[g] /\ pc'[g] = pc[g]
      BY <1>4, Kinds
  <2>2. r \in Gets => get[r] = "away" /\ pc'[r] = "answered"
      BY <1>1, <1>4 DEF GetsInv, GetInv
  <2>3. \A g \in Gets : pc[g] = "called" => at[g] \in Nodes
      BY <1>1 DEF GetsInv, GetInv
  <2> QED BY <1>1, <2>1, <2>2, <2>3, GetsKept
<1>6. WritesInv'
  <2>1. \A p \in Puts : PutInv(p)'
      BY <1>1, <1>2, <1>4, Kinds DEF WritesInv, PutInv, Settled
  <2>2. \A d \in Deletes : DeleteInv(d)'
      BY <1>1, <1>2, <1>4, Kinds DEF WritesInv, DeleteInv, Settled
  <2>3. DeadInv'
      BY <1>1, <1>2 DEF WritesInv, DeadInv, DeletedStaysDeleted, Settled
  <2> QED BY <2>1, <2>2, <2>3 DEF WritesInv
<1> QED BY <1>3, <1>4, <1>5, <1>6, Typed

\* The request begins. What a Delete is to remove has been settled.
LEMMA ArrivesInv ==
    ASSUME Inv, NEW r \in Requests, Arrives(r)
    PROVE  Inv'
<1>1. /\ NodesTypeOK /\ RequestsTypeOK /\ KnownTypeOK /\ GetsInv /\ WritesInv
      /\ UNCHANGED <<copy, flight, waiters, get, said, at, calls, acked, shed, dead>>
      /\ pc[r] = "new" /\ pc' = [pc EXCEPT ![r] = "queued"]
    BY DEF Inv, TypeOK, Arrives, nodeVars, known
<1>2. doomed' = IF r \in Deletes THEN [doomed EXCEPT ![r] = Settled] ELSE doomed
    BY DEF Arrives, Begins, Settled
<1>3. NodesTypeOK' /\ RequestsTypeOK'
    BY <1>1 DEF NodesTypeOK, RequestsTypeOK
<1>4. KnownTypeOK'
    BY <1>1, <1>2 DEF KnownTypeOK, Settled
<1>5. GetsInv'
  <2>1. \A g \in Gets : pc'[g] = pc[g] \/ (pc[g] = "new" /\ pc'[g] = "queued")
      BY <1>1 DEF RequestsTypeOK
  <2>2. \A g \in Gets : GetInv(g)
      BY <1>1 DEF GetsInv
  <2> QED BY <1>1, <2>1, <2>2, GetsKept DEF GetInv
<1>6. WritesInv'
  <2>1. \A p \in Puts : PutInv(p)'
      BY <1>1, Kinds DEF WritesInv, PutInv, Settled, RequestsTypeOK
  <2>2. \A d \in Deletes : DeleteInv(d)'
      BY <1>1, <1>2, Kinds DEF WritesInv, DeleteInv, Settled, RequestsTypeOK, KnownTypeOK
  <2>3. DeadInv'
      BY <1>1 DEF WritesInv, DeadInv, DeletedStaysDeleted, Settled
  <2> QED BY <2>1, <2>2, <2>3 DEF WritesInv
<1> QED BY <1>3, <1>4, <1>5, <1>6, Typed

\* The call of a Get goes out.
LEMMA ForwardGetInv ==
    ASSUME Inv, NEW g \in Gets, NEW n \in Nodes, ForwardGet(g, n)
    PROVE  Inv'
<1>1. /\ NodesTypeOK /\ RequestsTypeOK /\ KnownTypeOK /\ GetsInv /\ WritesInv
      /\ UNCHANGED <<copy, flight, waiters, get, said, calls, acked, shed, dead, doomed>>
      /\ pc[g] = "queued" /\ pc' = [pc EXCEPT ![g] = "called"] /\ at' = [at EXCEPT ![g] = n]
    BY DEF Inv, TypeOK, ForwardGet, Called, nodeVars, begun, known
<1>2. NodesTypeOK' /\ RequestsTypeOK' /\ KnownTypeOK'
    BY <1>1 DEF NodesTypeOK, RequestsTypeOK, KnownTypeOK
<1>3. \A h \in Gets : /\ h # g => at'[h] = at[h] /\ pc'[h] = pc[h]
                      /\ h = g => at'[h] = n
    BY <1>1 DEF RequestsTypeOK
<1>4. \A h \in Gets : GetInv(h)
    BY <1>1 DEF GetsInv
<1>5. GetsInv'
    BY <1>1, <1>3, <1>4, GetsKept DEF GetInv
<1>6. \A r \in Puts \cup Deletes : pc'[r] = pc[r]
    BY <1>1, Kinds DEF RequestsTypeOK
<1>7. WritesInv'
    BY <1>1, <1>6, WritesKept DEF KnownTypeOK
<1> QED BY <1>2, <1>5, <1>7, Typed

\* The only call of a Put goes out.
LEMMA ForwardPutInv ==
    ASSUME Inv, NEW p \in Puts, NEW n \in Nodes, ForwardPut(p, n)
    PROVE  Inv'
<1>1. /\ NodesTypeOK /\ RequestsTypeOK /\ KnownTypeOK /\ GetsInv /\ WritesInv
      /\ UNCHANGED <<copy, flight, waiters, get, said, at, acked, shed, dead, doomed>>
      /\ pc[p] = "queued" /\ pc' = [pc EXCEPT ![p] = "called"]
      /\ calls' = calls \cup {<<p, n>>}
    BY DEF Inv, TypeOK, ForwardPut, Called, nodeVars, begun, known
<1>2. NodesTypeOK' /\ RequestsTypeOK' /\ KnownTypeOK'
  <2>1. calls' \in SUBSET ((Puts \cup Deletes) \X Nodes)
      BY <1>1 DEF KnownTypeOK
  <2> QED BY <1>1, <2>1 DEF NodesTypeOK, RequestsTypeOK, KnownTypeOK
<1>3. \A g \in Gets : pc'[g] = pc[g]
    BY <1>1, Kinds DEF RequestsTypeOK
<1>4. \A g \in Gets : GetInv(g)
    BY <1>1 DEF GetsInv
<1>5. GetsInv'
    BY <1>1, <1>3, <1>4, GetsKept DEF GetInv
<1>6. WritesInv'
  <2>1. \A q \in Puts : PutInv(q)'
      BY <1>1, Kinds DEF WritesInv, PutInv, Settled, RequestsTypeOK
  <2>2. \A d \in Deletes : DeleteInv(d)'
      BY <1>1, Kinds DEF WritesInv, DeleteInv, Settled, RequestsTypeOK
  <2>3. DeadInv'
      BY <1>1 DEF WritesInv, DeadInv, DeletedStaysDeleted, Settled
  <2> QED BY <2>1, <2>2, <2>3 DEF WritesInv
<1> QED BY <1>2, <1>5, <1>6, Typed

\* The calls of a Delete go out, to every node.
LEMMA BroadcastInv ==
    ASSUME Inv, NEW d \in Deletes, Broadcast(d)
    PROVE  Inv'
<1>1. /\ NodesTypeOK /\ RequestsTypeOK /\ KnownTypeOK /\ GetsInv /\ WritesInv
      /\ UNCHANGED <<copy, flight, waiters, get, said, at, acked, shed, dead, doomed>>
      /\ pc[d] = "queued" /\ pc' = [pc EXCEPT ![d] = "called"]
      /\ calls' = calls \cup {<<d, n>> : n \in Nodes}
    BY DEF Inv, TypeOK, Broadcast, Called, nodeVars, begun, known
<1>2. NodesTypeOK' /\ RequestsTypeOK' /\ KnownTypeOK'
  <2>1. calls' \in SUBSET ((Puts \cup Deletes) \X Nodes)
      BY <1>1 DEF KnownTypeOK
  <2> QED BY <1>1, <2>1 DEF NodesTypeOK, RequestsTypeOK, KnownTypeOK
<1>3. \A g \in Gets : pc'[g] = pc[g]
    BY <1>1, Kinds DEF RequestsTypeOK
<1>4. \A g \in Gets : GetInv(g)
    BY <1>1 DEF GetsInv
<1>5. GetsInv'
    BY <1>1, <1>3, <1>4, GetsKept DEF GetInv
<1>6. WritesInv'
  <2>1. \A p \in Puts : PutInv(p)'
      BY <1>1, Kinds DEF WritesInv, PutInv, Settled, RequestsTypeOK
  <2>2. \A e \in Deletes : DeleteInv(e)'
      BY <1>1, Kinds DEF WritesInv, DeleteInv, Settled, RequestsTypeOK
  <2>3. DeadInv'
      BY <1>1 DEF WritesInv, DeadInv, DeletedStaysDeleted, Settled
  <2> QED BY <2>1, <2>2, <2>3 DEF WritesInv
<1> QED BY <1>2, <1>5, <1>6, Typed

\* A request whose call is out is answered, and its fate is left open.
LEMMA AnsweredOpen ==
    ASSUME Inv, NEW r \in Requests, pc[r] = "called", AnswerAll({r}),
           UNCHANGED <<copy, acked, shed, dead, doomed>>,
           calls' = calls \/ \E n \in Nodes : calls' = calls \ {<<r, n>>}
    PROVE  WritesInv' /\ RequestsTypeOK' /\ KnownTypeOK'
<1>1. RequestsTypeOK /\ KnownTypeOK /\ WritesInv
    BY DEF Inv, TypeOK
<1>2. /\ RequestsTypeOK'
      /\ \A q \in Requests : pc'[q] = IF q = r THEN "answered" ELSE pc[q]
    BY <1>1, AnswerOne
<1>3. KnownTypeOK'
    BY <1>1 DEF KnownTypeOK
<1>4. \A p \in Puts : PutInv(p)'
    BY <1>1, <1>2, Kinds DEF WritesInv, PutInv, Settled
<1>5. \A d \in Deletes : DeleteInv(d)'
    BY <1>1, <1>2, Kinds DEF WritesInv, DeleteInv, Settled
<1>6. DeadInv'
    BY <1>1 DEF WritesInv, DeadInv, DeletedStaysDeleted, Settled
<1> QED BY <1>2, <1>3, <1>4, <1>5, <1>6 DEF WritesInv

\* A step that answers no Get, or one that is at no node.
LEMMA AnsweredGets ==
    ASSUME GetsInv, RequestsTypeOK, NEW r \in Requests, AnswerAll({r}),
           r \in Gets => get[r] = "away", UNCHANGED <<flight, waiters, get, said>>
    PROVE  GetsInv'
<1>1. /\ \A q \in Requests : pc'[q] = IF q = r THEN "answered" ELSE pc[q]
      /\ \A g \in Gets : at'[g] = IF g = r THEN None ELSE at[g]
    BY AnswerOne
<1>2. \A g \in Gets : GetInv(g)
    BY DEF GetsInv
<1> QED BY <1>1, <1>2, Kinds, GetsKept DEF GetInv

\* The caller is gone. If it waited for a flight, the flight goes on without it.
LEMMA GivesUpInv ==
    ASSUME Inv, NEW r \in Requests, GivesUp(r)
    PROVE  Inv'
<1>1. /\ NodesTypeOK /\ RequestsTypeOK /\ KnownTypeOK /\ GetsInv /\ WritesInv
      /\ pc[r] = "called" /\ UNCHANGED <<calls, doomed>>
    BY DEF Inv, TypeOK, GivesUp, begun
<1>2. AnswerAll({r}) /\ UNCHANGED <<acked, shed, dead>>
    BY DEF GivesUp, Refuse, Status, Open
<1>3. CASE r \in Gets /\ get[r] = "waiting"
  <2>1. /\ get' = [get EXCEPT ![r] = "away"]
        /\ waiters' = [waiters EXCEPT ![at[r]] = @ \ {r}]
        /\ UNCHANGED <<copy, flight, said>>
      BY <1>3 DEF GivesUp, GetLeaves
  <2>2. NodesTypeOK'
    <3>1. waiters' \in [Nodes -> SUBSET Gets]
        BY <1>1, <2>1 DEF NodesTypeOK
    <3>2. get' \in [Gets -> {"away", "missed", "waiting"}]
        BY <1>1, <2>1 DEF NodesTypeOK
    <3> QED BY <1>1, <2>1, <3>1, <3>2 DEF NodesTypeOK
  <2>3. /\ \A q \in Requests : pc'[q] = IF q = r THEN "answered" ELSE pc[q]
        /\ \A g \in Gets : at'[g] = IF g = r THEN None ELSE at[g]
      BY <1>1, <1>2, AnswerOne
  <2>4. WaitersHaveFlight'
    <3> SUFFICES ASSUME NEW n \in Nodes
                 PROVE  /\ waiters'[n] = {g \in Gets : get'[g] = "waiting" /\ at'[g] = n}
                        /\ waiters'[n] # {} => flight'[n] # "none"
        BY DEF WaitersHaveFlight
    <3>1. /\ waiters[n] = {g \in Gets : get[g] = "waiting" /\ at[g] = n}
          /\ waiters[n] # {} => flight[n] # "none"
        BY <1>1 DEF GetsInv, WaitersHaveFlight
    <3>2. waiters'[n] = waiters[n] \ {r}
        BY <1>1, <1>3, <2>1, <3>1 DEF NodesTypeOK
    <3>3. \A g \in Gets : get'[g] = IF g = r THEN "away" ELSE get[g]
        BY <1>1, <2>1 DEF NodesTypeOK
    <3> QED BY <2>1, <2>3, <3>1, <3>2, <3>3
  <2>5. \A g \in Gets : GetInv(g)'
      BY <1>1, <1>3, <2>1, <2>3, Kinds DEF GetsInv, GetInv, NodesTypeOK
  <2>6. \A n \in Nodes : SaidInv(n)'
      BY <1>1, <2>1 DEF GetsInv, SaidInv
  <2>7. GetsInv'
      BY <2>4, <2>5, <2>6 DEF GetsInv
  <2> QED BY <1>1, <1>2, <2>1, <2>2, <2>7, AnsweredOpen, Typed
<1>4. CASE ~(r \in Gets /\ get[r] = "waiting")
  <2>1. (r \in Gets => get[r] = "away") /\ UNCHANGED <<copy, flight, waiters, get, said>>
      BY <1>4 DEF GivesUp, nodeVars
  <2>2. NodesTypeOK'
      BY <1>1, <2>1 DEF NodesTypeOK
  <2>3. GetsInv'
      BY <1>1, <1>2, <2>1, AnsweredGets
  <2> QED BY <1>1, <1>2, <2>1, <2>2, <2>3, AnsweredOpen, Typed
<1> QED BY <1>3, <1>4

\* A call is over, and nobody waits for it any more.
LEMMA CallLost ==
    ASSUME Inv, NEW r \in Puts \cup Deletes, NEW n \in Nodes, pc[r] # "called",
           calls' = calls \ {<<r, n>>}, UNCHANGED <<copy, acked, shed, dead, doomed, pc>>
    PROVE  WritesInv' /\ KnownTypeOK'
<1>1. KnownTypeOK /\ WritesInv
    BY DEF Inv, TypeOK
<1>2. KnownTypeOK'
    BY <1>1 DEF KnownTypeOK
<1>3. \A p \in Puts : PutInv(p)'
    BY <1>1 DEF WritesInv, PutInv, Settled
<1>4. \A d \in Deletes : DeleteInv(d)'
    BY <1>1 DEF WritesInv, DeleteInv, Settled
<1>5. DeadInv'
    BY <1>1 DEF WritesInv, DeadInv, DeletedStaysDeleted, Settled
<1> QED BY <1>2, <1>3, <1>4, <1>5 DEF WritesInv

LEMMA CallFailsInv ==
    ASSUME Inv, NEW r \in Requests, NEW n \in Nodes, CallFails(r, n)
    PROVE  Inv'
<1>1. /\ NodesTypeOK /\ RequestsTypeOK /\ KnownTypeOK /\ GetsInv /\ WritesInv
      /\ UNCHANGED <<copy, flight, waiters, get, said, doomed>>
    BY DEF Inv, TypeOK, CallFails, nodeVars, begun
<1>2. NodesTypeOK'
    BY <1>1 DEF NodesTypeOK
<1>3. r \in Puts \cup Deletes
    BY <1>1 DEF CallFails, KnownTypeOK
<1>4. calls' = calls \ {<<r, n>>} \/ (pc[r] = "called" /\ UNCHANGED calls)
    BY DEF CallFails, Received
<1>5. CASE pc[r] = "called"
  <2>1. AnswerAll({r}) /\ UNCHANGED <<acked, shed, dead>>
      BY <1>5 DEF CallFails, Refuse, Status, Open
  <2>2. GetsInv'
      BY <1>1, <1>3, <2>1, Kinds, AnsweredGets
  <2> QED BY <1>1, <1>2, <1>4, <1>5, <2>1, <2>2, AnsweredOpen, Typed
<1>6. CASE pc[r] # "called"
  <2>1. UNCHANGED <<pc, at, acked, shed, dead>>
      BY <1>6 DEF CallFails, Silent, known
  <2>2. RequestsTypeOK'
      BY <1>1, <2>1 DEF RequestsTypeOK
  <2>3. GetsInv'
      BY <1>1, <2>1, GetsKept DEF GetsInv, GetInv
  <2> QED BY <1>1, <1>2, <1>3, <1>4, <1>6, <2>1, <2>2, <2>3, CallLost, Typed
<1> QED BY <1>5, <1>6

-----------------------------------------------------------------------------
(* Get at its node.                                                        *)

LEMMA LookupInv ==
    ASSUME Inv, NEW g \in Gets, Lookup(g)
    PROVE  Inv'
<1>1. /\ NodesTypeOK /\ RequestsTypeOK /\ KnownTypeOK /\ GetsInv /\ WritesInv
      /\ pc[g] = "called" /\ get[g] = "away" /\ g \in Requests
      /\ UNCHANGED <<copy, flight, waiters, said, calls, acked, shed, dead, doomed>>
    BY Kinds DEF Inv, TypeOK, Lookup, GetMissed, Silent, nodeVars, begun, known
<1>2. CASE AnswerAll({g}) /\ UNCHANGED get
  <2>1. NodesTypeOK'
      BY <1>1, <1>2 DEF NodesTypeOK
  <2>2. GetsInv'
      BY <1>1, <1>2, AnsweredGets
  <2> QED BY <1>1, <1>2, <2>1, <2>2, AnsweredOpen, Typed
<1>3. CASE get' = [get EXCEPT ![g] = "missed"] /\ UNCHANGED <<pc, at>>
  <2>1. NodesTypeOK' /\ RequestsTypeOK' /\ KnownTypeOK'
      BY <1>1, <1>3 DEF NodesTypeOK, RequestsTypeOK, KnownTypeOK
  <2>2. \A h \in Gets : get'[h] = IF h = g THEN "missed" ELSE get[h]
      BY <1>1, <1>3 DEF NodesTypeOK
  <2>3. WaitersHaveFlight'
      BY <1>1, <1>3, <2>2 DEF GetsInv, WaitersHaveFlight
  <2>4. \A h \in Gets : GetInv(h)'
      BY <1>1, <1>3, <2>2 DEF GetsInv, GetInv
  <2>5. \A n \in Nodes : SaidInv(n)'
      BY <1>1 DEF GetsInv, SaidInv
  <2>6. GetsInv'
      BY <2>3, <2>4, <2>5 DEF GetsInv
  <2>7. WritesInv'
      BY <1>1, <1>3, WritesKept DEF KnownTypeOK
  <2> QED BY <2>1, <2>6, <2>7, Typed
<1> QED BY <1>2, <1>3 DEF Lookup, GetMissed, Silent, nodeVars

\* DoChan: whoever joins finds a flight there, or its own.
LEMMA MissesInv ==
    ASSUME Inv, NEW g \in Gets, Misses(g)
    PROVE  Inv'
<1> DEFINE n == at[g]
<1>1. /\ NodesTypeOK /\ RequestsTypeOK /\ KnownTypeOK /\ GetsInv /\ WritesInv
      /\ get[g] = "missed" /\ get' = [get EXCEPT ![g] = "waiting"]
      /\ waiters' = [waiters EXCEPT ![n] = waiters[n] \cup {g}]
      /\ flight' = [flight EXCEPT ![n] = IF flight[n] = "none" THEN "fetching" ELSE flight[n]]
      /\ UNCHANGED <<copy, said, pc, at, calls, acked, shed, dead, doomed>>
    BY DEF Inv, TypeOK, Misses, DoChan, Silent, begun, known
<1>2. pc[g] = "called" /\ n \in Nodes
    BY <1>1 DEF GetsInv, GetInv
<1> HIDE DEF n
<1>3. NodesTypeOK'
  <2>1. waiters' \in [Nodes -> SUBSET Gets]
      BY <1>1, <1>2 DEF NodesTypeOK
  <2>2. flight' \in [Nodes -> Phases]
      BY <1>1, <1>2 DEF NodesTypeOK, Phases
  <2> QED BY <1>1, <2>1, <2>2 DEF NodesTypeOK
<1>4. RequestsTypeOK' /\ KnownTypeOK'
    BY <1>1 DEF RequestsTypeOK, KnownTypeOK
<1>5. /\ \A h \in Gets : get'[h] = IF h = g THEN "waiting" ELSE get[h]
      /\ \A m \in Nodes : waiters'[m] = IF m = n THEN waiters[m] \cup {g} ELSE waiters[m]
      /\ \A m \in Nodes : flight'[m] = flight[m] \/ flight'[m] = "fetching"
      /\ flight'[n] # "none"
    BY <1>1, <1>2 DEF NodesTypeOK
<1>6. WaitersHaveFlight'
  <2> SUFFICES ASSUME NEW m \in Nodes
               PROVE  /\ waiters'[m] = {h \in Gets : get'[h] = "waiting" /\ at'[h] = m}
                      /\ waiters'[m] # {} => flight'[m] # "none"
      BY DEF WaitersHaveFlight
  <2>1. /\ waiters[m] = {h \in Gets : get[h] = "waiting" /\ at[h] = m}
        /\ waiters[m] # {} => flight[m] # "none"
      BY <1>1 DEF GetsInv, WaitersHaveFlight
  <2>2. at[g] = n
      BY DEF n
  <2> QED BY <1>1, <1>5, <2>1, <2>2
<1>7. \A h \in Gets : GetInv(h)'
    BY <1>1, <1>2, <1>5 DEF GetsInv, GetInv
<1>8. \A m \in Nodes : SaidInv(m)'
    BY <1>1, <1>5 DEF GetsInv, SaidInv
<1>9. GetsInv'
    BY <1>6, <1>7, <1>8 DEF GetsInv
<1>10. WritesInv'
    BY <1>1, WritesKept DEF KnownTypeOK
<1> QED BY <1>3, <1>4, <1>9, <1>10, Typed

\* A flight that is on goes on to another phase.
LEMMA FlightOn ==
    ASSUME Inv, NEW n \in Nodes, NEW phase \in Phases \ {"none"}, NEW word,
           flight[n] # "none", flight' = [flight EXCEPT ![n] = phase],
           word \in {"nothing", "found", "absent", "failed"}, said' = [said EXCEPT ![n] = word],
           phase = "notFound" => word = "absent",
           phase \in {"Unavailable", "DeadlineExceeded"} => word = "failed",
           \A m \in Nodes : copy'[m] = copy[m] \/ copy'[m] = Origin,
           copy' = [m \in Nodes |-> copy'[m]],
           UNCHANGED <<waiters, get, pc, at, calls, acked, shed, dead, doomed>>
    PROVE  Inv'
<1>1. NodesTypeOK /\ RequestsTypeOK /\ KnownTypeOK /\ GetsInv /\ WritesInv
    BY DEF Inv, TypeOK
<1>2. NodesTypeOK'
  <2>1. copy' \in [Nodes -> Puts \cup {Origin, None}]
      BY <1>1 DEF NodesTypeOK
  <2>2. flight' \in [Nodes -> Phases] /\ said' \in [Nodes -> {"nothing", "found", "absent", "failed"}]
      BY <1>1 DEF NodesTypeOK
  <2> QED BY <1>1, <2>1, <2>2 DEF NodesTypeOK
<1>3. RequestsTypeOK' /\ KnownTypeOK'
    BY <1>1 DEF RequestsTypeOK, KnownTypeOK
<1>4. \A m \in Nodes : /\ flight'[m] = IF m = n THEN phase ELSE flight[m]
                       /\ said'[m] = IF m = n THEN word ELSE said[m]
    BY <1>1 DEF NodesTypeOK
<1>5. WaitersHaveFlight'
  <2>1. \A m \in Nodes : flight[m] # "none" => flight'[m] # "none"
      BY <1>4
  <2> QED BY <1>1, <2>1 DEF GetsInv, WaitersHaveFlight
<1>6. \A g \in Gets : GetInv(g)'
    BY <1>1 DEF GetsInv, GetInv
<1>7. \A m \in Nodes : SaidInv(m)'
    BY <1>1, <1>4 DEF GetsInv, SaidInv
<1>8. GetsInv'
    BY <1>5, <1>6, <1>7 DEF GetsInv
<1>9. WritesInv'
    BY <1>1, Kinds, WritesKept DEF KnownTypeOK
<1> QED BY <1>2, <1>3, <1>8, <1>9, Typed

\* What the origin says is what the flight ends with.
LEMMA FliesInv ==
    ASSUME Inv, NEW n \in Nodes, Flies(n)
    PROVE  Inv'
<1>1. /\ NodesTypeOK
      /\ UNCHANGED <<waiters, get, pc, at, calls, acked, shed, dead, doomed>>
    BY DEF Inv, TypeOK, Flies, OriginAnswers, OriginNotFound, OriginFails, FlightAdmit, Fly,
           Silent, begun, known
<1>2. copy = [m \in Nodes |-> copy[m]] /\ said = [m \in Nodes |-> said[m]]
    BY <1>1 DEF NodesTypeOK
<1>3. CASE OriginAnswers(n)
  <2>1. /\ flight[n] = "fetching" /\ said' = [said EXCEPT ![n] = "found"] /\ UNCHANGED copy
      BY <1>3 DEF OriginAnswers
  <2>2. PICK decoded \in {"bytes", "nil"} : flight' = [flight EXCEPT ![n] = decoded]
      BY <1>3 DEF OriginAnswers, Fly
  <2> QED BY <1>1, <1>2, <2>1, <2>2, FlightOn DEF Phases
<1>4. CASE OriginNotFound(n)
  <2>1. /\ flight[n] = "fetching" /\ said' = [said EXCEPT ![n] = "absent"] /\ UNCHANGED copy
        /\ flight' = [flight EXCEPT ![n] = "notFound"]
      BY <1>4 DEF OriginNotFound, Fly
  <2> QED BY <1>1, <1>2, <2>1, FlightOn DEF Phases
<1>5. CASE OriginFails(n)
  <2>1. /\ flight[n] = "fetching" /\ said' = [said EXCEPT ![n] = "failed"] /\ UNCHANGED copy
      BY <1>5 DEF OriginFails
  <2>2. PICK code \in {"Unavailable", "DeadlineExceeded"} : flight' = [flight EXCEPT ![n] = code]
      BY <1>5 DEF OriginFails, Fly
  <2> QED BY <1>1, <1>2, <2>1, <2>2, FlightOn DEF Phases
<1>6. CASE FlightAdmit(n)
  <2>1. /\ flight[n] \in {"bytes", "nil"} /\ flight' = [flight EXCEPT ![n] = "result"]
        /\ copy' = [copy EXCEPT ![n] = Origin] \/ UNCHANGED copy
        /\ UNCHANGED said
      BY <1>6 DEF FlightAdmit, Fly
  <2>2. /\ copy' = [m \in Nodes |-> copy'[m]]
        /\ \A m \in Nodes : copy'[m] = copy[m] \/ copy'[m] = Origin
      BY <1>2, <2>1
  <2> DEFINE word == said[n]
  <2>3. said' = [said EXCEPT ![n] = word] /\ word \in {"nothing", "found", "absent", "failed"}
      BY <1>1, <1>2, <2>1 DEF NodesTypeOK
  <2> HIDE DEF word
  <2> QED BY <1>1, <2>1, <2>2, <2>3, FlightOn DEF Phases
<1> QED BY <1>3, <1>4, <1>5, <1>6 DEF Flies

\* The flight ends: nobody waits at its node any more, and nobody is sent away
\* who does not.
LEMMA FlightAnswersInv ==
    ASSUME Inv, NEW n \in Nodes, FlightAnswers(n)
    PROVE  Inv'
<1> DEFINE told == waiters[n]
<1>1. /\ NodesTypeOK /\ RequestsTypeOK /\ KnownTypeOK /\ GetsInv /\ WritesInv
      /\ flight' = [flight EXCEPT ![n] = "none"] /\ waiters' = [waiters EXCEPT ![n] = {}]
      /\ get' = [g \in Gets |-> IF g \in told THEN "away" ELSE get[g]]
      /\ said' = [said EXCEPT ![n] = "nothing"]
      /\ pc' = [r \in Requests |-> IF r \in told THEN "answered" ELSE pc[r]]
      /\ at' = [g \in Gets |-> IF g \in told THEN None ELSE at[g]]
      /\ UNCHANGED <<copy, calls, acked, shed, dead, doomed>>
    BY DEF Inv, TypeOK, FlightAnswers, FlightEnds, AnswerAll, begun, known
<1>2. told = {g \in Gets : get[g] = "waiting" /\ at[g] = n}
    BY <1>1 DEF GetsInv, WaitersHaveFlight
<1> HIDE DEF told
<1>3. NodesTypeOK'
  <2>1. get' \in [Gets -> {"away", "missed", "waiting"}]
      BY <1>1 DEF NodesTypeOK
  <2>2. waiters' \in [Nodes -> SUBSET Gets]
      BY <1>1 DEF NodesTypeOK
  <2>3. flight' \in [Nodes -> Phases] /\ said' \in [Nodes -> {"nothing", "found", "absent", "failed"}]
      BY <1>1 DEF NodesTypeOK, Phases
  <2> QED BY <1>1, <2>1, <2>2, <2>3 DEF NodesTypeOK
<1>4. RequestsTypeOK' /\ KnownTypeOK'
    BY <1>1 DEF RequestsTypeOK, KnownTypeOK
<1>5. WaitersHaveFlight'
    BY <1>1, <1>2 DEF GetsInv, WaitersHaveFlight, NodesTypeOK
<1>6. \A g \in Gets : GetInv(g)'
    BY <1>1, Kinds DEF GetsInv, GetInv
<1>7. \A m \in Nodes : SaidInv(m)'
    BY <1>1 DEF GetsInv, SaidInv, NodesTypeOK
<1>8. GetsInv'
    BY <1>5, <1>6, <1>7 DEF GetsInv
<1>9. \A r \in Puts \cup Deletes : pc'[r] = pc[r]
    BY <1>1, <1>2, Kinds DEF RequestsTypeOK
<1>10. WritesInv'
    BY <1>1, <1>9, WritesKept DEF KnownTypeOK
<1> QED BY <1>3, <1>4, <1>8, <1>10, Typed

\* A node restarts: its flight and whoever waited for it go together.
LEMMA RestartInv ==
    ASSUME Inv, NEW n \in Nodes, Restart(n)
    PROVE  Inv'
<1> DEFINE gone == {g \in Gets : at[g] = n}
<1>1. /\ NodesTypeOK /\ RequestsTypeOK /\ KnownTypeOK /\ GetsInv /\ WritesInv
      /\ copy' = [copy EXCEPT ![n] = None]
      /\ flight' = [flight EXCEPT ![n] = "none"] /\ waiters' = [waiters EXCEPT ![n] = {}]
      /\ get' = [g \in Gets |-> IF get[g] # "away" /\ at[g] = n THEN "away" ELSE get[g]]
      /\ said' = [said EXCEPT ![n] = "nothing"]
      /\ pc' = [r \in Requests |-> IF r \in gone THEN "answered" ELSE pc[r]]
      /\ at' = [g \in Gets |-> IF g \in gone THEN None ELSE at[g]]
      /\ UNCHANGED <<calls, acked, shed, dead, doomed>>
    BY DEF Inv, TypeOK, Restart, NodeRestarts, AnswerAll, begun, known
<1>2. \A g : g \in gone <=> g \in Gets /\ at[g] = n
    OBVIOUS
<1> HIDE DEF gone
<1>3. NodesTypeOK'
  <2>1. get' \in [Gets -> {"away", "missed", "waiting"}]
      BY <1>1 DEF NodesTypeOK
  <2>2. waiters' \in [Nodes -> SUBSET Gets] /\ copy' \in [Nodes -> Puts \cup {Origin, None}]
      BY <1>1 DEF NodesTypeOK
  <2>3. flight' \in [Nodes -> Phases] /\ said' \in [Nodes -> {"nothing", "found", "absent", "failed"}]
      BY <1>1 DEF NodesTypeOK, Phases
  <2> QED BY <1>1, <2>1, <2>2, <2>3 DEF NodesTypeOK
<1>4. RequestsTypeOK' /\ KnownTypeOK'
    BY <1>1 DEF RequestsTypeOK, KnownTypeOK
<1>5. \A g \in Gets : /\ get'[g] # "away" => get'[g] = get[g] /\ at[g] # n
                      /\ at[g] # n => get'[g] = get[g] /\ at'[g] = at[g] /\ pc'[g] = pc[g]
                      /\ at[g] = n => pc'[g] = "answered"
    BY <1>1, <1>2, Kinds DEF NodesTypeOK, RequestsTypeOK
<1>6. WaitersHaveFlight'
  <2> SUFFICES ASSUME NEW m \in Nodes
               PROVE  /\ waiters'[m] = {g \in Gets : get'[g] = "waiting" /\ at'[g] = m}
                      /\ waiters'[m] # {} => flight'[m] # "none"
      BY DEF WaitersHaveFlight
  <2>1. /\ waiters[m] = {g \in Gets : get[g] = "waiting" /\ at[g] = m}
        /\ waiters[m] # {} => flight[m] # "none"
      BY <1>1 DEF GetsInv, WaitersHaveFlight
  <2>2. CASE m = n
    <3>1. waiters'[m] = {} /\ flight'[m] = "none"
        BY <1>1, <2>2 DEF NodesTypeOK
    <3>2. \A g \in Gets : ~(get'[g] = "waiting" /\ at'[g] = m)
        BY <1>5, <2>2
    <3> QED BY <3>1, <3>2
  <2>3. CASE m # n
    <3>1. waiters'[m] = waiters[m] /\ flight'[m] = flight[m]
        BY <1>1, <2>3 DEF NodesTypeOK
    <3>2. \A g \in Gets : get'[g] = "waiting" /\ at'[g] = m <=> get[g] = "waiting" /\ at[g] = m
        BY <1>5, <2>3
    <3> QED BY <2>1, <3>1, <3>2
  <2> QED BY <2>2, <2>3
<1>7. \A g \in Gets : GetInv(g)'
    BY <1>1, <1>5 DEF GetsInv, GetInv
<1>8. \A m \in Nodes : SaidInv(m)'
    BY <1>1 DEF GetsInv, SaidInv, NodesTypeOK
<1>9. GetsInv'
    BY <1>6, <1>7, <1>8 DEF GetsInv
<1>10. \A m \in Nodes : copy'[m] = copy[m] \/ copy'[m] \notin Puts
    BY <1>1, Kinds DEF NodesTypeOK
<1>11. \A r \in Puts \cup Deletes : pc'[r] = pc[r]
    BY <1>1, <1>2, Kinds DEF RequestsTypeOK
<1>12. WritesInv'
    BY <1>1, <1>10, <1>11, WritesKept DEF KnownTypeOK
<1> QED BY <1>3, <1>4, <1>9, <1>12, Typed

\* An entry makes room for another key's, or expires.
LEMMA EvictsInv ==
    ASSUME Inv, NEW n \in Nodes, Evicts(n)
    PROVE  Inv'
<1>1. /\ NodesTypeOK /\ RequestsTypeOK /\ KnownTypeOK /\ GetsInv /\ WritesInv
      /\ copy' = [copy EXCEPT ![n] = None]
      /\ UNCHANGED <<flight, waiters, get, said, pc, at, calls, acked, shed, dead, doomed>>
    BY DEF Inv, TypeOK, Evicts, Evict, SetCopy, Silent, begun, known
<1>2. NodesTypeOK' /\ RequestsTypeOK' /\ KnownTypeOK'
    BY <1>1 DEF NodesTypeOK, RequestsTypeOK, KnownTypeOK
<1>3. GetsInv'
    BY <1>1, GetsKept DEF GetsInv, GetInv
<1>4. \A m \in Nodes : copy'[m] = copy[m] \/ copy'[m] \notin Puts
    BY <1>1, Kinds DEF NodesTypeOK
<1>5. WritesInv'
    BY <1>1, <1>4, WritesKept DEF KnownTypeOK
<1> QED BY <1>2, <1>3, <1>5, Typed

-----------------------------------------------------------------------------
(* Put and Delete at a node.                                               *)

\* The value is on the node, the only call that could bring it is gone.
LEMMA PutStoredInv ==
    ASSUME Inv, NEW p \in Puts, NEW n \in Nodes, PutStored(p, n)
    PROVE  Inv'
<1>1. /\ NodesTypeOK /\ RequestsTypeOK /\ KnownTypeOK /\ GetsInv /\ WritesInv
      /\ <<p, n>> \in calls /\ calls' = calls \ {<<p, n>>} /\ copy' = [copy EXCEPT ![n] = p]
      /\ UNCHANGED <<flight, waiters, get, said, shed, dead, doomed>>
    BY DEF Inv, TypeOK, PutStored, Received, SetCopy, Silent, begun, known
<1>2. /\ pc[p] = "called" => AnswerAll({p}) /\ acked' = acked \cup {p}
      /\ pc[p] # "called" => UNCHANGED <<pc, at, acked>>
    BY DEF PutStored, Silent, known
<1>3. p \notin Settled /\ pc[p] \in {"called", "answered"}
    BY <1>1, Kinds DEF WritesInv, PutInv, RequestsTypeOK
<1>4. NodesTypeOK'
    BY <1>1 DEF NodesTypeOK
<1>5. KnownTypeOK'
    BY <1>1, <1>2 DEF KnownTypeOK
<1>6. /\ RequestsTypeOK'
      /\ \A q \in Requests : q # p => pc'[q] = pc[q]
      /\ pc'[p] = "answered"
      /\ \A g \in Gets : at'[g] = at[g]
    BY <1>1, <1>2, <1>3, Kinds, AnswerOne DEF RequestsTypeOK
<1>7. GetsInv'
  <2>1. \A g \in Gets : pc'[g] = pc[g]
      BY <1>6, Kinds
  <2> QED BY <1>1, <1>6, <2>1, GetsKept DEF GetsInv, GetInv
<1>8. \A m \in Nodes : copy'[m] = IF m = n THEN p ELSE copy[m]
    BY <1>1 DEF NodesTypeOK
<1>9. Settled \subseteq Settled' /\ Settled' \subseteq Settled \cup {p}
    BY <1>1, <1>2 DEF Settled
<1>10. \A q \in Puts : PutInv(q)'
  <2> SUFFICES ASSUME NEW q \in Puts PROVE PutInv(q)'
      OBVIOUS
  <2>1. PutInv(q)
      BY <1>1 DEF WritesInv
  <2>2. CASE q = p
      BY <1>1, <1>3, <1>6, <2>1, <2>2 DEF PutInv, Settled
  <2>3. CASE q # p
      BY <1>1, <1>6, <1>8, <1>9, <2>1, <2>3, Kinds DEF PutInv
  <2> QED BY <2>2, <2>3
<1>11. \A d \in Deletes : DeleteInv(d)'
    BY <1>1, <1>3, <1>6, <1>8, <1>9, Kinds DEF WritesInv, DeleteInv
<1>12. DeadInv'
    BY <1>1, <1>3, <1>8, <1>9 DEF WritesInv, DeadInv, DeletedStaysDeleted
<1>13. WritesInv'
    BY <1>10, <1>11, <1>12 DEF WritesInv
<1> QED BY <1>4, <1>5, <1>6, <1>7, <1>13, Typed

\* The shard declines: the answer settles a Put that is on no node.
LEMMA PutDeclinedInv ==
    ASSUME Inv, NEW p \in Puts, NEW n \in Nodes, PutDeclined(p, n)
    PROVE  Inv'
<1>1. /\ NodesTypeOK /\ RequestsTypeOK /\ KnownTypeOK /\ GetsInv /\ WritesInv
      /\ <<p, n>> \in calls /\ calls' = calls \ {<<p, n>>}
      /\ UNCHANGED <<copy, flight, waiters, get, said, acked, dead, doomed>>
    BY DEF Inv, TypeOK, PutDeclined, Received, Refuse, Silent, nodeVars, begun, known
<1>2. NodesTypeOK'
    BY <1>1 DEF NodesTypeOK
<1>3. CASE pc[p] = "called"
  <2>1. AnswerAll({p}) /\ (shed' = shed \/ shed' = shed \cup {p})
      BY <1>3 DEF PutDeclined, Refuse
  <2>2. /\ RequestsTypeOK'
        /\ \A q \in Requests : pc'[q] = IF q = p THEN "answered" ELSE pc[q]
      BY <1>1, <2>1, Kinds, AnswerOne
  <2>3. KnownTypeOK'
      BY <1>1, <2>1 DEF KnownTypeOK
  <2>4. GetsInv'
      BY <1>1, <2>1, Kinds, AnsweredGets
  <2>5. \A q \in Puts : PutInv(q)'
    <3> SUFFICES ASSUME NEW q \in Puts PROVE PutInv(q)'
        OBVIOUS
    <3>1. PutInv(q)
        BY <1>1 DEF WritesInv
    <3>2. CASE q = p
        BY <1>1, <1>3, <2>2, <3>1, <3>2, Kinds DEF PutInv, Settled
    <3>3. CASE q # p
        BY <1>1, <2>1, <2>2, <3>1, <3>3, Kinds DEF PutInv, Settled
    <3> QED BY <3>2, <3>3
  <2>6. \A d \in Deletes : DeleteInv(d)'
      BY <1>1, <2>1, <2>2, Kinds DEF WritesInv, DeleteInv, Settled
  <2>7. DeadInv'
      BY <1>1, <2>1 DEF WritesInv, DeadInv, DeletedStaysDeleted, Settled
  <2>8. WritesInv'
      BY <2>5, <2>6, <2>7 DEF WritesInv
  <2> QED BY <1>2, <2>2, <2>3, <2>4, <2>8, Typed
<1>4. CASE pc[p] # "called"
  <2>1. UNCHANGED <<pc, at, shed>>
      BY <1>4 DEF PutDeclined, Silent, known
  <2>2. RequestsTypeOK'
      BY <1>1, <2>1 DEF RequestsTypeOK
  <2>3. GetsInv'
      BY <1>1, <2>1, GetsKept DEF GetsInv, GetInv
  <2> QED BY <1>1, <1>2, <1>4, <2>1, <2>2, <2>3, CallLost, Typed
<1> QED BY <1>3, <1>4

\* A call of a Delete is carried out, with its client or without.
LEMMA DeleteAtInv ==
    ASSUME Inv, NEW d \in Deletes, NEW n \in Nodes, DeleteAt(d, n)
    PROVE  Inv'
<1>1. /\ NodesTypeOK /\ RequestsTypeOK /\ KnownTypeOK /\ GetsInv /\ WritesInv
      /\ calls' = calls \ {<<d, n>>} /\ copy' = [copy EXCEPT ![n] = None]
      /\ UNCHANGED <<flight, waiters, get, said, pc, at, acked, shed, dead, doomed>>
    BY DEF Inv, TypeOK, DeleteAt, Received, SetCopy, Silent, begun, known
<1>2. NodesTypeOK' /\ RequestsTypeOK' /\ KnownTypeOK'
    BY <1>1 DEF NodesTypeOK, RequestsTypeOK, KnownTypeOK
<1>3. GetsInv'
    BY <1>1, GetsKept DEF GetsInv, GetInv
<1>4. \A m \in Nodes : copy'[m] = IF m = n THEN None ELSE copy[m]
    BY <1>1 DEF NodesTypeOK
<1>5. \A p \in Puts : PutInv(p)'
    BY <1>1, <1>4, Kinds DEF WritesInv, PutInv, Settled
<1>6. \A e \in Deletes : DeleteInv(e)'
    BY <1>1, <1>4, Kinds DEF WritesInv, DeleteInv, Settled, KnownTypeOK
<1>7. DeadInv'
    BY <1>1, <1>4, Kinds DEF WritesInv, DeadInv, DeletedStaysDeleted, Settled, KnownTypeOK
<1>8. WritesInv'
    BY <1>5, <1>6, <1>7 DEF WritesInv
<1> QED BY <1>2, <1>3, <1>8, Typed

\* Every node has answered: what was settled before is nowhere.
LEMMA DeleteDoneInv ==
    ASSUME Inv, NEW d \in Deletes, DeleteDone(d)
    PROVE  Inv'
<1>1. /\ NodesTypeOK /\ RequestsTypeOK /\ KnownTypeOK /\ GetsInv /\ WritesInv
      /\ pc[d] = "called" /\ \A n \in Nodes : <<d, n>> \notin calls
      /\ AnswerAll({d}) /\ dead' = dead \cup doomed[d]
      /\ UNCHANGED <<copy, flight, waiters, get, said, calls, acked, shed, doomed>>
    BY DEF Inv, TypeOK, DeleteDone, nodeVars, begun
<1>2. NodesTypeOK' /\ KnownTypeOK'
    BY <1>1 DEF NodesTypeOK, KnownTypeOK
<1>3. /\ RequestsTypeOK'
      /\ \A q \in Requests : pc'[q] = IF q = d THEN "answered" ELSE pc[q]
    BY <1>1, Kinds, AnswerOne
<1>4. GetsInv'
    BY <1>1, Kinds, AnsweredGets
<1>5. \A p \in Puts : PutInv(p)'
    BY <1>1, <1>3, Kinds DEF WritesInv, PutInv, Settled
<1>6. \A e \in Deletes : DeleteInv(e)'
    BY <1>1, <1>3, Kinds DEF WritesInv, DeleteInv, Settled
<1>7. DeadInv'
    BY <1>1 DEF WritesInv, DeleteInv, DeadInv, DeletedStaysDeleted, Settled
<1>8. WritesInv'
    BY <1>5, <1>6, <1>7 DEF WritesInv
<1> QED BY <1>2, <1>3, <1>4, <1>8, Typed

-----------------------------------------------------------------------------
\* Every step keeps the invariant.
LEMMA NextInv == Inv /\ [Next]_vars => Inv'
<1> SUFFICES ASSUME Inv, [Next]_vars PROVE Inv'
    OBVIOUS
<1>1. ASSUME NEW r \in Requests, HTTPRefuses(r) \/ AdmitExpires(r) PROVE Inv'
  <2>1. pc[r] \in {"new", "queued"} /\ \E status : Refuse(r, status)
      BY <1>1 DEF HTTPRefuses, AdmitExpires
  <2>2. UNCHANGED <<nodeVars, calls, doomed>>
      BY <1>1 DEF HTTPRefuses, AdmitExpires, begun
  <2> QED BY <2>1, <2>2, TurnedAway
<1>2. ASSUME NEW r \in Requests, Arrives(r) \/ GivesUp(r) \/ \E n \in Nodes : CallFails(r, n)
      PROVE  Inv'
    BY <1>2, ArrivesInv, GivesUpInv, CallFailsInv
<1>3. ASSUME NEW g \in Gets, Lookup(g) \/ Misses(g) PROVE Inv'
    BY <1>3, LookupInv, MissesInv
<1>4. ASSUME NEW n \in Nodes, Flies(n) \/ FlightAnswers(n) \/ Evicts(n) \/ Restart(n) PROVE Inv'
    BY <1>4, FliesInv, FlightAnswersInv, EvictsInv, RestartInv
<1>5. ASSUME NEW n \in Nodes, NEW g \in Gets, ForwardGet(g, n) PROVE Inv'
    BY <1>5, ForwardGetInv
<1>6. ASSUME NEW n \in Nodes, NEW p \in Puts,
             ForwardPut(p, n) \/ PutStored(p, n) \/ PutDeclined(p, n)
      PROVE  Inv'
    BY <1>6, ForwardPutInv, PutStoredInv, PutDeclinedInv
<1>7. ASSUME NEW n \in Nodes, NEW d \in Deletes, DeleteAt(d, n) PROVE Inv'
    BY <1>7, DeleteAtInv
<1>8. ASSUME NEW d \in Deletes, Broadcast(d) \/ DeleteDone(d) PROVE Inv'
    BY <1>8, BroadcastInv, DeleteDoneInv
<1>9. CASE UNCHANGED vars
  <2>1. UNCHANGED <<copy, flight, waiters, get, said, at, pc, calls, acked, shed, dead, doomed>>
      BY <1>9 DEF vars, nodeVars, begun, known
  <2>2. NodesTypeOK' /\ RequestsTypeOK' /\ KnownTypeOK'
      BY <2>1 DEF Inv, TypeOK, NodesTypeOK, RequestsTypeOK, KnownTypeOK
  <2>3. GetsInv'
      BY <2>1, GetsKept DEF Inv, GetsInv, GetInv
  <2>4. WritesInv'
      BY <2>1, WritesKept DEF Inv, TypeOK, KnownTypeOK
  <2> QED BY <2>2, <2>3, <2>4, Typed
<1> QED BY <1>1, <1>2, <1>3, <1>4, <1>5, <1>6, <1>7, <1>8, <1>9 DEF Next, Finished

-----------------------------------------------------------------------------
(* Results.                                                                *)

\* The inductive invariant holds of every behaviour of the cluster, whatever the
\* nodes, the requests, the capacity of the gateway and the restarts.
THEOREM ClusterInvariant == Spec => []Inv
<1>1. Init => Inv
    BY InitInv
<1>2. Inv /\ [Next]_vars => Inv'
    BY NextInv
<1> QED BY <1>1, <1>2, PTL DEF Spec

\* Which results become which statuses.
LEMMA Statuses ==
    ASSUME NEW n \in Nodes, Landed(n)
    PROVE  /\ FlightStatus(n) = 404 => flight[n] = "notFound"
           /\ FlightStatus(n) \in {503, 504} => flight[n] \in {"Unavailable", "DeadlineExceeded"}
<1>1. Status["Unavailable"] = 503 /\ Status["DeadlineExceeded"] = 504
    BY DEF Status
<1>2. CASE flight[n] = "result"
    BY <1>2 DEF FlightStatus
<1>3. CASE flight[n] = "notFound"
    BY <1>3 DEF FlightStatus
<1>4. CASE flight[n] \in {"Unavailable", "DeadlineExceeded"}
    BY <1>1, <1>4 DEF FlightStatus
<1> QED BY <1>2, <1>3, <1>4 DEF Landed

\* A 404 of the read-through path is the origin's word.
THEOREM NotFoundIsTheOrigins == Spec => []NotFoundIsAbsent
<1>1. ASSUME Inv, NEW n \in Nodes, Landed(n), FlightStatus(n) = 404
      PROVE  said[n] = "absent"
  <2>1. flight[n] = "notFound"
      BY <1>1, Statuses
  <2> QED BY <1>1, <2>1 DEF Inv, GetsInv, SaidInv
<1>2. Inv => NotFoundIsAbsent
    BY <1>1 DEF NotFoundIsAbsent
<1> QED BY <1>2, ClusterInvariant, PTL

\* Waiters share a fetch, and share no other caller's fate: their failure is the
\* origin's.
THEOREM FailuresAreTheOrigins == Spec => []FailuresAreOrigins
<1>1. ASSUME Inv, NEW n \in Nodes, Landed(n), FlightStatus(n) \in {503, 504}
      PROVE  said[n] = "failed"
  <2>1. flight[n] \in {"Unavailable", "DeadlineExceeded"}
      BY <1>1, Statuses
  <2> QED BY <1>1, <2>1 DEF Inv, GetsInv, SaidInv
<1>2. Inv => FailuresAreOrigins
    BY <1>1 DEF FailuresAreOrigins
<1> QED BY <1>2, ClusterInvariant, PTL

\* A Put that was refused for good is on no node, then or later.
THEOREM RefusedForGood == Spec => []ShedLeavesNothing
<1>1. Inv => ShedLeavesNothing
    BY DEF Inv, TypeOK, KnownTypeOK, WritesInv, PutInv, Settled, ShedLeavesNothing
<1> QED BY <1>1, ClusterInvariant, PTL

\* A value that was settled before a Delete that succeeded began does not resurface,
\* on any node, whichever of them routing has spilled it to.
THEOREM DeletedForGood == Spec => []DeletedStaysDeleted
<1>1. Inv => DeletedStaysDeleted
    BY DEF Inv, WritesInv, DeadInv
<1> QED BY <1>1, ClusterInvariant, PTL
=============================================================================
