---------------------------- MODULE GatewayProofs ----------------------------
(***************************************************************************)
(* Proofs about Gateway, for every ring, load factor, number of requests   *)
(* and size of the semaphore.                                              *)
(*                                                                         *)
(* LoadAccounted is inductive once the types are known. That a Pick which  *)
(* nothing disturbs finds a node with room takes the argument of the code: *)
(* every node it passed was at the ceiling and still is, one lap passes    *)
(* every node, the requests on the nodes are those that the total counts,  *)
(* and the ceilings add up to more than the total. The sum is a count of   *)
(* requests here, spread over the nodes (Spread).                          *)
(***************************************************************************)
EXTENDS Gateway, FiniteSetTheorems, WellFoundedInduction, TLAPS

States == {"idle", "admit", "pick", "walk", "charge", "home", "total", "call",
           "unload", "untotal", "release"}

TypeOK ==
    /\ load \in [Nodes -> Int] /\ total \in Int /\ inflight \in Int
    /\ pc \in [Requests -> States]
    /\ walk \in [Requests -> [start : Int, i : Nat, cap : Int, node : Nodes]]
    /\ racy \in [Requests -> BOOLEAN]

\* The requests that each counter is to count.
Charged(n) == {r \in Requests : walk[r].node = n /\ pc[r] \in {"total", "call", "unload"}}
Counted == {r \in Requests : pc[r] \in {"call", "unload", "untotal"}}
Slotted == {r \in Requests : pc[r] \notin {"idle", "admit"}}

CountInv ==
    /\ \A n \in Nodes : load[n] = Cardinality(Charged(n))
    /\ total = Cardinality(Counted)
    /\ inflight = Cardinality(Slotted)
    /\ inflight <= MaxInflight

\* A Pick that nothing has disturbed walks over a ring at rest: its ceiling is the
\* one for the total of now, and what it has passed is still full.
PickInv(r) ==
    pc[r] \in {"walk", "home"} =>
        /\ walk[r].start \in Starts
        /\ pc[r] = "home" => walk[r].i >= Len(VNodes)
        /\ ~racy[r] =>
              /\ Torn = {}
              /\ walk[r].cap \in Capacities(total)
              /\ \A j \in 0..(walk[r].i - 1) : load[At(walk[r].start + j)] >= walk[r].cap

Inv == TypeOK /\ CountInv /\ \A r \in Requests : PickInv(r)

-----------------------------------------------------------------------------
(* Arithmetic and counting.                                                *)

\* A nonempty family of subsets of a finite set has a minimal member: induction
\* over finite sets without an operator for what is to be proved.
LEMMA MinimalMember ==
    ASSUME NEW S, IsFiniteSet(S), NEW T \in SUBSET SUBSET S, T # {}
    PROVE  \E U \in T : \A V \in T : V \subseteq U => V = U
<1>1. IsWellFoundedOn(StrictSubsetOrdering(S), FiniteSubsetsOf(S))
    BY FS_StrictSubsetOrderingWellFounded
<1>2. T \subseteq FiniteSubsetsOf(S)
    BY FS_Subset DEF FiniteSubsetsOf
<1>3. PICK U \in T : \A V \in T : <<V, U>> \notin StrictSubsetOrdering(S)
    BY <1>1, <1>2, WFMin
<1>4. \A V \in T : V \subseteq U => V = U
    BY <1>3 DEF StrictSubsetOrdering
<1> QED BY <1>4

\* Requests spread over nodes, at least k on each.
LEMMA Spread ==
    ASSUME NEW R, IsFiniteSet(R), NEW N, IsFiniteSet(N), NEW k \in Nat, NEW on \in [N -> SUBSET R],
           \A n \in N : Cardinality(on[n]) >= k,
           \A m, n \in N : m # n => on[m] \cap on[n] = {}
    PROVE  Cardinality(R) >= k * Cardinality(N)
<1> DEFINE On(M) == UNION {on[m] : m \in M}
           Bad == {M \in SUBSET N : ~(Cardinality(On(M)) >= k * Cardinality(M))}
<1>1. \A V \in SUBSET R : IsFiniteSet(V)
    BY FS_Subset
<1>2. \A M \in SUBSET N : On(M) \in SUBSET R
    OBVIOUS
<1>3. Bad = {}
  <2> SUFFICES ASSUME Bad # {} PROVE FALSE
      OBVIOUS
  <2>1. PICK M \in Bad : \A V \in Bad : V \subseteq M => V = M
    <3>1. Bad \in SUBSET SUBSET N
        OBVIOUS
    <3> HIDE DEF Bad
    <3> QED BY <3>1, MinimalMember
  <2>2. M # {}
    <3>1. On({}) = {}
        OBVIOUS
    <3>2. Cardinality(On({})) = 0 /\ Cardinality({}) = 0
        BY <3>1, FS_EmptySet
    <3>3. {} \notin Bad
        BY <3>2
    <3> QED BY <2>1, <3>3
  <2>3. PICK n \in M : TRUE
      BY <2>2
  <2> DEFINE L == M \ {n}
  <2>4. L \in SUBSET N /\ M = L \cup {n} /\ n \notin L /\ n \in N
      BY <2>1, <2>3
  <2>5. Cardinality(On(L)) >= k * Cardinality(L) /\ Cardinality(on[n]) >= k
      BY <2>1, <2>4
  <2>6. On(M) = On(L) \cup on[n] /\ On(L) \cap on[n] = {}
      BY <2>4
  <2>7. IsFiniteSet(On(L)) /\ IsFiniteSet(on[n]) /\ IsFiniteSet(L)
      BY <1>1, <1>2, <2>4, FS_Subset
  <2>8. Cardinality(On(L)) \in Nat /\ Cardinality(on[n]) \in Nat /\ Cardinality(L) \in Nat
      BY <2>7, FS_CardinalityType
  <2> HIDE DEF On, L
  <2>9. Cardinality(M) = Cardinality(L) + 1
      BY <2>4, <2>7, FS_AddElement
  <2>10. Cardinality(On(M)) = Cardinality(On(L)) + Cardinality(on[n])
    <3>1. Cardinality(On(L) \cup on[n]) =
              Cardinality(On(L)) + Cardinality(on[n]) - Cardinality(On(L) \cap on[n])
        BY <2>7, FS_Union
    <3>2. Cardinality(On(L) \cap on[n]) = 0
        BY <2>6, FS_EmptySet
    <3> QED BY <2>6, <2>8, <3>1, <3>2
  <2>11. k * Cardinality(M) = k * Cardinality(L) + k /\ k * Cardinality(L) \in Nat
      BY <2>8, <2>9
  <2>12. Cardinality(On(M)) >= k * Cardinality(M)
      BY <2>5, <2>8, <2>10, <2>11
  <2> QED BY <2>1, <2>12
<1>4. Cardinality(On(N)) >= k * Cardinality(N)
    BY <1>3
<1>5. On(N) \in SUBSET R
    BY <1>2
<1> HIDE DEF On
<1>6. /\ Cardinality(On(N)) <= Cardinality(R)
      /\ Cardinality(On(N)) \in Nat /\ Cardinality(R) \in Nat /\ Cardinality(N) \in Nat
    BY <1>1, <1>5, FS_Subset, FS_CardinalityType
<1>7. k * Cardinality(N) \in Nat
    BY <1>6
<1> QED BY <1>4, <1>6, <1>7

\* The walk visits every virtual node in one lap.
LEMMA Lap ==
    ASSUME NEW s \in 1..Len(VNodes), NEW n \in Nodes
    PROVE  \E j \in 0..(Len(VNodes) - 1) : At(s + j) = n
<1> DEFINE L == Len(VNodes)
<1>1. L \in Nat /\ L > 0
    BY GatewayAssumption
<1>2. PICK q \in 1..L : VNodes[q] = n
    BY GatewayAssumption
<1>3. CASE q >= s
  <2>1. q - s \in 0..(L - 1) /\ s + (q - s) = q
      BY <1>1, <1>3
  <2>2. (q - 1) % L = q - 1
      BY <1>1
  <2>3. At(q) = n
      BY <1>1, <1>2, <2>2 DEF At
  <2> QED BY <2>1, <2>3
<1>4. CASE q < s
  <2>1. q - s + L \in 0..(L - 1) /\ s + (q - s + L) = q + L
      BY <1>1, <1>4
  <2>2. ((q + L) - 1) % L = q - 1
      BY <1>1
  <2>3. At(q + L) = n
      BY <1>1, <1>2, <2>2 DEF At
  <2> QED BY <2>1, <2>3
<1> QED BY <1>1, <1>3, <1>4

LEMMA Division ==
    ASSUME NEW a \in Nat, NEW b \in Nat \ {0}
    PROVE  /\ a \div b \in Nat /\ a % b \in 0..(b - 1)
           /\ a = (a \div b) * b + (a % b)
<1>1. a \div b \in Nat /\ a % b \in 0..(b - 1)
    OBVIOUS
<1>2. a = (a \div b) * b + (a % b)
    BY Z3
<1> QED BY <1>1, <1>2

\* "Sum of capacities strictly exceeds total load".
LEMMA RoomSomewhere ==
    ASSUME NEW t \in Nat, NEW c \in Capacities(t), Cardinality(Nodes) \in Nat \ {0}
    PROVE  c \in Nat /\ c * Cardinality(Nodes) > t
<1> DEFINE N == Cardinality(Nodes)
           num == (t + 1) * FactorNum
           den == N * FactorDen
           p == num \div den
<1>1. num \in Nat \ {0} /\ den \in Nat \ {0}
    BY GatewayAssumption
<1>2. c \in {IF p < 1 THEN 1 ELSE p, p + 1} /\ (num % den # 0 => c = p + 1)
    BY DEF Capacities
<1> HIDE DEF num, den
<1>3. p \in Nat /\ num = p * den + (num % den) /\ num % den \in 0..(den - 1)
  <2>1. /\ num \div den \in Nat /\ num % den \in 0..(den - 1)
        /\ num = (num \div den) * den + (num % den)
      BY <1>1, Division
  <2> QED BY <2>1
<1> HIDE DEF p
<1>4. c \in Nat /\ (c = p + 1 \/ (c >= p /\ num % den = 0))
    BY <1>2, <1>3
<1>5. c * den >= num
  <2>1. CASE c = p + 1
    <3>1. (p + 1) * den = p * den + den
        BY <1>1, <1>3
    <3> QED BY <1>1, <1>3, <2>1, <3>1
  <2>2. CASE c >= p /\ num % den = 0
    <3>1. PICK d \in Nat : c = p + d
        BY <1>3, <1>4, <2>2
    <3>2. (p + d) * den = p * den + d * den /\ d * den \in Nat
        BY <1>1, <1>3
    <3> QED BY <1>1, <1>3, <2>2, <3>1, <3>2
  <2> QED BY <1>4, <2>1, <2>2
<1>6. num > t * FactorDen /\ t * FactorDen \in Nat
  <2>1. PICK d \in Nat \ {0} : FactorNum = FactorDen + d
      BY GatewayAssumption
  <2>2. (t + 1) * (FactorDen + d) = t * FactorDen + t * d + FactorDen + d /\ t * d \in Nat
      BY GatewayAssumption
  <2> QED BY <2>1, <2>2, GatewayAssumption DEF num
<1>7. (c * N) * FactorDen > t * FactorDen
  <2>1. c * den = (c * N) * FactorDen
      BY <1>4, GatewayAssumption DEF den
  <2>2. num \in Nat /\ c * den \in Nat
      BY <1>1, <1>4
  <2> QED BY <1>5, <1>6, <2>1, <2>2
<1>8. c * N > t
  <2> SUFFICES ASSUME ~(c * N > t) PROVE FALSE
      OBVIOUS
  <2>1. c * N \in Nat
      BY <1>4
  <2>2. PICK d \in Nat : t = c * N + d
    <3>1. t - c * N \in Nat /\ t = c * N + (t - c * N)
        BY <2>1
    <3> QED BY <3>1
  <2>3. (c * N + d) * FactorDen = (c * N) * FactorDen + d * FactorDen /\ d * FactorDen \in Nat
        /\ (c * N) * FactorDen \in Nat
      BY <2>1, GatewayAssumption
  <2> QED BY <1>7, <2>2, <2>3
<1> QED BY <1>4, <1>8

LEMMA OneMore ==
    ASSUME NEW A, NEW B, NEW r, IsFiniteSet(A), r \notin A, B = A \cup {r}
    PROVE  Cardinality(B) = Cardinality(A) + 1
BY FS_AddElement

LEMMA OneLess ==
    ASSUME NEW A, NEW B, NEW r, IsFiniteSet(A), r \in A, B = A \ {r}
    PROVE  Cardinality(B) = Cardinality(A) - 1
BY FS_RemoveElement

LEMMA FiniteSets ==
    /\ IsFiniteSet(Counted) /\ IsFiniteSet(Slotted)
    /\ \A n \in Nodes : IsFiniteSet(Charged(n))
<1>1. \A S \in SUBSET Requests : IsFiniteSet(S)
    BY GatewayAssumption, FS_Subset
<1>2. /\ Counted \in SUBSET Requests /\ Slotted \in SUBSET Requests
      /\ \A n \in Nodes : Charged(n) \in SUBSET Requests
    BY DEF Counted, Slotted, Charged
<1> QED BY <1>1, <1>2

LEMMA RingFacts ==
    /\ Len(VNodes) \in Nat /\ Len(VNodes) > 0 /\ \A i \in Int : At(i) \in Nodes
    /\ Cardinality(Nodes) \in Nat \ {0}
<1>1. Cardinality(Nodes) \in Nat \ {0}
    BY GatewayAssumption, FS_CardinalityType
<1>2. PICK n \in Nodes : TRUE
    BY <1>1, GatewayAssumption, FS_EmptySet
<1>3. Len(VNodes) \in Nat /\ Len(VNodes) > 0
    BY <1>2, GatewayAssumption
<1>4. ASSUME NEW i \in Int PROVE At(i) \in Nodes
  <2>1. (i - 1) % Len(VNodes) \in 0..(Len(VNodes) - 1)
      BY <1>3
  <2> QED BY <1>3, <2>1, GatewayAssumption, SMTT(30) DEF At
<1> QED BY <1>1, <1>3, <1>4

-----------------------------------------------------------------------------
(* The actions.                                                            *)

LEMMA InitInv == Init => Inv
<1> SUFFICES ASSUME Init PROVE Inv
    OBVIOUS
<1>1. VNodes[1] \in Nodes
    BY RingFacts, GatewayAssumption
<1>2. TypeOK
    BY <1>1 DEF Init, TypeOK, NoWalk, States
<1>3. Counted = {} /\ Slotted = {} /\ \A n \in Nodes : Charged(n) = {}
    BY DEF Init, Counted, Slotted, Charged
<1>4. CountInv
  <2>1. \A n \in Nodes : Cardinality(Charged(n)) = 0 /\ load[n] = 0
      BY <1>3, FS_EmptySet DEF Init
  <2>2. Cardinality(Counted) = 0 /\ Cardinality(Slotted) = 0
      BY <1>3, FS_EmptySet
  <2>3. total = 0 /\ inflight = 0 /\ 0 <= MaxInflight
      BY GatewayAssumption DEF Init
  <2> QED BY <2>1, <2>2, <2>3 DEF CountInv
<1>5. \A r \in Requests : PickInv(r)
    BY DEF Init, PickInv
<1> QED BY <1>2, <1>4, <1>5 DEF Inv

\* A step that leaves the ring's counters alone, as seen by the other requests.
LEMMA RingAtRest ==
    ASSUME Inv, TypeOK', NEW r \in Requests, UNCHANGED <<load, total>>,
           pc[r] \notin {"total", "untotal"}, pc'[r] \notin {"total", "untotal"},
           \A q \in Requests \ {r} : pc'[q] = pc[q] /\ walk'[q] = walk[q] /\ racy'[q] = racy[q]
    PROVE  Torn' = Torn /\ \A q \in Requests \ {r} : PickInv(q)'
<1>1. Torn' = Torn
    BY DEF Torn
<1>2. \A q \in Requests \ {r} : PickInv(q)'
    BY <1>1 DEF Inv, PickInv
<1> QED BY <1>1, <1>2

\* A step of r on a counter disturbs every Pick under way.
LEMMA OthersDisturbed ==
    ASSUME Inv, NEW r \in Requests, Disturb(r), pc'[r] \notin {"walk", "home"},
           \A q \in Requests \ {r} : pc'[q] = pc[q] /\ walk'[q] = walk[q]
    PROVE  \A q \in Requests : PickInv(q)'
BY DEF Inv, PickInv, Disturb

\* A step after which each counter has the same requests to count.
LEMMA SameCounts ==
    ASSUME CountInv, NEW r \in Requests, UNCHANGED <<load, total, inflight>>,
           \A q \in Requests \ {r} : pc'[q] = pc[q] /\ walk'[q] = walk[q],
           pc[r] \in {"total", "call", "unload"} <=> pc'[r] \in {"total", "call", "unload"},
           pc[r] \in {"total", "call", "unload"} => walk'[r].node = walk[r].node,
           pc[r] \in {"call", "unload", "untotal"} <=> pc'[r] \in {"call", "unload", "untotal"},
           pc[r] \in {"idle", "admit"} <=> pc'[r] \in {"idle", "admit"}
    PROVE  CountInv'
<1>1. \A n \in Nodes : Charged(n)' = Charged(n)
    BY DEF Charged
<1>2. Counted' = Counted
    BY DEF Counted
<1>3. Slotted' = Slotted
    BY DEF Slotted
<1> QED BY <1>1, <1>2, <1>3 DEF CountInv

\* Steps of a request that is not in Pick, and does not touch the ring's counters.
LEMMA OutsideInv ==
    ASSUME Inv, NEW r \in Requests,
           Arrive(r) \/ AdmitExpired(r) \/ BroadcastEnd(r) \/ CallEnd(r)
    PROVE  Inv'
<1>1. /\ UNCHANGED <<load, total, inflight, walk, racy>>
      /\ \/ pc[r] = "idle" /\ pc' = [pc EXCEPT ![r] = "admit"]
         \/ pc[r] = "admit" /\ pc' = [pc EXCEPT ![r] = "idle"]
         \/ pc[r] = "pick" /\ pc' = [pc EXCEPT ![r] = "release"]
         \/ pc[r] = "call" /\ pc' = [pc EXCEPT ![r] = "unload"]
    BY DEF Arrive, AdmitExpired, BroadcastEnd, CallEnd, Goto
<1>2. TypeOK'
    BY <1>1 DEF Inv, TypeOK, States
<1>3. \A q \in Requests \ {r} : pc'[q] = pc[q] /\ walk'[q] = walk[q] /\ racy'[q] = racy[q]
    BY <1>1 DEF Inv, TypeOK
<1>4. \/ pc[r] = "idle" /\ pc'[r] = "admit"
      \/ pc[r] = "admit" /\ pc'[r] = "idle"
      \/ pc[r] = "pick" /\ pc'[r] = "release"
      \/ pc[r] = "call" /\ pc'[r] = "unload"
    BY <1>1 DEF Inv, TypeOK
<1>5. CountInv'
    BY <1>1, <1>3, <1>4, SameCounts DEF Inv
<1>6. \A q \in Requests \ {r} : PickInv(q)'
    BY <1>1, <1>2, <1>3, <1>4, RingAtRest
<1>7. PickInv(r)'
    BY <1>4 DEF PickInv
<1> QED BY <1>2, <1>5, <1>6, <1>7 DEF Inv

\* A slot of the semaphore is taken.
LEMMA AdmitSlotInv ==
    ASSUME Inv, NEW r \in Requests, AdmitSlot(r)
    PROVE  Inv'
<1>1. /\ pc[r] = "admit" /\ inflight < MaxInflight /\ inflight' = inflight + 1
      /\ pc' = [pc EXCEPT ![r] = "pick"] /\ UNCHANGED <<load, total, walk, racy>>
    BY DEF AdmitSlot, Goto
<1>2. TypeOK'
    BY <1>1 DEF Inv, TypeOK, States
<1>3. /\ pc'[r] = "pick"
      /\ \A q \in Requests \ {r} : pc'[q] = pc[q] /\ walk'[q] = walk[q] /\ racy'[q] = racy[q]
    BY <1>1 DEF Inv, TypeOK
<1>4. Counted' = Counted /\ \A n \in Nodes : Charged(n)' = Charged(n)
    BY <1>1, <1>3 DEF Counted, Charged
<1>5. Slotted' = Slotted \cup {r} /\ r \notin Slotted
    BY <1>1, <1>3 DEF Slotted
<1>6. Cardinality(Slotted') = Cardinality(Slotted) + 1
    BY <1>5, FiniteSets, OneMore
<1>7. inflight' <= MaxInflight
    BY <1>1, GatewayAssumption DEF Inv, TypeOK
<1>8. CountInv'
    BY <1>1, <1>4, <1>6, <1>7 DEF Inv, CountInv
<1>9. \A q \in Requests \ {r} : PickInv(q)'
    BY <1>1, <1>2, <1>3, RingAtRest
<1>10. PickInv(r)'
    BY <1>3 DEF PickInv
<1> QED BY <1>2, <1>8, <1>9, <1>10 DEF Inv

\* Pick reads the total. With no other request between its two updates, the
\* total is what the loads add up to.
LEMMA PickCapacityInv ==
    ASSUME Inv, NEW r \in Requests, PickCapacity(r)
    PROVE  Inv'
<1>1. PICK s \in Starts, c \in Capacities(total) :
          walk' = [walk EXCEPT ![r] = [start |-> s, i |-> 0, cap |-> c, node |-> At(s)]]
    BY DEF PickCapacity
<1>2. /\ pc[r] = "pick" /\ pc' = [pc EXCEPT ![r] = "walk"]
      /\ racy' = [racy EXCEPT ![r] = Torn # {}] /\ UNCHANGED <<load, total, inflight>>
    BY DEF PickCapacity, Goto
<1>3. s \in Int /\ At(s) \in Nodes
    BY GatewayAssumption, RingFacts
<1>4. c \in Int
  <2>1. total \in Nat
      BY FiniteSets, FS_CardinalityType DEF Inv, CountInv
  <2> QED BY <2>1, RingFacts, RoomSomewhere
<1>5. TypeOK'
  <2>1. pc' \in [Requests -> States]
      BY <1>2 DEF Inv, TypeOK, States
  <2>2. walk' \in [Requests -> [start : Int, i : Nat, cap : Int, node : Nodes]]
      BY <1>1, <1>3, <1>4 DEF Inv, TypeOK
  <2>3. racy' \in [Requests -> BOOLEAN]
      BY <1>2 DEF Inv, TypeOK
  <2> QED BY <1>2, <2>1, <2>2, <2>3 DEF Inv, TypeOK
<1>6. \A q \in Requests \ {r} : pc'[q] = pc[q] /\ walk'[q] = walk[q] /\ racy'[q] = racy[q]
    BY <1>1, <1>2 DEF Inv, TypeOK
<1>7. pc'[r] = "walk" /\ walk'[r] = [start |-> s, i |-> 0, cap |-> c, node |-> At(s)]
    BY <1>1, <1>2 DEF Inv, TypeOK
<1>8. racy'[r] = (Torn # {})
    BY <1>2 DEF Inv, TypeOK
<1>9. CountInv'
    BY <1>2, <1>6, <1>7, SameCounts DEF Inv
<1>10. Torn' = Torn /\ \A q \in Requests \ {r} : PickInv(q)'
    BY <1>2, <1>5, <1>6, <1>7, RingAtRest
<1>11. PickInv(r)'
  <2>1. /\ walk'[r].start = s /\ walk'[r].i = 0 /\ walk'[r].cap = c
        /\ 0..(0 - 1) = {}
      BY <1>7
  <2> QED BY <1>2, <1>7, <1>8, <1>10, <2>1 DEF PickInv
<1> QED BY <1>5, <1>9, <1>10, <1>11 DEF Inv

\* A turn of the walk passes a node that is full.
LEMMA PickWalkInv ==
    ASSUME Inv, NEW r \in Requests, PickWalk(r)
    PROVE  Inv'
<1> DEFINE w == walk[r]
           n == At(w.start + w.i)
           chosen == [start |-> w.start, i |-> w.i, cap |-> w.cap, node |-> n]
           passed == [start |-> w.start, i |-> w.i + 1, cap |-> w.cap, node |-> w.node]
           Record == [start : Int, i : Nat, cap : Int, node : Nodes]
<1>1. w \in Record /\ n \in Nodes
    BY RingFacts DEF Inv, TypeOK
<1>2. /\ pc[r] = "walk" /\ UNCHANGED <<load, total, inflight, racy>>
      /\ \/ walk' = [walk EXCEPT ![r] = chosen] /\ pc' = [pc EXCEPT ![r] = "charge"]
         \/ /\ ~(load[n] < w.cap) /\ walk' = [walk EXCEPT ![r] = passed]
            /\ pc' = [pc EXCEPT ![r] = IF w.i + 1 < Len(VNodes) THEN "walk" ELSE "home"]
  <2>1. [w EXCEPT !.node = n] = chosen /\ [w EXCEPT !.i = w.i + 1] = passed
      BY <1>1
  <2> QED BY <2>1 DEF PickWalk, Goto
<1>3. chosen \in Record /\ passed \in Record
    BY <1>1
<1> HIDE DEF n
<1>4. TypeOK'
  <2>1. pc' \in [Requests -> States]
      BY <1>2 DEF Inv, TypeOK, States
  <2>2. walk' \in [Requests -> [start : Int, i : Nat, cap : Int, node : Nodes]]
    <3> HIDE DEF chosen, passed
    <3> QED BY <1>2, <1>3 DEF Inv, TypeOK
  <2> QED BY <1>2, <2>1, <2>2 DEF Inv, TypeOK
<1>5. \A q \in Requests \ {r} : pc'[q] = pc[q] /\ walk'[q] = walk[q] /\ racy'[q] = racy[q]
    BY <1>2 DEF Inv, TypeOK
<1>6. pc'[r] \in {"walk", "charge", "home"}
    BY <1>2 DEF Inv, TypeOK
<1>7. CountInv'
    BY <1>2, <1>5, <1>6, SameCounts DEF Inv
<1>8. Torn' = Torn /\ \A q \in Requests \ {r} : PickInv(q)'
    BY <1>2, <1>4, <1>5, <1>6, RingAtRest
<1>9. PickInv(r)'
  <2>1. CASE pc'[r] = "charge"
      BY <2>1 DEF PickInv
  <2>2. CASE pc'[r] # "charge"
    <3>1. /\ ~(load[n] < w.cap) /\ walk' = [walk EXCEPT ![r] = passed]
          /\ pc'[r] = IF w.i + 1 < Len(VNodes) THEN "walk" ELSE "home"
        BY <1>2, <2>2 DEF Inv, TypeOK
    <3>2. walk'[r] = passed
        BY <3>1 DEF Inv, TypeOK
    <3>3. walk'[r].start = w.start /\ walk'[r].cap = w.cap /\ walk'[r].i = w.i + 1
        BY <3>2
    <3>4. load[n] >= w.cap /\ w.i \in Nat
        BY <1>1, <3>1 DEF Inv, TypeOK
    <3>5. pc'[r] = "home" => w.i + 1 >= Len(VNodes)
        BY <3>1, <3>4, RingFacts
    <3>6. PickInv(r)
        BY DEF Inv
    <3>7. racy'[r] = racy[r] /\ total' = total /\ load' = load
        BY <1>2
    <3>8. ASSUME NEW j \in 0..(walk'[r].i - 1), ~racy'[r]
          PROVE  load'[At(walk'[r].start + j)] >= walk'[r].cap
      <4>1. load[At(w.start + j)] >= w.cap
        <5>1. CASE j \in 0..(w.i - 1)
            BY <1>2, <3>6, <3>7, <3>8, <5>1 DEF PickInv
        <5>2. CASE j = w.i
            BY <3>4, <5>2 DEF n
        <5> QED BY <3>3, <3>4, <5>1, <5>2
      <4> QED BY <3>3, <3>7, <4>1
    <3>9. walk'[r].start \in Starts
        BY <1>2, <3>3, <3>6 DEF PickInv
    <3>10. ~racy[r] => Torn = {} /\ w.cap \in Capacities(total)
        BY <1>2, <3>6 DEF PickInv
    <3>11. ~racy'[r] => Torn' = {} /\ walk'[r].cap \in Capacities(total)'
        BY <1>8, <3>3, <3>7, <3>10
    <3>12. pc'[r] = "home" => walk'[r].i >= Len(VNodes)
        BY <3>3, <3>5
    <3> QED BY <3>8, <3>9, <3>11, <3>12 DEF PickInv
  <2> QED BY <2>1, <2>2
<1> QED BY <1>4, <1>7, <1>8, <1>9 DEF Inv

\* A node's counter is charged. Its request counts for it from here on.
LEMMA PickChargeInv ==
    ASSUME Inv, NEW r \in Requests, PickCharge(r)
    PROVE  Inv'
<1> DEFINE w == walk[r]
           n == IF pc[r] = "home" THEN At(w.start) ELSE w.node
           x == [start |-> w.start, i |-> w.i, cap |-> w.cap, node |-> n]
           Record == [start : Int, i : Nat, cap : Int, node : Nodes]
<1>1. w \in Record /\ n \in Nodes
    BY RingFacts DEF Inv, TypeOK
<1>2. /\ pc[r] \in {"charge", "home"} /\ load' = [load EXCEPT ![n] = load[n] + 1]
      /\ walk' = [walk EXCEPT ![r] = x] /\ pc' = [pc EXCEPT ![r] = "total"]
      /\ Disturb(r) /\ UNCHANGED <<total, inflight>>
  <2>1. [w EXCEPT !.node = n] = x
      BY <1>1
  <2> QED BY <2>1 DEF PickCharge, Goto
<1>3. x \in Record /\ x.node = n
    BY <1>1
<1> HIDE DEF n, x
<1>4. TypeOK'
  <2>1. load' \in [Nodes -> Int] /\ pc' \in [Requests -> States]
      BY <1>1, <1>2 DEF Inv, TypeOK, States
  <2>2. walk' \in [Requests -> Record] /\ racy' \in [Requests -> BOOLEAN]
      BY <1>2, <1>3 DEF Inv, TypeOK, Disturb
  <2> QED BY <1>2, <2>1, <2>2 DEF Inv, TypeOK
<1>5. /\ pc'[r] = "total" /\ walk'[r].node = n
      /\ \A q \in Requests \ {r} : pc'[q] = pc[q] /\ walk'[q] = walk[q]
      /\ \A m \in Nodes : load'[m] = IF m = n THEN load[n] + 1 ELSE load[m]
    BY <1>1, <1>2, <1>3 DEF Inv, TypeOK
<1>6. Counted' = Counted /\ Slotted' = Slotted
    BY <1>2, <1>5 DEF Counted, Slotted
<1>7. PICK k \in Nodes : k = n
    BY <1>1
<1>8. Charged(k)' = Charged(k) \cup {r} /\ r \notin Charged(k)
    BY <1>2, <1>5, <1>7 DEF Charged
<1>9. \A m \in Nodes \ {k} : Charged(m)' = Charged(m)
    BY <1>2, <1>5, <1>7 DEF Charged
<1>10. CountInv'
  <2>1. IsFiniteSet(Charged(k))
      BY FiniteSets
  <2>2. Cardinality(Charged(k)') = Cardinality(Charged(k)) + 1
      BY <1>8, <2>1, OneMore
  <2>3. \A m \in Nodes : load'[m] = Cardinality(Charged(m)')
      BY <1>5, <1>7, <1>9, <2>2 DEF Inv, CountInv
  <2> QED BY <1>2, <1>6, <2>3 DEF Inv, CountInv
<1>11. \A q \in Requests : PickInv(q)'
    BY <1>2, <1>5, OthersDisturbed
<1> QED BY <1>4, <1>10, <1>11 DEF Inv

LEMMA PickTotalInv ==
    ASSUME Inv, NEW r \in Requests, PickTotal(r)
    PROVE  Inv'
<1>1. /\ pc[r] = "total" /\ total' = total + 1 /\ pc' = [pc EXCEPT ![r] = "call"]
      /\ Disturb(r) /\ UNCHANGED <<load, inflight, walk>>
    BY DEF PickTotal, Goto
<1>2. TypeOK'
    BY <1>1 DEF Inv, TypeOK, States, Disturb
<1>3. pc'[r] = "call" /\ \A q \in Requests \ {r} : pc'[q] = pc[q] /\ walk'[q] = walk[q]
    BY <1>1 DEF Inv, TypeOK
<1>4. Slotted' = Slotted /\ \A n \in Nodes : Charged(n)' = Charged(n)
    BY <1>1, <1>3 DEF Slotted, Charged
<1>5. Counted' = Counted \cup {r} /\ r \notin Counted
    BY <1>1, <1>3 DEF Counted
<1>6. Cardinality(Counted') = Cardinality(Counted) + 1
    BY <1>5, FiniteSets, OneMore
<1>7. CountInv'
    BY <1>1, <1>4, <1>6 DEF Inv, CountInv
<1>8. \A q \in Requests : PickInv(q)'
    BY <1>1, <1>3, OthersDisturbed
<1> QED BY <1>2, <1>7, <1>8 DEF Inv

\* Done gives back what Pick charged, to the same node.
LEMMA DoneLoadInv ==
    ASSUME Inv, NEW r \in Requests, DoneLoad(r)
    PROVE  Inv'
<1> DEFINE n == walk[r].node
<1>1. /\ pc[r] = "unload" /\ load' = [load EXCEPT ![n] = load[n] - 1]
      /\ pc' = [pc EXCEPT ![r] = "untotal"] /\ Disturb(r) /\ UNCHANGED <<total, inflight, walk>>
    BY DEF DoneLoad, Goto
<1>2. n \in Nodes
    BY DEF Inv, TypeOK
<1>3. \A m \in Nodes : r \in Charged(m) <=> m = n
    BY <1>1 DEF Charged
<1> HIDE DEF n
<1>4. TypeOK'
    BY <1>1, <1>2 DEF Inv, TypeOK, States, Disturb
<1>5. /\ pc'[r] = "untotal" /\ \A q \in Requests \ {r} : pc'[q] = pc[q] /\ walk'[q] = walk[q]
      /\ \A m \in Nodes : load'[m] = IF m = n THEN load[n] - 1 ELSE load[m]
    BY <1>1, <1>2 DEF Inv, TypeOK
<1>6. Counted' = Counted /\ Slotted' = Slotted
    BY <1>1, <1>5 DEF Counted, Slotted
<1>7. PICK k \in Nodes : k = n
    BY <1>2
<1>8. Charged(k)' = Charged(k) \ {r} /\ r \in Charged(k)
    BY <1>1, <1>3, <1>5, <1>7 DEF Charged
<1>9. CountInv'
  <2>1. IsFiniteSet(Charged(k))
      BY FiniteSets
  <2>2. Cardinality(Charged(k)') = Cardinality(Charged(k)) - 1
      BY <1>8, <2>1, OneLess
  <2>3. \A m \in Nodes \ {k} : Charged(m)' = Charged(m)
      BY <1>1, <1>3, <1>5, <1>7 DEF Charged
  <2>4. \A m \in Nodes : load'[m] = Cardinality(Charged(m)')
      BY <1>5, <1>7, <2>2, <2>3 DEF Inv, CountInv
  <2> QED BY <1>1, <1>6, <2>4 DEF Inv, CountInv
<1>10. \A q \in Requests : PickInv(q)'
    BY <1>1, <1>5, OthersDisturbed
<1> QED BY <1>4, <1>9, <1>10 DEF Inv

LEMMA DoneTotalInv ==
    ASSUME Inv, NEW r \in Requests, DoneTotal(r)
    PROVE  Inv'
<1>1. /\ pc[r] = "untotal" /\ total' = total - 1 /\ pc' = [pc EXCEPT ![r] = "release"]
      /\ Disturb(r) /\ UNCHANGED <<load, inflight, walk>>
    BY DEF DoneTotal, Goto
<1>2. TypeOK'
    BY <1>1 DEF Inv, TypeOK, States, Disturb
<1>3. pc'[r] = "release" /\ \A q \in Requests \ {r} : pc'[q] = pc[q] /\ walk'[q] = walk[q]
    BY <1>1 DEF Inv, TypeOK
<1>4. Slotted' = Slotted /\ \A n \in Nodes : Charged(n)' = Charged(n)
    BY <1>1, <1>3 DEF Slotted, Charged
<1>5. Counted' = Counted \ {r} /\ r \in Counted
    BY <1>1, <1>3 DEF Counted
<1>6. Cardinality(Counted') = Cardinality(Counted) - 1
    BY <1>5, FiniteSets, OneLess
<1>7. CountInv'
    BY <1>1, <1>4, <1>6 DEF Inv, CountInv
<1>8. \A q \in Requests : PickInv(q)'
    BY <1>1, <1>3, OthersDisturbed
<1> QED BY <1>2, <1>7, <1>8 DEF Inv

LEMMA ReleaseInv ==
    ASSUME Inv, NEW r \in Requests, Release(r)
    PROVE  Inv'
<1>1. /\ pc[r] = "release" /\ inflight' = inflight - 1 /\ pc' = [pc EXCEPT ![r] = "idle"]
      /\ walk' = [walk EXCEPT ![r] = NoWalk] /\ racy' = [racy EXCEPT ![r] = FALSE]
      /\ UNCHANGED <<load, total>>
    BY DEF Release, Goto
<1>2. NoWalk \in [start : Int, i : Nat, cap : Int, node : Nodes]
    BY RingFacts, GatewayAssumption DEF NoWalk
<1>3. TypeOK'
    BY <1>1, <1>2 DEF Inv, TypeOK, States
<1>4. /\ pc'[r] = "idle"
      /\ \A q \in Requests \ {r} : pc'[q] = pc[q] /\ walk'[q] = walk[q] /\ racy'[q] = racy[q]
    BY <1>1 DEF Inv, TypeOK
<1>5. Counted' = Counted /\ \A n \in Nodes : Charged(n)' = Charged(n)
    BY <1>1, <1>4 DEF Counted, Charged
<1>6. Slotted' = Slotted \ {r} /\ r \in Slotted
    BY <1>1, <1>4 DEF Slotted
<1>7. Cardinality(Slotted') = Cardinality(Slotted) - 1
    BY <1>6, FiniteSets, OneLess
<1>8. inflight' <= MaxInflight
    BY <1>1, GatewayAssumption DEF Inv, TypeOK, CountInv
<1>9. CountInv'
    BY <1>1, <1>5, <1>7, <1>8 DEF Inv, CountInv
<1>10. \A q \in Requests \ {r} : PickInv(q)'
    BY <1>1, <1>3, <1>4, RingAtRest
<1>11. PickInv(r)'
    BY <1>4 DEF PickInv
<1> QED BY <1>3, <1>9, <1>10, <1>11 DEF Inv

\* Every step keeps the invariant.
LEMMA NextInv == Inv /\ [Next]_vars => Inv'
<1> SUFFICES ASSUME Inv, [Next]_vars PROVE Inv'
    OBVIOUS
<1>1. ASSUME NEW r \in Requests,
             Arrive(r) \/ AdmitExpired(r) \/ BroadcastEnd(r) \/ CallEnd(r)
      PROVE  Inv'
    BY <1>1, OutsideInv
<1>2. ASSUME NEW r \in Requests, AdmitSlot(r) \/ Release(r) PROVE Inv'
    BY <1>2, AdmitSlotInv, ReleaseInv
<1>3. ASSUME NEW r \in Requests,
             PickCapacity(r) \/ PickWalk(r) \/ PickCharge(r) \/ PickTotal(r)
      PROVE  Inv'
    BY <1>3, PickCapacityInv, PickWalkInv, PickChargeInv, PickTotalInv
<1>4. ASSUME NEW r \in Requests, DoneLoad(r) \/ DoneTotal(r) PROVE Inv'
    BY <1>4, DoneLoadInv, DoneTotalInv
<1>5. CASE UNCHANGED vars
    BY <1>5 DEF vars, Inv, TypeOK, CountInv, PickInv, Charged, Counted, Slotted, Torn
<1> QED BY <1>1, <1>2, <1>3, <1>4, <1>5 DEF Next

-----------------------------------------------------------------------------
(* Results.                                                                *)

\* The inductive invariant holds of every behaviour of the gateway, whatever the
\* ring, the load factor, the requests and the size of the semaphore.
THEOREM GatewayInvariant == Spec => []Inv
<1>1. Init => Inv
    BY InitInv
<1>2. Inv /\ [Next]_vars => Inv'
    BY NextInv
<1> QED BY <1>1, <1>2, PTL DEF Spec

\* The ring's counters and the semaphore agree with the requests under way, at every
\* moment between the two updates of a Pick or a Done, and on every path out.
THEOREM LoadIsAccounted == Spec => []LoadAccounted
<1>1. Inv => LoadAccounted
    BY DEF Inv, CountInv, LoadAccounted, Charged, Counted, Slotted
<1> QED BY <1>1, GatewayInvariant, PTL

\* A Pick that no other request disturbed never runs a full lap: the capacities of
\* the nodes add up to more than the load that is on them (hashring.go:121).
THEOREM FallbackNeedsARace == Spec => []FallbackOnlyUnderRace
<1>1. ASSUME Inv, NEW r \in Requests, pc[r] = "home", ~racy[r]
      PROVE  FALSE
  <2> DEFINE s == walk[r].start
             c == walk[r].cap
             N == Cardinality(Nodes)
             on == [n \in Nodes |-> Charged(n)]
  <2>1. /\ s \in Starts /\ walk[r].i >= Len(VNodes) /\ Torn = {} /\ c \in Capacities(total)
        /\ \A j \in 0..(walk[r].i - 1) : load[At(s + j)] >= c
      BY <1>1 DEF Inv, PickInv
  <2>2. total \in Nat
      BY <1>1, FiniteSets, FS_CardinalityType DEF Inv, CountInv
  <2>3. N \in Nat \ {0} /\ c \in Nat /\ c * N > total
      BY <2>1, <2>2, RingFacts, RoomSomewhere
  <2>4. ASSUME NEW n \in Nodes PROVE load[n] >= c
    <3>1. PICK j \in 0..(Len(VNodes) - 1) : At(s + j) = n
        BY <2>1, GatewayAssumption, Lap
    <3>2. walk[r].i \in Nat
        BY <1>1 DEF Inv, TypeOK
    <3>3. j \in 0..(walk[r].i - 1)
        BY <2>1, <3>2, RingFacts
    <3> QED BY <2>1, <3>1, <3>3
  <2>5. \A n \in Nodes : Cardinality(on[n]) >= c
      BY <1>1, <2>4 DEF Inv, CountInv
  <2>6. \A m, n \in Nodes : m # n => on[m] \cap on[n] = {}
      BY DEF Charged
  <2>7. on \in [Nodes -> SUBSET Counted]
      BY <2>1 DEF Torn, Charged, Counted
  <2>8. IsFiniteSet(Counted) /\ IsFiniteSet(Nodes)
      BY FiniteSets, GatewayAssumption
  <2> HIDE DEF on, c
  <2>9. Cardinality(Counted) >= c * N
      BY <2>3, <2>5, <2>6, <2>7, <2>8, Spread
  <2>10. Cardinality(Counted) = total
      BY <1>1 DEF Inv, CountInv
  <2> QED BY <2>2, <2>3, <2>9, <2>10
<1>2. Inv => FallbackOnlyUnderRace
    BY <1>1 DEF FallbackOnlyUnderRace
<1> QED BY <1>2, GatewayInvariant, PTL
=============================================================================
