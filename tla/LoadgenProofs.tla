---------------------------- MODULE LoadgenProofs ----------------------------
(***************************************************************************)
(* Proofs about Loadgen and BeladyMin, for any traces, any number of       *)
(* workers, nodes and objects per node, and any eviction policy.           *)
(***************************************************************************)
EXTENDS Loadgen, FiniteSetTheorems, SequenceTheorems, WellFoundedInduction, TLAPS

-----------------------------------------------------------------------------
(* The inductive invariant.                                                 *)

Phases == {"warmup", "before", "replay", "after", "report", "done", "died"}
Sums == [hits : Nat, misses : Nat, objects : Nat]

TypeOK ==
    /\ trace \in Seq(Keys) /\ warmup \in Nat /\ concurrency \in Nat \ {0}
    /\ phase \in Phases
    /\ pos \in [Workers -> Nat \ {0}]
    /\ miss \in [Workers -> Nodes \cup {"none"}]
    /\ held \in [Nodes -> SUBSET Keys]
    /\ hits \in [Nodes -> Nat] /\ misses \in [Nodes -> Nat]
    /\ asked \subseteq Nodes /\ sum \in Sums /\ before \in Sums
    /\ served \in Nat /\ fromCache \in Nat /\ fromCache <= served
    /\ torn \in BOOLEAN /\ restarts \in Nat

\* A node holds no more than it has room for.
HeldInv == \A n \in Nodes : IsFiniteSet(held[n]) /\ Cardinality(held[n]) <= NodeCapacity

\* The sum of a counter over some nodes is the number of its units there.
Units(f, S) == {p \in S \X Nat : p[2] < f[p[1]]}
Count(f, S) == Cardinality(Units(f, S))

\* The Gets that are being fetched.
Out == {w \in Workers : miss[w] # "none"}

\* x is at most y, and the same when no node has restarted.
Within(x, y) == x <= y /\ (~torn => x = y)

\* The window under way: the counters at the nodes, what has been summed of them,
\* and what the workers have seen.
WindowInv ==
    /\ IsFiniteSet(Units(hits, Nodes)) /\ IsFiniteSet(Units(misses, Nodes))
    /\ \A w \in Out : phase \in {"warmup", "replay"} /\ pos[w] <= Len(Replayed)
    /\ phase \in {"warmup", "before"} => served = 0 /\ fromCache = 0
    /\ phase = "before" =>
          /\ Within(Count(hits, asked), sum.hits)
          /\ Within(Count(misses, asked), sum.misses)
    /\ phase = "replay" =>
          /\ Within(Count(hits, Nodes), before.hits + fromCache)
          /\ Within(Count(misses, Nodes),
                    before.misses + (served - fromCache) + Cardinality(Out))
    /\ phase = "after" =>
          /\ Within(sum.hits + Count(hits, Nodes \ asked), before.hits + fromCache)
          /\ Within(sum.misses + Count(misses, Nodes \ asked),
                    before.misses + (served - fromCache))
    /\ asked = {} => sum.objects = 0

\* The reported window.
ReportedInv ==
    /\ phase \notin {"report", "done"} => sd = {}
    /\ \A d \in sd :
          /\ d.hits \in Nat /\ Within(d.hits, fromCache)
          /\ d.misses \in Nat /\ Within(d.misses, served - fromCache)
          /\ d.objectHit = Ratio(d.hits, d.hits + d.misses)

-----------------------------------------------------------------------------
(* MIN, and the policies it is compared with.                               *)

\* MIN's residents are keyed on their next request, and the heap knows it.
MinInv ==
    /\ scored \in Seq(Keys) /\ from \in Nat /\ capacity \in Nat /\ minHits \in Nat
    /\ at \in 1..(Len(scored) + 1)
    /\ DOMAIN resident \subseteq Keys /\ IsFiniteSet(DOMAIN resident)
    /\ HeapCoversResident
    /\ \A x \in DOMAIN resident :
          /\ resident[x] \in at..(Len(scored) + 1)
          /\ resident[x] <= Len(scored) => scored[resident[x]] = x
          /\ \A j \in at..Len(scored) : j < resident[x] => scored[j] # x
    /\ phase \notin {"report", "done"} => scored = <<>>
    /\ phase = "report" => capacity # 0
    /\ phase = "done" /\ Len(scored) > 0 => at = Len(scored) + 1

\* P is what a policy with room for c objects may hold after each of the first n
\* requests of t, from cold: it admits every miss. h is at most its hits so far.
Plays(t, n, c, P, h) ==
    /\ P \in [0..n -> SUBSET Keys] /\ h \in [0..n -> Nat]
    /\ P[0] = {} /\ h[0] = 0
    /\ \A i \in 1..n :
          /\ t[i] \in P[i] /\ P[i] \subseteq P[i - 1] \cup {t[i]}
          /\ IsFiniteSet(P[i]) /\ Cardinality(P[i]) <= c
          /\ h[i] <= h[i - 1] + (IF t[i] \in P[i - 1] THEN 1 ELSE 0)

\* What all nodes hold, and what they have room for.
Held == UNION {held[n] : n \in Nodes}
Slots == Cardinality(Nodes) * NodeCapacity

\* What the one worker has replayed so far is a play.
Playing ==
    /\ pos[1] <= Len(trace) + 1 /\ served = pos[1] - 1
    /\ \E P, h :
          /\ Plays(trace, pos[1] - 1, Slots, P, h)
          /\ h[pos[1] - 1] = fromCache /\ Held \subseteq P[pos[1] - 1]

\* From cold, one worker's run is a play of the trace, whose hits are those the
\* worker has seen.
PlayInv ==
    /\ phase = "warmup" => warmup > 0
    /\ warmup = 0 /\ phase = "before" => Held = {}
    /\ concurrency = 1 /\ warmup = 0 =>
          /\ phase = "replay" => Playing
          /\ phase \in {"after", "report", "done"} =>
                /\ served = Len(trace)
                /\ \E P, h : Plays(trace, Len(trace), Slots, P, h) /\ h[Len(trace)] = fromCache
          /\ phase = "report" \/ Compared =>
                scored = trace /\ from = 0 /\ capacity = Slots

\* The members of S that t requests between i and j.
Soon(t, S, i, j) == {x \in S : \E r \in i..j : t[r] = x}

\* MIN from cold is ahead of every play of its trace: whatever horizon j one looks
\* to, MIN's hits and what it holds of the objects requested by then outweigh the
\* play's. This is why what MIN gives up by evicting the furthest, it never needs.
AheadInv ==
    from = 0 =>
        \A P \in [0..Len(scored) -> SUBSET Keys], h \in [0..Len(scored) -> Nat] :
           Plays(scored, Len(scored), capacity, P, h) =>
              \A j \in 0..Len(scored) :
                 h[at - 1] + Cardinality(Soon(scored, P[at - 1], at, j))
                    <= minHits + Cardinality(Soon(scored, DOMAIN resident, at, j))

Inv == TypeOK /\ HeldInv /\ WindowInv /\ ReportedInv /\ MinInv /\ PlayInv /\ AheadInv

-----------------------------------------------------------------------------
(* One request of MIN against one request of a play.                        *)

\* What is soon requested after a request for t[i], and what was before it.
Splits(t, S, i, j) ==
    LET later == Cardinality(Soon(t, S \ {t[i]}, i + 1, j))
    IN  /\ Cardinality(Soon(t, S, i, j)) = later + (IF t[i] \in S THEN 1 ELSE 0)
        /\ later \in Nat /\ later <= Cardinality(S \ {t[i]})

LEMMA SoonStep ==
    ASSUME NEW t, NEW i \in Nat, NEW j \in Nat, NEW S, IsFiniteSet(S), i <= j
    PROVE  Splits(t, S, i, j)
<1> DEFINE R == Soon(t, S \ {t[i]}, i + 1, j)
<1>2. IsFiniteSet(S \ {t[i]})
    BY FS_RemoveElement
<1>3. R \subseteq S \ {t[i]}
    BY DEF Soon
<1>4. IsFiniteSet(R) /\ Cardinality(R) \in Nat /\ Cardinality(R) <= Cardinality(S \ {t[i]})
    BY <1>2, <1>3, FS_Subset, FS_CardinalityType
<1>5. CASE t[i] \in S
  <2>1. Soon(t, S, i, j) = R \cup {t[i]}
    <3>1. ASSUME NEW x \in Soon(t, S, i, j) PROVE x \in R \cup {t[i]}
        BY <3>1 DEF Soon
    <3>2. ASSUME NEW x \in R PROVE x \in Soon(t, S, i, j)
        BY <3>2 DEF Soon
    <3>3. t[i] \in Soon(t, S, i, j)
        BY <1>5 DEF Soon
    <3> HIDE DEF R
    <3> QED BY <3>1, <3>2, <3>3
  <2>2. t[i] \notin R
      BY <1>3
  <2> HIDE DEF R
  <2>3. Cardinality(R \cup {t[i]}) = Cardinality(R) + 1
      BY <1>4, <2>2, FS_AddElement
  <2> QED BY <1>4, <1>5, <2>1, <2>3 DEF R, Splits
<1>6. CASE t[i] \notin S
  <2>1. Soon(t, S, i, j) = R
    <3>1. ASSUME NEW x \in Soon(t, S, i, j) PROVE x \in R
        BY <3>1, <1>6 DEF Soon
    <3>2. ASSUME NEW x \in R PROVE x \in Soon(t, S, i, j)
        BY <3>2 DEF Soon
    <3> HIDE DEF R
    <3> QED BY <3>1, <3>2
  <2> QED BY <1>4, <1>6, <2>1 DEF Splits
<1> QED BY <1>5, <1>6

\* The same of what is held after the request.
LEMMA SoonAfter ==
    ASSUME NEW t, NEW i \in Nat, NEW j \in Nat, NEW S, IsFiniteSet(S), t[i] \in S, i <= j
    PROVE  Cardinality(Soon(t, S, i + 1, j))
              = Cardinality(Soon(t, S \ {t[i]}, i + 1, j))
                + (IF \E r \in (i + 1)..j : t[r] = t[i] THEN 1 ELSE 0)
<1> DEFINE R == Soon(t, S \ {t[i]}, i + 1, j)
<1>1. IsFiniteSet(R)
    BY FS_Subset, FS_RemoveElement DEF Soon
<1>2. t[i] \notin R
    BY DEF Soon
<1>3. CASE \E r \in (i + 1)..j : t[r] = t[i]
  <2>1. Soon(t, S, i + 1, j) = R \cup {t[i]}
      BY <1>3 DEF Soon
  <2> HIDE DEF R
  <2>2. Cardinality(R \cup {t[i]}) = Cardinality(R) + 1
      BY <1>1, <1>2, FS_AddElement
  <2> QED BY <1>3, <2>1, <2>2 DEF R
<1>4. CASE ~ \E r \in (i + 1)..j : t[r] = t[i]
  <2>1. Soon(t, S, i + 1, j) = R
    <3>1. ASSUME NEW x \in Soon(t, S, i + 1, j) PROVE x \in R
        BY <3>1, <1>4 DEF Soon
    <3>2. ASSUME NEW x \in R PROVE x \in Soon(t, S, i + 1, j)
        BY <3>2 DEF Soon
    <3> HIDE DEF R
    <3> QED BY <3>1, <3>2
  <2>2. Cardinality(R) \in Nat
      BY <1>1, FS_CardinalityType
  <2> QED BY <1>4, <2>1, <2>2
<1> QED BY <1>3, <1>4

\* Nothing is requested between a request and the one before it.
LEMMA SoonNone ==
    ASSUME NEW t, NEW i \in Nat, NEW j \in Nat, NEW S, j < i
    PROVE  Cardinality(Soon(t, S, i, j)) = 0
<1>1. Soon(t, S, i, j) = {}
    BY DEF Soon
<1> QED BY <1>1, FS_EmptySet

\* A request keeps MIN ahead. P and M are what the play and MIN hold before request
\* i, Q and N after it; h and m are their hits, g and l after it. When MIN evicts, it
\* drops e, and if e is requested by j then so is all that MIN held.
LEMMA StaysAhead ==
    ASSUME NEW t, NEW i \in Nat, NEW c \in Nat, NEW last \in Nat, i <= last,
           NEW P, NEW Q, NEW M, NEW N,
           IsFiniteSet(P), IsFiniteSet(Q), IsFiniteSet(M), IsFiniteSet(N),
           NEW h \in Nat, NEW g \in Nat, NEW m \in Nat, NEW l \in Nat,
           \A j \in 0..last : h + Cardinality(Soon(t, P, i, j)) <= m + Cardinality(Soon(t, M, i, j)),
           t[i] \in Q, Q \subseteq P \cup {t[i]}, Cardinality(Q) <= c,
           g <= h + (IF t[i] \in P THEN 1 ELSE 0),
           l = m + (IF t[i] \in M THEN 1 ELSE 0),
           t[i] \in N,
           \/ N = M \cup {t[i]}
           \/ /\ t[i] \notin M /\ Cardinality(M) = c
              /\ \E e \in M :
                    /\ N = (M \ {e}) \cup {t[i]}
                    /\ \A j \in 0..last : e \in Soon(t, M, i, j) => M \subseteq Soon(t, M, i, j),
           NEW j \in 0..last
    PROVE  g + Cardinality(Soon(t, Q, i + 1, j)) <= l + Cardinality(Soon(t, N, i + 1, j))
<1> DEFINE k == t[i]
           r(S) == Cardinality(Soon(t, S \ {k}, i + 1, j))
           again == IF \E x \in (i + 1)..j : t[x] = k THEN 1 ELSE 0
           inP == IF k \in P THEN 1 ELSE 0
           inM == IF k \in M THEN 1 ELSE 0
<1>0. ASSUME NEW S, IsFiniteSet(S), NEW x \in 0..last, i <= x
      PROVE  Splits(t, S, i, x)
  <2>1. x \in Nat
      BY <1>0
  <2> QED BY <1>0, <2>1, SoonStep
\* With no horizon the hits compare.
<1>1. g <= l
  <2>1. h + Cardinality(Soon(t, P, i, i)) <= m + Cardinality(Soon(t, M, i, i))
      OBVIOUS
  <2>2. \A S : Cardinality(Soon(t, S, i + 1, i)) = 0
      BY SoonNone
  <2>3. Cardinality(Soon(t, P, i, i)) = inP
    <3>1. Splits(t, P, i, i)
        BY <1>0
    <3> QED BY <2>2, <3>1 DEF Splits
  <2>4. Cardinality(Soon(t, M, i, i)) = inM
    <3>1. Splits(t, M, i, i)
        BY <1>0
    <3> QED BY <2>2, <3>1 DEF Splits
  <2>5. inP \in Nat /\ inM \in Nat /\ g <= h + inP /\ l = m + inM
      OBVIOUS
  <2> HIDE DEF inP, inM
  <2> QED BY <2>1, <2>3, <2>4, <2>5
<1>2. CASE j < i + 1
    BY <1>1, <1>2, SoonNone
<1>3. CASE j >= i + 1
  <2>1. again \in Nat /\ inP \in Nat /\ inM \in Nat /\ g <= h + inP /\ l = m + inM
      OBVIOUS
  <2>2. Cardinality(Soon(t, P, i, j)) = r(P) + inP /\ r(P) \in Nat
    <3>1. Splits(t, P, i, j)
        BY <1>0, <1>3
    <3> QED BY <3>1 DEF Splits
  <2>3. Cardinality(Soon(t, M, i, j)) = r(M) + inM /\ r(M) \in Nat
    <3>1. Splits(t, M, i, j)
        BY <1>0, <1>3
    <3> QED BY <3>1 DEF Splits
  <2>4. Cardinality(Soon(t, Q, i + 1, j)) = r(Q) + again
      BY <1>3, SoonAfter
  <2>5. Cardinality(Soon(t, N, i + 1, j)) = r(N) + again
      BY <1>3, SoonAfter
  <2>6. r(Q) \in Nat /\ r(Q) <= Cardinality(Q \ {k}) /\ r(N) \in Nat
    <3>1. Splits(t, Q, i, j) /\ Splits(t, N, i, j)
        BY <1>0, <1>3
    <3> QED BY <3>1 DEF Splits
  <2>7. r(Q) <= r(P)
    <3>1. Soon(t, Q \ {k}, i + 1, j) \subseteq Soon(t, P \ {k}, i + 1, j)
        BY DEF Soon
    <3>2. IsFiniteSet(Soon(t, P \ {k}, i + 1, j))
        BY FS_Subset, FS_RemoveElement DEF Soon
    <3> QED BY <3>1, <3>2, FS_Subset
  <2>8. h + Cardinality(Soon(t, P, i, j)) <= m + Cardinality(Soon(t, M, i, j))
      OBVIOUS
  <2>9. CASE r(N) = r(M)
    <3> HIDE DEF r, again, inP, inM
    <3> QED BY <2>1, <2>2, <2>3, <2>4, <2>5, <2>6, <2>7, <2>8, <2>9
  \* MIN gave up what is needed by j: it held nothing else.
  <2>10. CASE r(N) # r(M)
    <3>1. N # M \cup {k}
      <4>1. (M \cup {k}) \ {k} = M \ {k}
          OBVIOUS
      <4> QED BY <2>10, <4>1
    <3>2. PICK e \in M : N = (M \ {e}) \cup {k} /\ (e \in Soon(t, M, i, j) => M \subseteq Soon(t, M, i, j))
        BY <3>1
    <3>3. k \notin M /\ Cardinality(M) = c
        BY <3>1
    <3>4. N \ {k} = M \ {e} /\ M \ {k} = M
        BY <3>2, <3>3
    <3>5. Soon(t, M, i, j) = Soon(t, M, i + 1, j)
      <4>1. ASSUME NEW x \in Soon(t, M, i, j) PROVE x \in Soon(t, M, i + 1, j)
          BY <4>1, <3>3 DEF Soon
      <4>2. ASSUME NEW x \in Soon(t, M, i + 1, j) PROVE x \in Soon(t, M, i, j)
          BY <4>2 DEF Soon
      <4> QED BY <4>1, <4>2
    <3>6. e \in Soon(t, M, i, j)
      <4> SUFFICES ASSUME e \notin Soon(t, M, i, j) PROVE FALSE
          OBVIOUS
      <4>1. Soon(t, M \ {e}, i + 1, j) = Soon(t, M, i + 1, j)
          BY <3>5 DEF Soon
      <4> QED BY <4>1, <3>4, <2>10
    <3>7. Soon(t, M \ {e}, i + 1, j) = M \ {e}
      <4>1. M \subseteq Soon(t, M, i + 1, j)
          BY <3>2, <3>5, <3>6
      <4> QED BY <4>1 DEF Soon
    <3>8. r(N) = c - 1
      <4>1. Cardinality(M \ {e}) = c - 1
          BY <3>2, <3>3, FS_RemoveElement
      <4> QED BY <4>1, <3>4, <3>7
    <3>9. r(Q) <= c - 1
      <4>1. Cardinality(Q \ {k}) = Cardinality(Q) - 1 /\ Cardinality(Q) \in Nat
          BY FS_RemoveElement, FS_CardinalityType
      <4> HIDE DEF r
      <4> QED BY <4>1, <2>6
    <3> HIDE DEF r, again
    <3> QED BY <1>1, <2>1, <2>4, <2>5, <2>6, <3>8, <3>9
  <2> QED BY <2>9, <2>10
<1> QED BY <1>2, <1>3

-----------------------------------------------------------------------------
(* One turn of MIN's loop.                                                  *)

\* A set of naturals has a smallest element, if any.
LEMMA MinExists ==
    ASSUME NEW S \in SUBSET Nat, S # {}
    PROVE  \E x \in S : \A y \in S : x <= y
<1>1. PICK x \in S : \A y \in S : <<y, x>> \notin OpToRel(<, Nat)
    BY NatLessThanWellFounded, WFMin
<1>2. \A y \in S : ~(y < x)
    BY <1>1 DEF OpToRel
<1>3. \A y \in S : x <= y
  <2> SUFFICES ASSUME NEW y \in S PROVE x <= y
      OBVIOUS
  <2>1. x \in Nat /\ y \in Nat /\ ~(y < x)
      BY <1>2
  <2> QED BY <2>1
<1> QED BY <1>3

\* NextUse(i) is the next request for the object of request i.
LEMMA NextUseIs ==
    ASSUME scored \in Seq(Keys), NEW i \in 1..Len(scored)
    PROVE  /\ NextUse(i) \in (i + 1)..(Len(scored) + 1)
           /\ NextUse(i) <= Len(scored) => scored[NextUse(i)] = scored[i]
           /\ \A j \in (i + 1)..Len(scored) : j < NextUse(i) => scored[j] # scored[i]
<1> DEFINE again == {j \in (i + 1)..Len(scored) : scored[j] = scored[i]}
<1>1. Len(scored) \in Nat /\ i \in Nat
    BY LenProperties
<1>2. CASE again = {}
  <2>1. NextUse(i) = Len(scored) + 1
      BY <1>2 DEF NextUse
  <2> QED BY <1>1, <1>2, <2>1
<1>3. CASE again # {}
  <2>1. again \in SUBSET Nat
      BY <1>1
  <2>2. NextUse(i) = CHOOSE j \in again : \A k \in again : j <= k
      BY <1>3 DEF NextUse
  <2>3. NextUse(i) \in again /\ \A k \in again : NextUse(i) <= k
    <3> HIDE DEF again
    <3> QED BY <2>1, <2>2, <1>3, MinExists
  <2>4. ASSUME NEW j \in (i + 1)..Len(scored), j < NextUse(i), scored[j] = scored[i]
        PROVE  FALSE
    <3>1. j \in again
        BY <2>4
    <3>2. NextUse(i) <= j /\ j \in Nat /\ NextUse(i) \in Nat
        BY <2>1, <2>3, <3>1
    <3> QED BY <2>4, <3>2
  <2> QED BY <1>1, <2>3, <2>4
<1> QED BY <1>2, <1>3

\* What a turn does to the residents: the requested object joins those that are
\* kept, all of them or all but the one that is needed furthest away.
Turn(kept) ==
    /\ kept \subseteq DOMAIN resident
    /\ DOMAIN resident' = kept \cup {scored[at]}
    /\ resident'[scored[at]] = NextUse(at)
    /\ \A x \in kept \ {scored[at]} : resident'[x] = resident[x] /\ <<x, resident[x]>> \in heap'
    /\ <<scored[at], NextUse(at)>> \in heap'
    /\ Cardinality(kept \cup {scored[at]}) <= capacity
    /\ \/ kept = DOMAIN resident
       \/ /\ scored[at] \notin DOMAIN resident /\ Cardinality(DOMAIN resident) = capacity
          /\ \E e \in DOMAIN resident :
                /\ kept = DOMAIN resident \ {e}
                /\ \A x \in DOMAIN resident : resident[x] <= resident[e]

LEMMA MinTurn ==
    ASSUME MinInv, capacity # 0, MinStep
    PROVE  \E kept : Turn(kept)
<1> DEFINE key == scored[at]
<1>1. Cardinality(DOMAIN resident) \in Nat /\ capacity \in Nat
      /\ Cardinality(DOMAIN resident) <= capacity
    BY FS_CardinalityType DEF MinInv, HeapCoversResident
<1>2. CASE /\ resident' = With(resident, key, NextUse(at))
           /\ heap' = heap \cup {<<key, NextUse(at)>>}
           /\ key \in DOMAIN resident \/ Cardinality(DOMAIN resident) < capacity
  <2>1. Cardinality(DOMAIN resident \cup {key}) <= capacity
    <3>1. IsFiniteSet(DOMAIN resident)
        BY DEF MinInv
    <3>2. Cardinality(DOMAIN resident \cup {key})
             = IF key \in DOMAIN resident THEN Cardinality(DOMAIN resident)
               ELSE Cardinality(DOMAIN resident) + 1
        BY <3>1, FS_AddElement
    <3> QED BY <1>1, <1>2, <3>2
  <2>2. \A x \in DOMAIN resident : <<x, resident[x]>> \in heap
      BY DEF MinInv, HeapCoversResident
  <2> QED BY <1>2, <2>1, <2>2 DEF Turn, With
<1>3. CASE /\ key \notin DOMAIN resident /\ Cardinality(DOMAIN resident) >= capacity
           /\ EvictFurthest(key)
  <2> DEFINE current == {e \in heap : ~Stale(e)}
             keep(e) == {f \in heap : f[2] <= e[2]} \ {e}
  <2>1. \A x \in DOMAIN resident : <<x, resident[x]>> \in current
      BY DEF MinInv, HeapCoversResident, Stale
  <2>2. Cardinality(DOMAIN resident) = capacity
      BY <1>1, <1>3
  <2>3. DOMAIN resident # {}
      BY <2>2, FS_EmptySet
  <2>4. PICK e \in current :
            /\ \A f \in current : f[2] <= e[2]
            /\ resident' = With(Without(resident, e[1]), key, NextUse(at))
            /\ heap' = keep(e) \cup {<<key, NextUse(at)>>}
    <3>1. current # {}
        BY <2>1, <2>3
    <3> QED BY <1>3, <3>1 DEF EvictFurthest
  <2>5. e[1] \in DOMAIN resident /\ resident[e[1]] = e[2]
      BY <2>4 DEF Stale
  <2>6. \A x \in DOMAIN resident : resident[x] <= resident[e[1]]
    <3>1. \A x \in DOMAIN resident : <<x, resident[x]>>[2] <= e[2]
      <4> HIDE DEF current
      <4> QED BY <2>1, <2>4
    <3> QED BY <2>5, <3>1
  <2> DEFINE kept == DOMAIN resident \ {e[1]}
  <2>7. \A x \in kept : <<x, resident[x]>> \in heap'
    <3> SUFFICES ASSUME NEW x \in kept PROVE <<x, resident[x]>> \in keep(e)
        BY <2>4
    <3>1. <<x, resident[x]>> \in heap
        BY <2>1
    <3>2. <<x, resident[x]>>[2] <= e[2]
        BY <2>5, <2>6
    <3>3. <<x, resident[x]>> # e
        OBVIOUS
    <3> QED BY <3>1, <3>2, <3>3
  <2>8. /\ DOMAIN resident' = kept \cup {key}
        /\ resident'[key] = NextUse(at)
        /\ \A x \in kept \ {key} : resident'[x] = resident[x]
      BY <2>4 DEF With, Without
  <2>9. Cardinality(kept \cup {key}) <= capacity
    <3>1. IsFiniteSet(DOMAIN resident)
        BY DEF MinInv
    <3>2. IsFiniteSet(kept) /\ Cardinality(kept) = capacity - 1
        BY <2>2, <2>5, <3>1, FS_RemoveElement
    <3> HIDE DEF kept
    <3>3. Cardinality(kept \cup {key}) = IF key \in kept THEN capacity - 1 ELSE (capacity - 1) + 1
        BY <3>2, FS_AddElement
    <3> QED BY <1>1, <3>3
  <2>10. <<key, NextUse(at)>> \in heap'
      BY <2>4
  <2>11. \E d \in DOMAIN resident :
            /\ kept = DOMAIN resident \ {d}
            /\ \A x \in DOMAIN resident : resident[x] <= resident[d]
      BY <2>5, <2>6
  <2>12. kept \subseteq DOMAIN resident
      OBVIOUS
  <2> HIDE DEF kept
  <2> QED BY <1>3, <2>2, <2>7, <2>8, <2>9, <2>10, <2>11, <2>12 DEF Turn
<1> QED BY <1>2, <1>3 DEF MinStep

LEMMA MinNext ==
    ASSUME MinInv, AheadInv, phase = "report", phase' = "report", MinStep
    PROVE  MinInv' /\ AheadInv'
<1> DEFINE key == scored[at]
<1>1. /\ at \in 1..Len(scored) /\ Len(scored) \in Nat /\ at \in Nat
      /\ capacity # 0 /\ capacity \in Nat /\ key \in Keys /\ minHits \in Nat /\ from \in Nat
    BY LenProperties DEF MinInv, MinStep
<1>2. at' = at + 1 /\ UNCHANGED <<scored, from, capacity>>
    BY DEF MinStep
<1>3. PICK kept : Turn(kept)
    BY <1>1, MinTurn
<1>4. /\ NextUse(at) \in (at + 1)..(Len(scored) + 1)
      /\ NextUse(at) <= Len(scored) => scored[NextUse(at)] = key
      /\ \A j \in (at + 1)..Len(scored) : j < NextUse(at) => scored[j] # key
    BY <1>1, NextUseIs DEF MinInv
<1>5. minHits' = IF key \in DOMAIN resident /\ at > from THEN minHits + 1 ELSE minHits
    BY <1>1 DEF MinStep
<1>6. /\ DOMAIN resident' \subseteq Keys /\ IsFiniteSet(DOMAIN resident')
      /\ HeapCoversResident'
  <2>1. IsFiniteSet(kept)
      BY <1>3, FS_Subset DEF Turn, MinInv
  <2>2. IsFiniteSet(kept \cup {key})
      BY <2>1, FS_AddElement
  <2>3. \A x \in DOMAIN resident' : <<x, resident'[x]>> \in heap'
      BY <1>3 DEF Turn
  <2>4. Cardinality(DOMAIN resident') <= capacity'
      BY <1>2, <1>3 DEF Turn
  <2>5. DOMAIN resident' \subseteq Keys
      BY <1>1, <1>3 DEF Turn, MinInv
  <2>6. IsFiniteSet(DOMAIN resident')
      BY <2>2, <1>3 DEF Turn
  <2> QED BY <2>3, <2>4, <2>5, <2>6 DEF HeapCoversResident
<1>7. ASSUME NEW x \in DOMAIN resident'
      PROVE  /\ resident'[x] \in (at + 1)..(Len(scored) + 1)
             /\ resident'[x] <= Len(scored) => scored[resident'[x]] = x
             /\ \A j \in (at + 1)..Len(scored) : j < resident'[x] => scored[j] # x
  <2>1. CASE x = key
      BY <1>3, <1>4, <2>1 DEF Turn
  <2>2. CASE x # key
    <3>1. x \in DOMAIN resident /\ resident'[x] = resident[x]
        BY <1>3, <2>2 DEF Turn
    <3>2. /\ resident[x] \in at..(Len(scored) + 1)
          /\ resident[x] <= Len(scored) => scored[resident[x]] = x
          /\ \A j \in at..Len(scored) : j < resident[x] => scored[j] # x
        BY <3>1 DEF MinInv
    <3>3. resident[x] # at
        BY <1>1, <2>2, <3>2
    <3> QED BY <1>1, <3>1, <3>2, <3>3
  <2> QED BY <2>1, <2>2
<1>8. MinInv'
  <2>1. scored' \in Seq(Keys) /\ from' \in Nat /\ capacity' \in Nat /\ capacity' # 0
      BY <1>1, <1>2 DEF MinInv
  <2>2. minHits' \in Nat
      BY <1>1, <1>5
  <2>3. at' \in 1..(Len(scored') + 1)
      BY <1>1, <1>2
  <2>4. \A x \in DOMAIN resident' :
          /\ resident'[x] \in at'..(Len(scored') + 1)
          /\ resident'[x] <= Len(scored') => scored'[resident'[x]] = x
          /\ \A j \in at'..Len(scored') : j < resident'[x] => scored'[j] # x
      BY <1>2, <1>7
  <2>5. phase' # "done"
      OBVIOUS
  <2> QED BY <1>6, <2>1, <2>2, <2>3, <2>4, <2>5 DEF MinInv
\* The furthest is needed by j only if all residents are.
<1>9. ASSUME NEW e \in DOMAIN resident, \A x \in DOMAIN resident : resident[x] <= resident[e],
             NEW j \in 0..Len(scored), e \in Soon(scored, DOMAIN resident, at, j)
      PROVE  DOMAIN resident \subseteq Soon(scored, DOMAIN resident, at, j)
  <2>1. \A x \in DOMAIN resident :
          /\ resident[x] \in at..(Len(scored) + 1)
          /\ resident[x] <= Len(scored) => scored[resident[x]] = x
          /\ \A r \in at..Len(scored) : r < resident[x] => scored[r] # x
      BY DEF MinInv
  <2>2. PICK r \in at..j : scored[r] = e
      BY <1>9 DEF Soon
  <2>3. resident[e] <= j
      BY <1>1, <2>1, <2>2
  <2>4. ASSUME NEW x \in DOMAIN resident PROVE \E q \in at..j : scored[q] = x
    <3>1. resident[x] \in at..j
        BY <1>1, <1>9, <2>1, <2>3
    <3> QED BY <1>1, <2>1, <3>1
  <2> QED BY <2>4 DEF Soon
<1>10. AheadInv'
  <2> SUFFICES ASSUME from = 0,
                      NEW P \in [0..Len(scored) -> SUBSET Keys], NEW h \in [0..Len(scored) -> Nat],
                      Plays(scored, Len(scored), capacity, P, h), NEW j \in 0..Len(scored)
               PROVE  h[at] + Cardinality(Soon(scored, P[at], at + 1, j))
                        <= minHits' + Cardinality(Soon(scored, DOMAIN resident', at + 1, j))
    <3>1. at' - 1 = at
        BY <1>1, <1>2
    <3> QED BY <1>2, <3>1 DEF AheadInv
  <2>1. \A x \in 0..Len(scored) :
           h[at - 1] + Cardinality(Soon(scored, P[at - 1], at, x))
              <= minHits + Cardinality(Soon(scored, DOMAIN resident, at, x))
      BY DEF AheadInv
  <2>2. /\ key \in P[at] /\ P[at] \subseteq P[at - 1] \cup {key}
        /\ IsFiniteSet(P[at]) /\ Cardinality(P[at]) <= capacity
        /\ h[at] <= h[at - 1] + (IF key \in P[at - 1] THEN 1 ELSE 0)
        /\ h[at] \in Nat /\ h[at - 1] \in Nat
      BY <1>1 DEF Plays
  <2>3. IsFiniteSet(P[at - 1])
    <3>1. CASE at = 1
      <4>1. P[at - 1] = {}
          BY <3>1 DEF Plays
      <4> QED BY <4>1, FS_EmptySet
    <3>2. CASE at # 1
      <4>1. at - 1 \in 1..Len(scored)
          BY <1>1, <3>2
      <4> QED BY <4>1 DEF Plays
    <3> QED BY <3>1, <3>2
  <2>4. minHits' = minHits + (IF key \in DOMAIN resident THEN 1 ELSE 0) /\ minHits' \in Nat
      BY <1>1, <1>5
  <2>5. IsFiniteSet(DOMAIN resident) /\ IsFiniteSet(DOMAIN resident')
      BY <1>6 DEF MinInv
  <2>6. \/ DOMAIN resident' = DOMAIN resident \cup {key}
        \/ /\ key \notin DOMAIN resident /\ Cardinality(DOMAIN resident) = capacity
           /\ \E e \in DOMAIN resident :
                 /\ DOMAIN resident' = (DOMAIN resident \ {e}) \cup {key}
                 /\ \A x \in 0..Len(scored) :
                       e \in Soon(scored, DOMAIN resident, at, x)
                         => DOMAIN resident \subseteq Soon(scored, DOMAIN resident, at, x)
      BY <1>3, <1>9 DEF Turn
  <2>7. PICK t, i, c, last, A, B, M, N, g0, g1, m0, m1 :
           /\ t = scored /\ i = at /\ c = capacity /\ last = Len(scored)
           /\ A = P[at - 1] /\ B = P[at] /\ M = DOMAIN resident /\ N = DOMAIN resident'
           /\ g0 = h[at - 1] /\ g1 = h[at] /\ m0 = minHits /\ m1 = minHits'
      OBVIOUS
  <2>8. /\ i \in Nat /\ c \in Nat /\ last \in Nat /\ i <= last
        /\ g0 \in Nat /\ g1 \in Nat /\ m0 \in Nat /\ m1 \in Nat /\ j \in 0..last
      BY <1>1, <2>2, <2>4, <2>7
  <2>9. IsFiniteSet(A) /\ IsFiniteSet(B) /\ IsFiniteSet(M) /\ IsFiniteSet(N)
      BY <2>2, <2>3, <2>5, <2>7
  <2>10. \A x \in 0..last :
            g0 + Cardinality(Soon(t, A, i, x)) <= m0 + Cardinality(Soon(t, M, i, x))
      BY <2>1, <2>7
  <2>11. /\ t[i] \in B /\ B \subseteq A \cup {t[i]} /\ Cardinality(B) <= c
         /\ g1 <= g0 + (IF t[i] \in A THEN 1 ELSE 0)
         /\ m1 = m0 + (IF t[i] \in M THEN 1 ELSE 0)
         /\ t[i] \in N
      BY <1>3, <2>2, <2>4, <2>7 DEF Turn
  <2>12. \/ N = M \cup {t[i]}
         \/ /\ t[i] \notin M /\ Cardinality(M) = c
            /\ \E e \in M :
                  /\ N = (M \ {e}) \cup {t[i]}
                  /\ \A x \in 0..last : e \in Soon(t, M, i, x) => M \subseteq Soon(t, M, i, x)
      BY <2>6, <2>7
  <2>13. g1 + Cardinality(Soon(t, B, i + 1, j)) <= m1 + Cardinality(Soon(t, N, i + 1, j))
      BY <2>8, <2>9, <2>10, <2>11, <2>12, StaysAhead, ZenonT(60)
  <2> QED BY <2>7, <2>13
<1> QED BY <1>8, <1>10

-----------------------------------------------------------------------------
(* Sums of counters over nodes.                                             *)

\* One more of a counter of S.
LEMMA CountAdd ==
    ASSUME NEW f \in [Nodes -> Nat], NEW n \in Nodes, IsFiniteSet(Units(f, Nodes))
    PROVE  /\ IsFiniteSet(Units([f EXCEPT ![n] = f[n] + 1], Nodes))
           /\ Count([f EXCEPT ![n] = f[n] + 1], Nodes) = Count(f, Nodes) + 1
<1> DEFINE g == [f EXCEPT ![n] = f[n] + 1]
<1>1. Units(g, Nodes) = Units(f, Nodes) \cup {<<n, f[n]>>}
  <2>1. ASSUME NEW p \in Units(g, Nodes) PROVE p \in Units(f, Nodes) \cup {<<n, f[n]>>}
    <3>1. p \in Nodes \X Nat /\ p[2] < g[p[1]] /\ p = <<p[1], p[2]>>
        BY <2>1 DEF Units
    <3>2. CASE p[1] = n
      <4>1. p[2] < f[n] + 1 /\ p[2] \in Nat /\ f[n] \in Nat
          BY <3>1, <3>2
      <4>2. p[2] < f[n] \/ p[2] = f[n]
          BY <4>1
      <4> QED BY <3>1, <3>2, <4>2 DEF Units
    <3>3. CASE p[1] # n
        BY <3>1, <3>3 DEF Units
    <3> QED BY <3>2, <3>3
  <2>2. ASSUME NEW p \in Units(f, Nodes) PROVE p \in Units(g, Nodes)
    <3>1. p \in Nodes \X Nat /\ p[2] < f[p[1]] /\ p[1] \in Nodes /\ p[2] \in Nat
        BY <2>2 DEF Units
    <3>2. f[p[1]] \in Nat /\ g[p[1]] \in Nat /\ f[p[1]] <= g[p[1]]
        BY <3>1
    <3>3. p[2] < g[p[1]]
        BY <3>1, <3>2
    <3> QED BY <3>1, <3>3 DEF Units
  <2>3. <<n, f[n]>> \in Units(g, Nodes)
    <3>1. f[n] \in Nat /\ g[n] = f[n] + 1
        OBVIOUS
    <3> QED BY <3>1 DEF Units
  <2> QED BY <2>1, <2>2, <2>3
<1>2. <<n, f[n]>> \notin Units(f, Nodes)
    BY DEF Units
<1> HIDE DEF g
<1>3. /\ IsFiniteSet(Units(f, Nodes) \cup {<<n, f[n]>>})
      /\ Cardinality(Units(f, Nodes) \cup {<<n, f[n]>>}) = Cardinality(Units(f, Nodes)) + 1
    BY <1>2, FS_AddElement
<1>4. IsFiniteSet(Units(g, Nodes)) /\ Count(g, Nodes) = Count(f, Nodes) + 1
    BY <1>1, <1>3 DEF Count
<1> QED BY <1>4 DEF g

\* A counter is reset.
LEMMA CountReset ==
    ASSUME NEW f \in [Nodes -> Nat], NEW n \in Nodes, NEW g, g = [f EXCEPT ![n] = 0],
           IsFiniteSet(Units(f, Nodes)), NEW S \in SUBSET Nodes
    PROVE  /\ IsFiniteSet(Units(g, S))
           /\ Count(g, S) \in Nat /\ Count(f, S) \in Nat /\ Count(g, S) <= Count(f, S)
<1>1. Units(f, S) \subseteq Units(f, Nodes)
    BY DEF Units
<1>2. IsFiniteSet(Units(f, S))
    BY <1>1, FS_Subset
<1>3. Units(g, S) \subseteq Units(f, S)
    BY DEF Units
<1> QED BY <1>2, <1>3, FS_Subset, FS_CardinalityType DEF Count

LEMMA CountNat ==
    ASSUME NEW f, NEW S \in SUBSET Nodes, IsFiniteSet(Units(f, Nodes))
    PROVE  IsFiniteSet(Units(f, S)) /\ Count(f, S) \in Nat
<1>1. Units(f, S) \subseteq Units(f, Nodes)
    BY DEF Units
<1> QED BY <1>1, FS_Subset, FS_CardinalityType DEF Count

\* The sum is one counter and the sum of the others.
LEMMA CountOne ==
    ASSUME NEW f \in [Nodes -> Nat], IsFiniteSet(Units(f, Nodes)),
           NEW S \in SUBSET Nodes, NEW n \in S
    PROVE  Count(f, S) = Count(f, S \ {n}) + f[n]
<1> DEFINE U == {n} \X (0..(f[n] - 1))
<1>1. f[n] \in Nat /\ n \in Nodes
    OBVIOUS
<1>2. IsFiniteSet(U) /\ Cardinality(U) = f[n]
  <2>1. IsFiniteSet(0..(f[n] - 1)) /\ Cardinality(0..(f[n] - 1)) = f[n]
    <3>1. 0 \in Int /\ f[n] - 1 \in Int
        BY <1>1
    <3>2. Cardinality(0..(f[n] - 1)) = IF 0 > f[n] - 1 THEN 0 ELSE (f[n] - 1) - 0 + 1
        BY <3>1, FS_Interval
    <3>3. IsFiniteSet(0..(f[n] - 1))
        BY <3>1, FS_Interval
    <3> QED BY <1>1, <3>2, <3>3
  <2>2. IsFiniteSet({n}) /\ Cardinality({n}) = 1
      BY FS_Singleton
  <2>3. PICK A, B : A = {n} /\ B = 0..(f[n] - 1)
      OBVIOUS
  <2>4. IsFiniteSet(A) /\ IsFiniteSet(B) /\ Cardinality(A) = 1 /\ Cardinality(B) = f[n]
      BY <2>1, <2>2, <2>3
  <2>5. IsFiniteSet(A \X B) /\ Cardinality(A \X B) = Cardinality(A) * Cardinality(B)
      BY <2>4, FS_Product
  <2>6. Cardinality(A \X B) = f[n]
      BY <1>1, <2>4, <2>5
  <2> QED BY <2>3, <2>5, <2>6
<1>3. Units(f, S) = Units(f, S \ {n}) \cup U
  <2>1. ASSUME NEW p \in Units(f, S) PROVE p \in Units(f, S \ {n}) \cup U
    <3>1. p \in S \X Nat /\ p[2] < f[p[1]] /\ p = <<p[1], p[2]>>
        BY <2>1 DEF Units
    <3>2. CASE p[1] = n
      <4>1. p[2] \in 0..(f[n] - 1)
          BY <1>1, <3>1, <3>2
      <4> QED BY <3>1, <3>2, <4>1
    <3>3. CASE p[1] # n
        BY <3>1, <3>3 DEF Units
    <3> QED BY <3>2, <3>3
  <2>2. ASSUME NEW p \in U PROVE p \in Units(f, S)
      BY <1>1, <2>2 DEF Units
  <2>3. Units(f, S \ {n}) \subseteq Units(f, S)
      BY DEF Units
  <2> QED BY <2>1, <2>2, <2>3
<1>4. Units(f, S \ {n}) \cap U = {}
    BY DEF Units
<1>5. IsFiniteSet(Units(f, S \ {n})) /\ Count(f, S \ {n}) \in Nat
    BY CountNat
<1> HIDE DEF U
<1>6. PICK A, B : A = Units(f, S \ {n}) /\ B = U
    OBVIOUS
<1>7. IsFiniteSet(A) /\ IsFiniteSet(B) /\ A \cap B = {}
    BY <1>2, <1>4, <1>5, <1>6
<1>8. Cardinality(A \cup B) = Cardinality(A) + Cardinality(B) - Cardinality(A \cap B)
    BY <1>7, FS_Union
<1>9. Cardinality(A \cap B) = 0
    BY <1>7, FS_EmptySet
<1>10. Cardinality(A) \in Nat /\ Cardinality(B) \in Nat
    BY <1>7, FS_CardinalityType
<1> QED BY <1>2, <1>3, <1>6, <1>8, <1>9, <1>10 DEF Count

LEMMA CountNone ==
    ASSUME NEW f
    PROVE  Count(f, {}) = 0
<1>1. Units(f, {}) = {}
    BY DEF Units
<1> QED BY <1>1, FS_EmptySet DEF Count

-----------------------------------------------------------------------------
(* Types, and what the nodes hold.                                          *)

LEMMA InitTypes ==
    ASSUME Init
    PROVE  TypeOK /\ HeldInv
<1>1. trace \in Seq(Keys) /\ warmup \in Nat /\ concurrency \in Nat \ {0} /\ phase \in Phases
    BY LoadgenAssumption DEF Init, Phases
<1>2. pos \in [Workers -> Nat \ {0}] /\ miss \in [Workers -> Nodes \cup {"none"}]
    BY <1>1 DEF Init, AtStart, Workers
<1>3. /\ held \in [Nodes -> SUBSET Keys] /\ hits \in [Nodes -> Nat] /\ misses \in [Nodes -> Nat]
      /\ asked \subseteq Nodes /\ sum \in Sums /\ before \in Sums
      /\ served = 0 /\ fromCache = 0 /\ torn \in BOOLEAN /\ restarts \in Nat
    BY DEF Init, Sums, Zero
<1>4. TypeOK
    BY <1>1, <1>2, <1>3 DEF TypeOK
<1>5. HeldInv
  <2>1. \A n \in Nodes : held[n] = {}
      BY DEF Init
  <2>2. IsFiniteSet({}) /\ Cardinality({}) = 0 /\ 0 <= NodeCapacity
      BY LoadgenAssumption, FS_EmptySet
  <2> QED BY <2>1, <2>2 DEF HeldInv
<1> QED BY <1>4, <1>5

\* What is replayed is a trace.
LEMMA ReplayedIs ==
    ASSUME TypeOK
    PROVE  Warmed \in Seq(Keys) /\ Replayed \in Seq(Keys) /\ (warmup = 0 => Warmed = <<>>)
<1>1. PICK n : n = IF warmup < Len(trace) THEN warmup ELSE Len(trace)
    OBVIOUS
<1>2. trace \in Seq(Keys) /\ n \in Nat /\ n <= Len(trace) /\ (warmup = 0 => n = 0)
    BY <1>1 DEF TypeOK
<1>3. Warmed = SubSeq(trace, 1, n)
    BY <1>1 DEF Warmed
<1>4. \A i \in 1..n : trace[i] \in Keys
    BY <1>2
<1>5. Warmed \in Seq(Keys) /\ Len(Warmed) = n
    BY <1>2, <1>3, <1>4, SubSeqProperties
<1> QED BY <1>2, <1>5 DEF Replayed, TypeOK

LEMMA TypesNext ==
    ASSUME TypeOK, HeldInv, WindowInv, [Next]_vars
    PROVE  TypeOK' /\ HeldInv'
<1> USE DEF TypeOK, Workers
<1>1. ASSUME NEW w \in Workers, NEW n \in Nodes, GetHit(w, n) PROVE TypeOK' /\ HeldInv'
  <2>1. TypeOK'
    <3>1. pos' \in [Workers -> Nat \ {0}] /\ hits' \in [Nodes -> Nat]
      <4>1. pos[w] + concurrency \in Nat \ {0} /\ hits[n] + 1 \in Nat
          OBVIOUS
      <4>2. /\ pos' = [pos EXCEPT ![w] = pos[w] + concurrency]
            /\ hits' = [hits EXCEPT ![n] = hits[n] + 1]
          BY <1>1 DEF GetHit, Answered
      <4> QED BY <4>1, <4>2
    <3>2. served' \in Nat /\ fromCache' \in Nat /\ fromCache' <= served'
        BY <1>1, SMTT(30) DEF GetHit, Answered
    <3> QED BY <1>1, <3>1, <3>2 DEF GetHit, runVars
  <2> QED BY <1>1, <2>1 DEF GetHit, HeldInv
<1>2. ASSUME NEW w \in Workers, NEW n \in Nodes, GetMiss(w, n) PROVE TypeOK' /\ HeldInv'
  <2>1. TypeOK'
      BY <1>2, SMTT(30) DEF GetMiss, runVars, Phases
  <2> QED BY <1>2, <2>1 DEF GetMiss, HeldInv
<1>3. ASSUME NEW w \in Workers, GetFetched(w) PROVE TypeOK' /\ HeldInv'
  <2> DEFINE n == miss[w]
             k == Replayed[pos[w]]
  <2>1. n \in Nodes
      BY <1>3 DEF GetFetched
  <2>2. k \in Keys
    <3>1. w \in Out
        BY <1>3 DEF GetFetched, Out
    <3>2. pos[w] \in 1..Len(Replayed)
        BY <3>1, ReplayedIs DEF WindowInv
    <3> QED BY <3>2, ReplayedIs
  <2>3. PICK drop \in SUBSET held[n] :
            /\ held' = [held EXCEPT ![n] = (held[n] \ drop) \cup {k}]
            /\ \/ drop = {} /\ (k \in held[n] \/ Cardinality(held[n]) < NodeCapacity)
               \/ \E v \in held[n] : drop = {v} /\ Cardinality(held[n]) = NodeCapacity
    <3>1. CASE /\ k \in held[n] \/ Cardinality(held[n]) < NodeCapacity
               /\ held' = [held EXCEPT ![n] = @ \cup {k}]
      <4>1. held[n] \ {} = held[n]
          OBVIOUS
      <4> QED BY <3>1, <4>1
    <3>2. ASSUME NEW v \in held[n], Cardinality(held[n]) = NodeCapacity,
                 held' = [held EXCEPT ![n] = (@ \ {v}) \cup {k}]
          PROVE  \E drop \in SUBSET held[n] :
                    /\ held' = [held EXCEPT ![n] = (held[n] \ drop) \cup {k}]
                    /\ \E x \in held[n] : drop = {x} /\ Cardinality(held[n]) = NodeCapacity
        BY <3>2
    <3> QED BY <1>3, <3>1, <3>2 DEF GetFetched
  <2>4. TypeOK'
    <3>1. held' \in [Nodes -> SUBSET Keys]
        BY <2>1, <2>2, <2>3
    <3>2. pos' \in [Workers -> Nat \ {0}] /\ miss' \in [Workers -> Nodes \cup {"none"}]
      <4>1. pos[w] + concurrency \in Nat \ {0}
          OBVIOUS
      <4>2. /\ pos' = [pos EXCEPT ![w] = pos[w] + concurrency]
            /\ miss' = [miss EXCEPT ![w] = "none"]
          BY <1>3 DEF GetFetched, Answered
      <4> QED BY <4>1, <4>2
    <3>3. served' \in Nat /\ fromCache' \in Nat /\ fromCache' <= served'
        BY <1>3, SMTT(30) DEF GetFetched, Answered
    <3> QED BY <1>3, <3>1, <3>2, <3>3 DEF GetFetched, runVars
  <2>5. IsFiniteSet(held'[n]) /\ Cardinality(held'[n]) <= NodeCapacity
    <3>1. held'[n] = (held[n] \ drop) \cup {k}
        BY <2>1, <2>3
    <3>2. /\ IsFiniteSet(held[n]) /\ Cardinality(held[n]) <= NodeCapacity
          /\ Cardinality(held[n]) \in Nat /\ NodeCapacity \in Nat
        BY <2>1, LoadgenAssumption, FS_CardinalityType DEF HeldInv
    <3>3. CASE drop = {} /\ (k \in held[n] \/ Cardinality(held[n]) < NodeCapacity)
      <4>1. PICK H, x : H = held[n] /\ x = k
          OBVIOUS
      <4>2. IsFiniteSet(H \cup {x}) /\ Cardinality(H \cup {x})
                = IF x \in H THEN Cardinality(H) ELSE Cardinality(H) + 1
        <5>1. IsFiniteSet(H)
            BY <3>2, <4>1
        <5> QED BY <5>1, FS_AddElement
      <4>3. held'[n] = H \cup {x}
          BY <3>1, <3>3, <4>1
      <4> HIDE DEF k, n
      <4> QED BY <3>2, <3>3, <4>1, <4>2, <4>3
    <3>4. ASSUME NEW v \in held[n], drop = {v}, Cardinality(held[n]) = NodeCapacity
          PROVE  IsFiniteSet(held'[n]) /\ Cardinality(held'[n]) <= NodeCapacity
      <4>1. PICK R : R = held[n] \ {v}
          OBVIOUS
      <4>2. IsFiniteSet(R) /\ Cardinality(R) = NodeCapacity - 1
        <5>1. PICK H : H = held[n]
            OBVIOUS
        <5>2. IsFiniteSet(H) /\ v \in H /\ Cardinality(H) = NodeCapacity
            BY <3>2, <3>4, <5>1
        <5>3. IsFiniteSet(H \ {v}) /\ Cardinality(H \ {v}) = Cardinality(H) - 1
            BY <5>2, FS_RemoveElement
        <5> QED BY <4>1, <5>1, <5>2, <5>3
      <4>3. IsFiniteSet(R \cup {k}) /\ Cardinality(R \cup {k})
                = IF k \in R THEN NodeCapacity - 1 ELSE (NodeCapacity - 1) + 1
          BY <4>2, FS_AddElement
      <4>4. held'[n] = R \cup {k}
          BY <3>1, <3>4, <4>1
      <4> HIDE DEF k, n
      <4> QED BY <3>2, <4>3, <4>4
    <3> QED BY <2>3, <3>3, <3>4
  <2>6. \A x \in Nodes : x # n => held'[x] = held[x]
      BY <2>3
  <2> QED BY <2>4, <2>5, <2>6 DEF HeldInv
<1>4. ASSUME NEW n \in Nodes, StatsAt(n) PROVE TypeOK' /\ HeldInv'
  <2>1. Cardinality(held[n]) \in Nat
      BY FS_CardinalityType DEF HeldInv
  <2>2. sum' \in Sums
      BY <1>4, <2>1, SMTT(30) DEF StatsAt, Sums
  <2>3. TypeOK'
      BY <1>4, <2>2 DEF StatsAt, runVars, clusterVars, Phases
  <2> QED BY <1>4, <2>3 DEF StatsAt, clusterVars, HeldInv
<1>5. ASSUME NEW n \in Nodes, Restart(n) PROVE TypeOK' /\ HeldInv'
  <2>1. TypeOK'
      BY <1>5 DEF Restart, runVars, Phases
  <2>2. \A x \in Nodes : held'[x] = IF x = n THEN {} ELSE held[x]
      BY <1>5 DEF Restart
  <2>3. HeldInv'
    <3> SUFFICES ASSUME NEW x \in Nodes
                 PROVE  IsFiniteSet(held'[x]) /\ Cardinality(held'[x]) <= NodeCapacity
        BY DEF HeldInv
    <3>1. CASE x = n
      <4>1. held'[x] = {} /\ NodeCapacity \in Nat
          BY <2>2, <3>1, LoadgenAssumption
      <4> QED BY <4>1, FS_EmptySet
    <3>2. CASE x # n
        BY <2>2, <3>2 DEF HeldInv
    <3> QED BY <3>1, <3>2
  <2> QED BY <2>1, <2>3
<1>6. CASE ReplayEnd
    BY <1>6 DEF ReplayEnd, runVars, clusterVars, Phases, Sums, Zero, HeldInv
<1>7. CASE Die
    BY <1>7 DEF Die, runVars, clusterVars, Phases, HeldInv
<1>8. CASE BeforeEnd
    BY <1>8 DEF BeforeEnd, runVars, clusterVars, Phases, AtStart, HeldInv
<1>9. CASE AfterEnd
    BY <1>9 DEF AfterEnd, runVars, clusterVars, Phases, HeldInv
<1>10. CASE ReportMin \/ ReportEnd
    BY <1>10 DEF ReportMin, ReportEnd, runVars, clusterVars, Phases, HeldInv
<1>11. CASE UNCHANGED vars
    BY <1>11 DEF vars, runVars, clusterVars, HeldInv
<1> QED BY <1>1, <1>2, <1>3, <1>4, <1>5, <1>6, <1>7, <1>8, <1>9, <1>10, <1>11
       DEF Next, Exited

-----------------------------------------------------------------------------
(* The window under way.                                                    *)

LEMMA OutFacts ==
    ASSUME TypeOK
    PROVE  IsFiniteSet(Out) /\ Cardinality(Out) \in Nat
<1>1. IsFiniteSet(Workers)
    BY FS_Interval DEF TypeOK, Workers
<1>2. Out \subseteq Workers
    BY DEF Out
<1> QED BY <1>1, <1>2, FS_Subset, FS_CardinalityType

\* The counts of the next state are those of its counters.
LEMMA NextCounts ==
    /\ Count(hits, Nodes)' = Count(hits', Nodes) /\ Count(misses, Nodes)' = Count(misses', Nodes)
    /\ Count(hits, asked)' = Count(hits', asked') /\ Count(misses, asked)' = Count(misses', asked')
    /\ Count(hits, Nodes \ asked)' = Count(hits', Nodes \ asked')
    /\ Count(misses, Nodes \ asked)' = Count(misses', Nodes \ asked')
    /\ Units(hits, Nodes)' = Units(hits', Nodes) /\ Units(misses, Nodes)' = Units(misses', Nodes)
BY DEF Count, Units

LEMMA InitWindow ==
    ASSUME Init, TypeOK
    PROVE  WindowInv /\ ReportedInv
<1>1. Units(hits, Nodes) = {} /\ Units(misses, Nodes) = {}
    BY DEF Init, Units
<1>2. IsFiniteSet(Units(hits, Nodes)) /\ IsFiniteSet(Units(misses, Nodes))
    BY <1>1, FS_EmptySet
<1>3. asked = {} /\ Count(hits, asked) = 0 /\ Count(misses, asked) = 0
    BY CountNone DEF Init
<1>4. Out = {}
    BY DEF Init, Out
<1>5. phase \in {"warmup", "before"} /\ served = 0 /\ fromCache = 0 /\ sum = Zero /\ sd = {}
    BY DEF Init
<1> QED BY <1>2, <1>3, <1>4, <1>5 DEF WindowInv, ReportedInv, Within, Zero

LEMMA WindowNext ==
    ASSUME TypeOK, HeldInv, WindowInv, ReportedInv, [Next]_vars
    PROVE  WindowInv' /\ ReportedInv'
<1> USE NextCounts DEF Within
<1>1. /\ \A S \in SUBSET Nodes : Count(hits, S) \in Nat /\ Count(misses, S) \in Nat
      /\ IsFiniteSet(Units(hits, Nodes)) /\ IsFiniteSet(Units(misses, Nodes))
      /\ IsFiniteSet(Out) /\ Cardinality(Out) \in Nat
  <2>1. IsFiniteSet(Units(hits, Nodes)) /\ IsFiniteSet(Units(misses, Nodes))
      BY DEF WindowInv
  <2>2. ASSUME NEW S \in SUBSET Nodes PROVE Count(hits, S) \in Nat /\ Count(misses, S) \in Nat
      BY <2>1, CountNat
  <2> QED BY <2>1, <2>2, OutFacts
<1>2. /\ served \in Nat /\ fromCache \in Nat /\ fromCache <= served
      /\ sum \in Sums /\ before \in Sums /\ asked \subseteq Nodes /\ torn \in BOOLEAN
      /\ hits \in [Nodes -> Nat] /\ misses \in [Nodes -> Nat] /\ phase \in Phases
    BY DEF TypeOK
<1>0. phase = "replay" =>
        /\ Within(Count(hits, Nodes), before.hits + fromCache)
        /\ Within(Count(misses, Nodes), before.misses + (served - fromCache) + Cardinality(Out))
    BY DEF WindowInv
\* The numbers behind Within.
<1>3. /\ sum.hits \in Nat /\ sum.misses \in Nat /\ before.hits \in Nat /\ before.misses \in Nat
      /\ Count(hits, Nodes) \in Nat /\ Count(misses, Nodes) \in Nat
      /\ Count(hits, asked) \in Nat /\ Count(misses, asked) \in Nat
      /\ Count(hits, Nodes \ asked) \in Nat /\ Count(misses, Nodes \ asked) \in Nat
    BY <1>1, <1>2 DEF Sums
<1>4. ASSUME NEW w \in Workers, NEW n \in Nodes, GetHit(w, n) PROVE WindowInv' /\ ReportedInv'
  <2>1. /\ phase \in {"warmup", "replay"} /\ miss[w] = "none"
        /\ hits' = [hits EXCEPT ![n] = hits[n] + 1]
        /\ UNCHANGED <<misses, phase, miss, asked, sum, before, sd, torn, trace, warmup, concurrency>>
      BY <1>4 DEF GetHit, Sending, runVars
  <2>2. IsFiniteSet(Units(hits', Nodes)) /\ Count(hits', Nodes) = Count(hits, Nodes) + 1
    <3>1. PICK f : f = hits
        OBVIOUS
    <3>2. f \in [Nodes -> Nat] /\ IsFiniteSet(Units(f, Nodes))
        BY <1>1, <1>2, <3>1
    <3>3. /\ IsFiniteSet(Units([f EXCEPT ![n] = f[n] + 1], Nodes))
          /\ Count([f EXCEPT ![n] = f[n] + 1], Nodes) = Count(f, Nodes) + 1
        BY <3>2, CountAdd
    <3> QED BY <2>1, <3>1, <3>3
  <2>3. Out' = Out /\ Replayed' = Replayed
      BY <2>1 DEF Out, Workers, Replayed, Warmed
  <2>4. \A x \in Out : pos'[x] = pos[x]
      BY <2>1, <1>4 DEF GetHit, Answered, Out, TypeOK
  <2>5. /\ phase = "replay" => served' = served + 1 /\ fromCache' = fromCache + 1
        /\ phase = "warmup" => served' = served /\ fromCache' = fromCache
      BY <1>4, <2>1 DEF GetHit, Answered
  <2>6. WindowInv'
    <3>1. phase = "replay" =>
            /\ Within(Count(hits', Nodes), before.hits + fromCache')
            /\ Within(Count(misses', Nodes),
                      before.misses + (served' - fromCache') + Cardinality(Out'))
        BY <1>0, <1>1, <1>2, <1>3, <2>1, <2>2, <2>3, <2>5
    <3>2. \A x \in Out' : phase' \in {"warmup", "replay"} /\ pos'[x] <= Len(Replayed')
        BY <2>1, <2>3, <2>4 DEF WindowInv
    <3> QED BY <1>1, <1>2, <1>3, <2>1, <2>2, <2>5, <3>1, <3>2 DEF WindowInv
  <2> QED BY <2>1, <2>6 DEF ReportedInv
<1>5. ASSUME NEW w \in Workers, NEW n \in Nodes, GetMiss(w, n) PROVE WindowInv' /\ ReportedInv'
  <2>1. /\ phase \in {"warmup", "replay"} /\ miss[w] = "none" /\ pos[w] <= Len(Replayed)
        /\ misses' = [misses EXCEPT ![n] = misses[n] + 1]
        /\ miss' = [miss EXCEPT ![w] = n]
        /\ UNCHANGED <<hits, phase, pos, asked, sum, before, sd, torn, trace, warmup, concurrency,
                       served, fromCache>>
      BY <1>5 DEF GetMiss, Sending, runVars
  <2>2. IsFiniteSet(Units(misses', Nodes)) /\ Count(misses', Nodes) = Count(misses, Nodes) + 1
    <3>1. PICK f : f = misses
        OBVIOUS
    <3>2. f \in [Nodes -> Nat] /\ IsFiniteSet(Units(f, Nodes))
        BY <1>1, <1>2, <3>1
    <3>3. /\ IsFiniteSet(Units([f EXCEPT ![n] = f[n] + 1], Nodes))
          /\ Count([f EXCEPT ![n] = f[n] + 1], Nodes) = Count(f, Nodes) + 1
        BY <3>2, CountAdd
    <3> QED BY <2>1, <3>1, <3>3
  <2>3. Out' = Out \cup {w} /\ w \notin Out /\ Replayed' = Replayed
      BY <2>1, LoadgenAssumption DEF Out, Workers, Replayed, Warmed, TypeOK
  <2>4. Cardinality(Out') = Cardinality(Out) + 1
      BY <1>1, <2>3, FS_AddElement
  <2>5. WindowInv'
    <3>1. phase = "replay" =>
            /\ Within(Count(hits', Nodes), before.hits + fromCache')
            /\ Within(Count(misses', Nodes),
                      before.misses + (served' - fromCache') + Cardinality(Out'))
      <4>1. /\ Count(hits', Nodes) = Count(hits, Nodes)
            /\ served' = served /\ fromCache' = fromCache /\ torn' = torn
          BY <2>1
      <4> QED BY <1>0, <1>1, <1>2, <1>3, <2>2, <2>4, <4>1
    <3>2. \A x \in Out' : phase' \in {"warmup", "replay"} /\ pos'[x] <= Len(Replayed')
        BY <2>1, <2>3 DEF WindowInv
    <3> QED BY <1>1, <1>2, <1>3, <2>1, <2>2, <3>1, <3>2 DEF WindowInv
  <2> QED BY <2>1, <2>5 DEF ReportedInv
<1>6. ASSUME NEW w \in Workers, GetFetched(w) PROVE WindowInv' /\ ReportedInv'
  <2>1. /\ miss[w] # "none" /\ miss' = [miss EXCEPT ![w] = "none"]
        /\ UNCHANGED <<hits, misses, phase, asked, sum, before, sd, torn, trace, warmup, concurrency>>
      BY <1>6 DEF GetFetched, runVars
  <2>2. Out' = Out \ {w} /\ w \in Out /\ Replayed' = Replayed
      BY <2>1 DEF Out, Workers, Replayed, Warmed, TypeOK
  <2>3. Cardinality(Out') = Cardinality(Out) - 1
      BY <1>1, <2>2, FS_RemoveElement
  <2>4. phase \in {"warmup", "replay"}
      BY <2>2 DEF WindowInv
  <2>5. \A x \in Out' : pos'[x] = pos[x]
      BY <2>1, <2>2, <1>6 DEF GetFetched, Answered, Out, TypeOK
  <2>6. /\ phase = "replay" => served' = served + 1 /\ fromCache' = fromCache
        /\ phase = "warmup" => served' = served /\ fromCache' = fromCache
      BY <1>2, <1>6, <2>1 DEF GetFetched, Answered
  <2>7. WindowInv'
    <3>1. phase = "replay" =>
            /\ Within(Count(hits', Nodes), before.hits + fromCache')
            /\ Within(Count(misses', Nodes),
                      before.misses + (served' - fromCache') + Cardinality(Out'))
        BY <1>0, <1>1, <1>2, <1>3, <2>1, <2>3, <2>6
    <3>2. \A x \in Out' : phase' \in {"warmup", "replay"} /\ pos'[x] <= Len(Replayed')
        BY <2>1, <2>2, <2>4, <2>5 DEF WindowInv
    <3> QED BY <1>1, <1>2, <1>3, <2>1, <2>4, <2>6, <3>1, <3>2 DEF WindowInv
  <2>8. sd = {} /\ sd' = {}
      BY <2>1, <2>4 DEF ReportedInv
  <2> QED BY <2>1, <2>7, <2>8 DEF ReportedInv
<1>7. ASSUME NEW n \in Nodes, StatsAt(n) PROVE WindowInv' /\ ReportedInv'
  <2>1. /\ phase \in {"before", "after"} /\ n \notin asked /\ asked' = asked \cup {n}
        /\ sum'.hits = sum.hits + hits[n] /\ sum'.misses = sum.misses + misses[n]
        /\ UNCHANGED <<hits, misses, phase, pos, miss, before, sd, torn, trace, warmup, concurrency,
                       served, fromCache>>
      BY <1>7 DEF StatsAt, runVars, clusterVars
  <2>2. hits[n] \in Nat /\ misses[n] \in Nat
      BY <1>2
  <2>3. /\ Count(hits, asked') = Count(hits, asked) + hits[n]
        /\ Count(misses, asked') = Count(misses, asked) + misses[n]
    <3>1. PICK S : S = asked'
        OBVIOUS
    <3>2. S \in SUBSET Nodes /\ n \in S /\ S \ {n} = asked
        BY <1>2, <2>1, <3>1
    <3>3. /\ Count(hits, S) = Count(hits, S \ {n}) + hits[n]
          /\ Count(misses, S) = Count(misses, S \ {n}) + misses[n]
        BY <1>1, <1>2, <3>2, CountOne
    <3> QED BY <3>1, <3>2, <3>3
  <2>4. /\ Count(hits, Nodes \ asked) = Count(hits, Nodes \ asked') + hits[n]
        /\ Count(misses, Nodes \ asked) = Count(misses, Nodes \ asked') + misses[n]
    <3>1. PICK S : S = Nodes \ asked
        OBVIOUS
    <3>2. S \in SUBSET Nodes /\ n \in S /\ S \ {n} = Nodes \ asked'
        BY <1>2, <2>1, <3>1
    <3>3. /\ Count(hits, S) = Count(hits, S \ {n}) + hits[n]
          /\ Count(misses, S) = Count(misses, S \ {n}) + misses[n]
        BY <1>1, <1>2, <3>2, CountOne
    <3> QED BY <3>1, <3>2, <3>3
  <2>5. Out' = Out /\ Out = {} /\ asked' # {}
      BY <2>1 DEF WindowInv, Out, Workers
  <2>6. Count(hits, Nodes \ asked') \in Nat /\ Count(misses, Nodes \ asked') \in Nat
    <3>1. Nodes \ asked' \in SUBSET Nodes
        OBVIOUS
    <3> QED BY <1>1, <3>1
  <2>7. WindowInv'
      BY <1>1, <1>2, <1>3, <2>1, <2>2, <2>3, <2>4, <2>5, <2>6 DEF WindowInv
  <2> QED BY <2>1, <2>7 DEF ReportedInv
<1>8. ASSUME NEW n \in Nodes, Restart(n) PROVE WindowInv' /\ ReportedInv'
  <2>1. /\ phase \notin {"died", "report", "done"}
        /\ hits' = [hits EXCEPT ![n] = 0] /\ misses' = [misses EXCEPT ![n] = 0]
        /\ torn' = (torn \/ phase # "warmup")
        /\ UNCHANGED <<phase, pos, miss, asked, sum, before, sd, trace, warmup, concurrency,
                       served, fromCache>>
      BY <1>8 DEF Restart, runVars
  <2>2. ASSUME NEW S \in SUBSET Nodes
        PROVE  /\ IsFiniteSet(Units(hits', S)) /\ IsFiniteSet(Units(misses', S))
               /\ Count(hits', S) \in Nat /\ Count(misses', S) \in Nat
               /\ Count(hits', S) <= Count(hits, S) /\ Count(misses', S) <= Count(misses, S)
    <3>1. PICK h, m : h = hits' /\ m = misses'
        OBVIOUS
    <3>2. h = [hits EXCEPT ![n] = 0] /\ m = [misses EXCEPT ![n] = 0]
        BY <2>1, <3>1
    <3>3. /\ IsFiniteSet(Units(h, S)) /\ IsFiniteSet(Units(m, S))
          /\ Count(h, S) \in Nat /\ Count(m, S) \in Nat
          /\ Count(h, S) <= Count(hits, S) /\ Count(m, S) <= Count(misses, S)
        BY <1>1, <1>2, <3>2, CountReset
    <3> QED BY <3>1, <3>3
  <2>3. Out' = Out /\ Replayed' = Replayed
      BY <2>1 DEF Out, Workers, Replayed, Warmed
  <2>4. Nodes \in SUBSET Nodes /\ asked \in SUBSET Nodes /\ Nodes \ asked \in SUBSET Nodes
      BY <1>2
  <2>5. /\ Count(hits', Nodes) <= Count(hits, Nodes) /\ Count(misses', Nodes) <= Count(misses, Nodes)
        /\ Count(hits', asked) <= Count(hits, asked) /\ Count(misses', asked) <= Count(misses, asked)
        /\ Count(hits', Nodes \ asked) <= Count(hits, Nodes \ asked)
        /\ Count(misses', Nodes \ asked) <= Count(misses, Nodes \ asked)
        /\ Count(hits', Nodes) \in Nat /\ Count(misses', Nodes) \in Nat
        /\ Count(hits', asked) \in Nat /\ Count(misses', asked) \in Nat
        /\ Count(hits', Nodes \ asked) \in Nat /\ Count(misses', Nodes \ asked) \in Nat
        /\ IsFiniteSet(Units(hits', Nodes)) /\ IsFiniteSet(Units(misses', Nodes))
      BY <2>2, <2>4
  <2>6. WindowInv'
    <3>1. phase \in {"before", "replay", "after"} => torn'
        BY <2>1
    <3>2. phase = "before" => Count(hits', asked) <= sum.hits /\ Count(misses', asked) <= sum.misses
        BY <1>3, <2>5 DEF WindowInv
    <3>3. phase = "replay" =>
            /\ Count(hits', Nodes) <= before.hits + fromCache
            /\ Count(misses', Nodes) <= before.misses + (served - fromCache) + Cardinality(Out)
        BY <1>0, <1>1, <1>2, <1>3, <2>5
    <3>4. phase = "after" =>
            /\ sum.hits + Count(hits', Nodes \ asked) <= before.hits + fromCache
            /\ sum.misses + Count(misses', Nodes \ asked) <= before.misses + (served - fromCache)
        BY <1>1, <1>2, <1>3, <2>5 DEF WindowInv
    <3>5. \A x \in Out' : phase' \in {"warmup", "replay"} /\ pos'[x] <= Len(Replayed')
        BY <2>1, <2>3 DEF WindowInv
    <3> QED BY <2>1, <2>3, <2>5, <3>1, <3>2, <3>3, <3>4, <3>5 DEF WindowInv
  <2> QED BY <2>1, <2>6 DEF ReportedInv
<1>9. CASE ReplayEnd
  <2>1. /\ phase \in {"warmup", "replay"} /\ asked' = {} /\ sum' = Zero
        /\ phase' = IF phase = "warmup" THEN "before" ELSE "after"
        /\ UNCHANGED <<hits, misses, pos, miss, before, sd, torn, trace, warmup, concurrency,
                       served, fromCache>>
      BY <1>9 DEF ReplayEnd, runVars, clusterVars
  <2>2. Out = {} /\ Out' = {}
    <3>1. \A w \in Workers : pos[w] > Len(Replayed) /\ pos[w] \in Nat /\ Len(Replayed) \in Nat
        BY <1>9, ReplayedIs DEF ReplayEnd, TypeOK
    <3>2. Out = {}
        BY <3>1 DEF WindowInv, Out
    <3> QED BY <3>2, <2>1 DEF Out, Workers
  <2>3. Count(hits, {}) = 0 /\ Count(misses, {}) = 0 /\ Nodes \ {} = Nodes /\ Cardinality(Out) = 0
      BY <2>2, CountNone, FS_EmptySet
  <2>4. WindowInv'
      BY <1>1, <1>2, <1>3, <2>1, <2>2, <2>3 DEF WindowInv, Zero
  <2> QED BY <2>1, <2>4 DEF ReportedInv
<1>10. CASE Die
  <2>1. /\ phase \in {"warmup", "before", "replay", "after"} /\ phase' = "died"
        /\ miss' = [w \in Workers |-> "none"]
        /\ UNCHANGED <<hits, misses, asked, sum, before, sd, torn, trace, warmup, concurrency,
                       served, fromCache>>
      BY <1>10 DEF Die, runVars, clusterVars
  <2>2. Out' = {}
      BY <2>1 DEF Out, Workers
  <2>3. WindowInv'
      BY <1>1, <1>2, <1>3, <2>1, <2>2 DEF WindowInv
  <2> QED BY <2>1, <2>3 DEF ReportedInv
<1>11. CASE BeforeEnd
  <2>1. /\ phase = "before" /\ phase' = "replay" /\ asked = Nodes /\ before' = sum
        /\ UNCHANGED <<hits, misses, miss, asked, sum, sd, torn, trace, warmup, concurrency,
                       served, fromCache>>
      BY <1>11 DEF BeforeEnd, runVars, clusterVars
  <2>2. Out = {} /\ Out' = {} /\ Cardinality(Out) = 0
    <3>1. Out = {}
        BY <2>1 DEF WindowInv
    <3> QED BY <3>1, <2>1, FS_EmptySet DEF Out, Workers
  <2>3. WindowInv'
      BY <1>1, <1>2, <1>3, <2>1, <2>2 DEF WindowInv
  <2> QED BY <2>1, <2>3 DEF ReportedInv
<1>12. CASE AfterEnd
  <2>1. /\ phase = "after" /\ asked = Nodes /\ phase' \in {"died", "done", "report"}
        /\ UNCHANGED <<hits, misses, miss, asked, sum, before, torn, trace, warmup, concurrency,
                       served, fromCache>>
        /\ phase' = "died" => sd' = sd
        /\ phase' # "died" => sd' = {WithRatio(d) : d \in Delta(before, sum)}
      BY <1>12 DEF AfterEnd, runVars, clusterVars
  <2>2. Out = {} /\ Out' = {}
    <3>1. Out = {}
        BY <2>1 DEF WindowInv
    <3> QED BY <3>1, <2>1 DEF Out, Workers
  <2>3. WindowInv'
      BY <1>1, <1>2, <1>3, <2>1, <2>2 DEF WindowInv
  <2>4. /\ sum.hits <= before.hits + fromCache /\ (~torn => sum.hits = before.hits + fromCache)
        /\ sum.misses <= before.misses + (served - fromCache)
        /\ ~torn => sum.misses = before.misses + (served - fromCache)
    <3>1. Count(hits, Nodes \ asked) = 0 /\ Count(misses, Nodes \ asked) = 0
      <4>1. Nodes \ asked = {}
          BY <2>1
      <4> QED BY <4>1, CountNone
    <3> QED BY <1>2, <1>3, <2>1, <3>1 DEF WindowInv
  <2>5. ASSUME NEW d \in Delta(before, sum)
        PROVE  /\ d.hits \in Nat /\ Within(d.hits, fromCache)
               /\ d.misses \in Nat /\ Within(d.misses, served - fromCache)
    <3>1. /\ d = [hits |-> sum.hits - before.hits, misses |-> sum.misses - before.misses]
          /\ sum.hits >= before.hits /\ sum.misses >= before.misses
        BY <1>3, <2>5 DEF Delta
    <3> QED BY <1>2, <1>3, <2>4, <3>1
  <2>6. sd = {}
      BY <2>1 DEF ReportedInv
  <2>7. ReportedInv'
    <3>1. ASSUME NEW e \in sd'
          PROVE  /\ e.hits \in Nat /\ Within(e.hits, fromCache)
                 /\ e.misses \in Nat /\ Within(e.misses, served - fromCache)
                 /\ e.objectHit = Ratio(e.hits, e.hits + e.misses)
      <4>1. PICK d \in Delta(before, sum) : e = WithRatio(d)
          BY <2>1, <2>6, <3>1
      <4>2. /\ e.hits = d.hits /\ e.misses = d.misses
            /\ e.objectHit = Ratio(d.hits, d.hits + d.misses)
          BY <4>1 DEF WithRatio
      <4> QED BY <2>5, <4>2
    <3>2. phase' = "died" => sd' = {}
        BY <2>1, <2>6
    <3> QED BY <2>1, <3>1, <3>2 DEF ReportedInv, Within
  <2> QED BY <2>3, <2>7
<1>13. CASE ReportMin \/ ReportEnd
  <2>1. /\ phase \in {"report", "done"} /\ phase' \in {"report", "done"}
        /\ UNCHANGED <<hits, misses, pos, miss, asked, sum, before, sd, torn, trace, warmup,
                       concurrency, served, fromCache>>
      BY <1>13 DEF ReportMin, ReportEnd, runVars, clusterVars
  <2>2. Out = {} /\ Out' = {}
    <3>1. Out = {}
        BY <2>1 DEF WindowInv
    <3> QED BY <3>1, <2>1 DEF Out, Workers
  <2>3. WindowInv'
      BY <1>1, <1>2, <1>3, <2>1, <2>2 DEF WindowInv
  <2> QED BY <2>1, <2>3 DEF ReportedInv
<1>14. CASE UNCHANGED vars
  <2>1. UNCHANGED <<hits, misses, phase, pos, miss, asked, sum, before, sd, torn, trace, warmup,
                    concurrency, served, fromCache>>
      BY <1>14 DEF vars, runVars, clusterVars
  <2>2. Out' = Out /\ Replayed' = Replayed
      BY <2>1 DEF Out, Workers, Replayed, Warmed
  <2> QED BY <2>1, <2>2 DEF WindowInv, ReportedInv
<1> QED BY <1>4, <1>5, <1>6, <1>7, <1>8, <1>9, <1>10, <1>11, <1>12, <1>13, <1>14
       DEF Next, Exited

-----------------------------------------------------------------------------
(* The comparison with MIN.                                                 *)

\* All nodes together hold no more than they have room for.
LEMMA HeldBound ==
    ASSUME NEW H \in [Nodes -> SUBSET Keys],
           \A n \in Nodes : IsFiniteSet(H[n]) /\ Cardinality(H[n]) <= NodeCapacity
    PROVE  LET U == UNION {H[n] : n \in Nodes} IN
           /\ U \subseteq Keys /\ IsFiniteSet(U) /\ Cardinality(U) <= Slots
<1> DEFINE U == UNION {H[n] : n \in Nodes}
           Places == Nodes \X (1..NodeCapacity)
<1>1. ASSUME NEW n \in Nodes
      PROVE  \E f \in [1..Cardinality(H[n]) -> H[n]] :
                \A x \in H[n] : \E i \in 1..Cardinality(H[n]) : f[i] = x
  <2>1. ExistsBijection(1..Cardinality(H[n]), H[n])
      BY FS_CardinalityType
  <2> QED BY <2>1 DEF ExistsBijection, Bijection, Surjection
<1> DEFINE listing == [n \in Nodes |-> CHOOSE f \in [1..Cardinality(H[n]) -> H[n]] :
                          \A x \in H[n] : \E i \in 1..Cardinality(H[n]) : f[i] = x]
<1>2. \A n \in Nodes : \A x \in H[n] : \E i \in 1..NodeCapacity : listing[n][i] = x
  <2> SUFFICES ASSUME NEW n \in Nodes, NEW x \in H[n]
               PROVE  \E i \in 1..NodeCapacity : listing[n][i] = x
      OBVIOUS
  <2>1. \A y \in H[n] : \E i \in 1..Cardinality(H[n]) : listing[n][i] = y
      BY <1>1
  <2>2. Cardinality(H[n]) \in Nat /\ NodeCapacity \in Nat /\ Cardinality(H[n]) <= NodeCapacity
      BY LoadgenAssumption, FS_CardinalityType
  <2> HIDE DEF listing
  <2>3. PICK i \in 1..Cardinality(H[n]) : listing[n][i] = x
      BY <2>1
  <2>4. i \in 1..NodeCapacity
      BY <2>2
  <2> QED BY <2>3, <2>4
<1> HIDE DEF listing
<1> DEFINE node == [x \in U |-> CHOOSE n \in Nodes : x \in H[n]]
<1>3. \A x \in U : node[x] \in Nodes /\ x \in H[node[x]]
    OBVIOUS
<1> HIDE DEF node
<1> DEFINE index == [x \in U |-> CHOOSE i \in 1..NodeCapacity : listing[node[x]][i] = x]
<1>4. \A x \in U : index[x] \in 1..NodeCapacity /\ listing[node[x]][index[x]] = x
    BY <1>2, <1>3
<1> HIDE DEF index
<1> DEFINE place == [x \in U |-> <<node[x], index[x]>>]
<1>5. place \in Injection(U, Places)
  <2>1. place \in [U -> Places]
      BY <1>3, <1>4
  <2>2. \A x, y \in U : place[x] = place[y] => x = y
      BY <1>4
  <2> QED BY <2>1, <2>2 DEF Injection, IsInjective
<1>6. IsFiniteSet(Places) /\ Cardinality(Places) = Slots
  <2>1. NodeCapacity \in Nat
      BY LoadgenAssumption
  <2>2. PICK I : I = 1..NodeCapacity
      OBVIOUS
  <2>3. IsFiniteSet(I) /\ Cardinality(I) = NodeCapacity
      BY <2>1, <2>2, FS_Interval
  <2>4. IsFiniteSet(Nodes)
      BY LoadgenAssumption
  <2>5. IsFiniteSet(Nodes \X I) /\ Cardinality(Nodes \X I) = Cardinality(Nodes) * Cardinality(I)
      BY <2>3, <2>4, FS_Product
  <2> QED BY <2>2, <2>3, <2>5 DEF Slots
<1>7. U \subseteq Keys
    OBVIOUS
<1> HIDE DEF U, place, Places
<1>8. IsFiniteSet(U) /\ Cardinality(U) <= Cardinality(Places)
    BY <1>5, <1>6, FS_Injection
<1>9. U \subseteq Keys /\ IsFiniteSet(U) /\ Cardinality(U) <= Slots
    BY <1>6, <1>7, <1>8
<1> QED BY <1>9 DEF U

\* A play goes on with what is held after the next request, and the hits then.
LEMMA PlayExtends ==
    ASSUME NEW t, NEW n \in Nat, NEW c, NEW P, NEW h, Plays(t, n, c, P, h),
           NEW S \in SUBSET Keys, t[n + 1] \in S, S \subseteq P[n] \cup {t[n + 1]},
           IsFiniteSet(S), Cardinality(S) <= c,
           NEW g \in Nat, g <= h[n] + (IF t[n + 1] \in P[n] THEN 1 ELSE 0)
    PROVE  \E Q, k : Plays(t, n + 1, c, Q, k) /\ k[n + 1] = g /\ Q[n + 1] = S
<1> DEFINE Q == [i \in 0..(n + 1) |-> IF i = n + 1 THEN S ELSE P[i]]
           k == [i \in 0..(n + 1) |-> IF i = n + 1 THEN g ELSE h[i]]
<1>1. P \in [0..n -> SUBSET Keys] /\ h \in [0..n -> Nat] /\ P[0] = {} /\ h[0] = 0
    BY DEF Plays
<1>2. Q \in [0..(n + 1) -> SUBSET Keys] /\ k \in [0..(n + 1) -> Nat] /\ Q[0] = {} /\ k[0] = 0
    BY <1>1
<1>3. \A i \in 0..n : Q[i] = P[i] /\ k[i] = h[i]
    OBVIOUS
<1>4. Q[n + 1] = S /\ k[n + 1] = g
    OBVIOUS
<1> HIDE DEF Q, k
<1>5. ASSUME NEW i \in 1..(n + 1)
      PROVE  /\ t[i] \in Q[i] /\ Q[i] \subseteq Q[i - 1] \cup {t[i]}
             /\ IsFiniteSet(Q[i]) /\ Cardinality(Q[i]) <= c
             /\ k[i] <= k[i - 1] + (IF t[i] \in Q[i - 1] THEN 1 ELSE 0)
  <2>1. CASE i = n + 1
    <3>1. i - 1 = n /\ n \in 0..n
        BY <2>1
    <3> QED BY <1>3, <1>4, <2>1, <3>1
  <2>2. CASE i # n + 1
    <3>1. i \in 1..n /\ i \in 0..n /\ i - 1 \in 0..n
        BY <2>2
    <3> QED BY <1>3, <3>1 DEF Plays
  <2> QED BY <2>1, <2>2
<1>6. Plays(t, n + 1, c, Q, k)
    BY <1>2, <1>5 DEF Plays
<1> QED BY <1>4, <1>6

LEMMA InitPlay ==
    ASSUME Init, TypeOK
    PROVE  MinInv /\ PlayInv /\ AheadInv
<1>1. /\ scored = <<>> /\ from = 0 /\ capacity = 0 /\ at = 1 /\ resident = <<>> /\ minHits = 0
      /\ phase \in {"warmup", "before"} /\ (phase = "warmup" => warmup > 0)
    BY DEF Init, MinInit
<1>2. DOMAIN resident = {} /\ IsFiniteSet(DOMAIN resident) /\ Cardinality(DOMAIN resident) = 0
    BY <1>1, FS_EmptySet
<1>3. MinInv
    BY <1>1, <1>2 DEF MinInv, HeapCoversResident
<1>4. PlayInv
    BY <1>1 DEF Init, PlayInv, Held, Compared
<1>5. AheadInv
  <2> SUFFICES ASSUME NEW h \in [0..0 -> Nat], NEW P \in [0..0 -> SUBSET Keys],
                      Plays(scored, 0, 0, P, h), NEW j \in 0..0
               PROVE  h[0] + Cardinality(Soon(scored, P[0], 1, j))
                        <= minHits + Cardinality(Soon(scored, DOMAIN resident, 1, j))
      BY <1>1 DEF AheadInv
  <2>1. /\ Cardinality(Soon(scored, P[0], 1, j)) = 0
        /\ Cardinality(Soon(scored, DOMAIN resident, 1, j)) = 0
      BY SoonNone
  <2>2. h[0] = 0
      BY DEF Plays
  <2> QED BY <1>1, <2>1, <2>2
<1> QED BY <1>3, <1>4, <1>5

\* MIN starts on a trace.
LEMMA CallInv ==
    ASSUME NEW t \in Seq(Keys), NEW c \in Nat \ {0}, NEW f \in Nat, MinCall(t, c, f),
           phase' = "report"
    PROVE  MinInv' /\ AheadInv'
<1>1. /\ scored' = t /\ capacity' = c /\ from' = f /\ at' = 1 /\ resident' = <<>> /\ minHits' = 0
      /\ Len(t) \in Nat
    BY DEF MinCall
<1>2. DOMAIN resident' = {} /\ IsFiniteSet(DOMAIN resident') /\ Cardinality(DOMAIN resident') = 0
    BY <1>1, FS_EmptySet
<1>3. MinInv'
    BY <1>1, <1>2 DEF MinInv, HeapCoversResident
<1>4. AheadInv'
  <2> SUFFICES ASSUME NEW P, NEW h, Plays(t, Len(t), c, P, h), NEW j \in 0..Len(t)
               PROVE  h[0] + Cardinality(Soon(t, P[0], 1, j))
                        <= 0 + Cardinality(Soon(t, {}, 1, j))
      BY <1>1, <1>2 DEF AheadInv, Plays
  <2>1. h[0] = 0 /\ P[0] = {}
      BY DEF Plays
  <2>2. Soon(t, {}, 1, j) = {}
      BY DEF Soon
  <2>3. Cardinality(Soon(t, {}, 1, j)) = 0
      BY <2>2, FS_EmptySet
  <2> QED BY <2>1, <2>3
<1> QED BY <1>3, <1>4

\* A step that is not MIN's leaves it as it is.
LEMMA MinStays ==
    ASSUME MinInv, AheadInv, UNCHANGED minVars,
           phase' \notin {"report", "done"} => phase \notin {"report", "done"},
           phase' = "report" => phase = "report",
           phase' = "done" /\ Len(scored) > 0 => at = Len(scored) + 1
    PROVE  MinInv' /\ AheadInv'
<1>1. UNCHANGED <<scored, from, capacity, at, resident, heap, minHits>>
    BY DEF minVars
<1>2. MinInv'
    BY <1>1 DEF MinInv, HeapCoversResident
<1>3. AheadInv'
  <2> SUFFICES ASSUME from = 0, NEW P \in [0..Len(scored) -> SUBSET Keys],
                      NEW h \in [0..Len(scored) -> Nat],
                      Plays(scored, Len(scored), capacity, P, h), NEW j \in 0..Len(scored)
               PROVE  h[at - 1] + Cardinality(Soon(scored, P[at - 1], at, j))
                         <= minHits + Cardinality(Soon(scored, DOMAIN resident, at, j))
      BY <1>1 DEF AheadInv
  <2> QED BY DEF AheadInv
<1> QED BY <1>2, <1>3

LEMMA MinInvNext ==
    ASSUME TypeOK, WindowInv, MinInv, AheadInv, [Next]_vars
    PROVE  MinInv' /\ AheadInv'
<1>1. ASSUME NEW w \in Workers, NEW n \in Nodes, GetHit(w, n) \/ GetMiss(w, n)
      PROVE  MinInv' /\ AheadInv'
  <2>1. UNCHANGED minVars /\ phase' = phase
      BY <1>1 DEF GetHit, GetMiss
  <2>2. phase = "done" /\ Len(scored) > 0 => at = Len(scored) + 1
      BY DEF MinInv
  <2> QED BY <2>1, <2>2, MinStays
<1>2. ASSUME NEW w \in Workers, GetFetched(w) PROVE MinInv' /\ AheadInv'
  <2>1. UNCHANGED minVars /\ phase' = phase
      BY <1>2 DEF GetFetched
  <2>2. phase = "done" /\ Len(scored) > 0 => at = Len(scored) + 1
      BY DEF MinInv
  <2> QED BY <2>1, <2>2, MinStays
<1>3. ASSUME NEW n \in Nodes, StatsAt(n) \/ Restart(n) PROVE MinInv' /\ AheadInv'
  <2>1. UNCHANGED minVars /\ phase' = phase
      BY <1>3 DEF StatsAt, Restart
  <2>2. phase = "done" /\ Len(scored) > 0 => at = Len(scored) + 1
      BY DEF MinInv
  <2> QED BY <2>1, <2>2, MinStays
<1>4. CASE ReplayEnd \/ Die \/ BeforeEnd
  <2>1. /\ UNCHANGED minVars
        /\ phase \notin {"report", "done"} /\ phase' \notin {"report", "done"}
      BY <1>4 DEF ReplayEnd, Die, BeforeEnd
  <2> QED BY <2>1, MinStays
<1>5. CASE AfterEnd
  <2>1. phase = "after" /\ asked = Nodes
      BY <1>5 DEF AfterEnd
  <2>2. scored = <<>>
      BY <2>1 DEF MinInv
  <2>3. CASE UNCHANGED minVars /\ phase' \in {"died", "done"}
    <3>1. ~(Len(scored) > 0)
        BY <2>2
    <3> QED BY <2>1, <2>3, <3>1, MinStays
  <2>4. CASE /\ phase' = "report" /\ sum.objects # 0
             /\ MinCall(Warmed \o trace, Cardinality(Nodes) * NodeCapacity, Len(Warmed))
    <3>1. Warmed \o trace \in Seq(Keys) /\ Len(Warmed) \in Nat
        BY ReplayedIs, ConcatProperties DEF TypeOK
    <3>2. Cardinality(Nodes) * NodeCapacity \in Nat \ {0}
      <4>1. Nodes # {}
          BY <2>1, <2>4 DEF WindowInv
      <4>2. PICK a, b : a = Cardinality(Nodes) /\ b = NodeCapacity
          OBVIOUS
      <4>3. a \in Nat \ {0} /\ b \in Nat \ {0}
          BY <4>1, <4>2, LoadgenAssumption, FS_EmptySet, FS_CardinalityType
      <4>4. a * b \in Nat \ {0}
          BY <4>3
      <4> QED BY <4>2, <4>4
    <3> QED BY <2>4, <3>1, <3>2, CallInv
  <2> QED BY <1>5, <2>3, <2>4 DEF AfterEnd
<1>6. CASE ReportMin
    BY <1>6, MinNext DEF ReportMin
<1>7. CASE ReportEnd
  <2>1. UNCHANGED minVars /\ phase = "report" /\ phase' = "done" /\ at > Len(scored)
      BY <1>7 DEF ReportEnd
  <2>2. at = Len(scored) + 1
    <3>1. at \in 1..(Len(scored) + 1) /\ Len(scored) \in Nat
        BY LenProperties DEF MinInv
    <3> QED BY <2>1, <3>1
  <2> QED BY <2>1, <2>2, MinStays
<1>8. CASE UNCHANGED vars
  <2>1. UNCHANGED minVars /\ phase' = phase
      BY <1>8 DEF vars
  <2>2. phase = "done" /\ Len(scored) > 0 => at = Len(scored) + 1
      BY DEF MinInv
  <2> QED BY <2>1, <2>2, MinStays
<1> QED BY <1>1, <1>2, <1>3, <1>4, <1>5, <1>6, <1>7, <1>8 DEF Next, Exited

\* A step that answers no Get keeps the play.
LEMMA PlayStays ==
    ASSUME PlayInv, UNCHANGED <<runVars, scored, from, capacity, pos, served, fromCache>>,
           Held' \subseteq Held, phase' = phase
    PROVE  PlayInv'
<1>1. UNCHANGED <<trace, warmup, concurrency>>
    BY DEF runVars
<1>2. Compared' = Compared /\ Slots' = Slots
    BY DEF Compared, Slots
<1>3. ASSUME NEW P, NEW h, Plays(trace, pos[1] - 1, Slots, P, h), h[pos[1] - 1] = fromCache,
             Held \subseteq P[pos[1] - 1]
      PROVE  Held' \subseteq P[pos[1] - 1]
    BY <1>3
<1> QED BY <1>1, <1>2, <1>3 DEF PlayInv, Playing, Plays

LEMMA PlayNext ==
    ASSUME TypeOK, WindowInv, MinInv, PlayInv, TypeOK', HeldInv', [Next]_vars
    PROVE  PlayInv'
<1>1. ASSUME NEW w \in Workers, GetFetched(w) \/ \E n \in Nodes : GetHit(w, n)
      PROVE  PlayInv'
  <2>1. /\ phase' = phase /\ UNCHANGED <<minVars, runVars>>
        /\ Answered(w, FALSE) \/ Answered(w, TRUE)
      BY <1>1 DEF GetFetched, GetHit
  <2>2. phase \in {"warmup", "replay"} /\ pos[w] <= Len(Replayed)
    <3>1. GetFetched(w) => w \in Out
        BY DEF GetFetched, Out
    <3> QED BY <1>1, <3>1 DEF WindowInv, GetHit, Sending
  <2>3. UNCHANGED <<trace, warmup, concurrency, scored, from, capacity>>
      BY <2>1 DEF runVars, minVars
  <2>4. CASE ~(concurrency = 1 /\ warmup = 0 /\ phase = "replay")
    <3>1. ~(concurrency = 1 /\ warmup = 0)
        BY <2>2, <2>4 DEF PlayInv
    <3> QED BY <2>1, <2>2, <2>3, <3>1 DEF PlayInv
  <2>5. CASE concurrency = 1 /\ warmup = 0 /\ phase = "replay"
    <3>1. w = 1 /\ pos[1] <= Len(trace) /\ Replayed = trace
        BY <2>2, <2>5 DEF Workers, Replayed
    <3>2. PICK n : n = pos[1] - 1
        OBVIOUS
    <3>3. /\ n \in Nat /\ pos[1] = n + 1 /\ n + 1 \in 1..Len(trace) /\ trace[n + 1] \in Keys
          /\ fromCache \in Nat
      <4>1. pos[1] \in Nat \ {0} /\ trace \in Seq(Keys) /\ fromCache \in Nat
          BY <2>5, <3>1 DEF TypeOK, Workers
      <4>2. Len(trace) \in Nat /\ \A i \in 1..Len(trace) : trace[i] \in Keys
          BY <4>1
      <4> QED BY <3>1, <3>2, <4>1, <4>2
    <3>4. pos'[1] = n + 2
        BY <2>1, <2>5, <3>1, <3>3 DEF Answered, TypeOK, Workers
    <3>5. PICK k : k = trace[n + 1]
        OBVIOUS
    <3>6. PICK P, h : Plays(trace, n, Slots, P, h) /\ h[n] = fromCache /\ Held \subseteq P[n]
        BY <2>5, <3>2 DEF PlayInv, Playing
    <3>7. PICK S : S = Held'
        OBVIOUS
    <3>8. k \in S /\ S \subseteq Held \cup {k} /\ (fromCache' = fromCache + 1 => k \in Held)
            /\ fromCache' \in {fromCache, fromCache + 1}
      <4>1. CASE GetFetched(w)
        <5>1. miss[w] \in Nodes /\ Replayed[pos[w]] = k
            BY <4>1, <2>5, <3>1, <3>3, <3>5 DEF GetFetched, TypeOK
        <5>2. /\ k \in held'[miss[w]] /\ held'[miss[w]] \subseteq held[miss[w]] \cup {k}
              /\ \A x \in Nodes : x # miss[w] => held'[x] = held[x]
            BY <4>1, <5>1 DEF GetFetched, TypeOK
        <5>3. fromCache' = fromCache
            BY <4>1, <2>5, <3>3 DEF GetFetched, Answered
        <5>4. k \in S /\ S \subseteq Held \cup {k}
            BY <3>7, <5>1, <5>2 DEF Held
        <5> QED BY <3>3, <5>3, <5>4
      <4>2. ASSUME NEW x \in Nodes, GetHit(w, x)
            PROVE  k \in Held /\ Held' = Held /\ fromCache' = fromCache + 1
        <5>1. k \in held[x] /\ held' = held
            BY <4>2, <3>1, <3>3, <3>5 DEF GetHit
        <5>2. fromCache' = fromCache + 1
            BY <4>2, <2>5 DEF GetHit, Answered
        <5> QED BY <5>1, <5>2 DEF Held
      <4> QED BY <1>1, <3>7, <4>1, <4>2
    <3>9. S \subseteq Keys /\ IsFiniteSet(S) /\ Cardinality(S) <= Slots
      <4>1. PICK H : H = held'
          OBVIOUS
      <4>2. H \in [Nodes -> SUBSET Keys]
          BY <4>1 DEF TypeOK
      <4>3. \A x \in Nodes : IsFiniteSet(H[x]) /\ Cardinality(H[x]) <= NodeCapacity
          BY <4>1 DEF HeldInv
      <4>4. LET U == UNION {H[x] : x \in Nodes} IN
            U \subseteq Keys /\ IsFiniteSet(U) /\ Cardinality(U) <= Slots
          BY <4>2, <4>3, HeldBound
      <4>5. S = UNION {H[x] : x \in Nodes}
          BY <3>7, <4>1 DEF Held
      <4> QED BY <4>4, <4>5
    <3>10. \E Q, g : Plays(trace, n + 1, Slots, Q, g) /\ g[n + 1] = fromCache' /\ Q[n + 1] = S
      <4>1. PICK t, c, f : t = trace /\ c = Slots /\ f = fromCache'
          OBVIOUS
      <4>2. /\ Plays(t, n, c, P, h) /\ t[n + 1] \in S /\ S \subseteq P[n] \cup {t[n + 1]}
            /\ IsFiniteSet(S) /\ Cardinality(S) <= c /\ S \in SUBSET Keys
          BY <3>5, <3>6, <3>8, <3>9, <4>1
      <4>3. f \in Nat /\ f <= h[n] + (IF t[n + 1] \in P[n] THEN 1 ELSE 0)
          BY <3>3, <3>5, <3>6, <3>8, <4>1
      <4>4. \E Q, g : Plays(t, n + 1, c, Q, g) /\ g[n + 1] = f /\ Q[n + 1] = S
          BY <3>3, <4>2, <4>3, PlayExtends
      <4> QED BY <4>1, <4>4
    <3>11. PICK Q, g : Plays(trace, n + 1, Slots, Q, g) /\ g[n + 1] = fromCache' /\ Q[n + 1] = S
        BY <3>10
    <3>15. served' = pos'[1] - 1
      <4>1. served = n /\ served' = served + 1
          BY <2>1, <2>5, <3>2 DEF PlayInv, Playing, Answered
      <4> QED BY <3>3, <3>4, <4>1
    <3>12. /\ Plays(trace', pos'[1] - 1, Slots', Q, g) /\ g[pos'[1] - 1] = fromCache'
           /\ Held' \subseteq Q[pos'[1] - 1] /\ pos'[1] <= Len(trace') + 1
      <4>1. pos'[1] - 1 = n + 1 /\ trace' = trace /\ Slots' = Slots
          BY <2>3, <3>3, <3>4 DEF Slots
      <4> QED BY <3>3, <3>4, <3>7, <3>11, <4>1
    <3>13. phase' = "replay" /\ ~Compared'
        BY <2>1, <2>5 DEF Compared
    <3>14. Playing'
        BY <3>12, <3>15 DEF Playing, Plays
    <3> QED BY <3>13, <3>14 DEF PlayInv
  <2> QED BY <2>4, <2>5
<1>2. ASSUME NEW w \in Workers, NEW n \in Nodes, GetMiss(w, n) PROVE PlayInv'
  <2>1. Held' = Held
      BY <1>2 DEF GetMiss, Held
  <2>2. UNCHANGED <<runVars, scored, from, capacity, pos, served, fromCache>> /\ phase' = phase
      BY <1>2 DEF GetMiss, minVars
  <2> QED BY <2>1, <2>2, PlayStays
<1>3. ASSUME NEW n \in Nodes, StatsAt(n) PROVE PlayInv'
  <2>1. Held' = Held
      BY <1>3 DEF StatsAt, clusterVars, Held
  <2>2. UNCHANGED <<runVars, scored, from, capacity, pos, served, fromCache>> /\ phase' = phase
      BY <1>3 DEF StatsAt, minVars
  <2> QED BY <2>1, <2>2, PlayStays
<1>4. ASSUME NEW n \in Nodes, Restart(n) PROVE PlayInv'
  <2>1. \A x \in Nodes : held'[x] \subseteq held[x]
      BY <1>4 DEF Restart, TypeOK
  <2>2. Held' \subseteq Held
      BY <2>1 DEF Held
  <2>3. UNCHANGED <<runVars, scored, from, capacity, pos, served, fromCache>> /\ phase' = phase
      BY <1>4 DEF Restart, minVars
  <2> QED BY <2>2, <2>3, PlayStays
<1>5. CASE ReplayEnd
  <2>1. /\ phase \in {"warmup", "replay"}
        /\ phase' = IF phase = "warmup" THEN "before" ELSE "after"
        /\ UNCHANGED <<trace, warmup, concurrency, pos, served, fromCache>>
      BY <1>5 DEF ReplayEnd, runVars, clusterVars
  <2>2. ~Compared' /\ phase' \notin {"warmup", "replay", "report", "done"} /\ Slots' = Slots
      BY <2>1 DEF Compared, Slots
  <2>3. CASE phase = "warmup"
    <3>1. warmup' > 0 /\ phase' = "before" /\ warmup' \in Nat
        BY <2>1, <2>3 DEF PlayInv, TypeOK
    <3> QED BY <2>2, <3>1 DEF PlayInv
  <2>4. CASE phase = "replay"
    <3>1. concurrency = 1 => pos[1] > Len(trace) /\ pos[1] \in Nat
        BY <1>5, <2>4 DEF ReplayEnd, Replayed, Workers, TypeOK
    <3>2. concurrency = 1 /\ warmup = 0 => pos[1] - 1 = Len(trace)
        BY <2>4, <3>1 DEF PlayInv, Playing, TypeOK
    <3>3. concurrency = 1 /\ warmup = 0 =>
             /\ served = Len(trace)
             /\ \E P, h : Plays(trace, Len(trace), Slots, P, h) /\ h[Len(trace)] = fromCache
        BY <2>4, <3>2 DEF PlayInv, Playing
    <3>4. phase' = "after"
        BY <2>1, <2>4
    <3> QED BY <2>1, <2>2, <3>3, <3>4 DEF PlayInv, Playing, Plays
  <2> QED BY <2>1, <2>3, <2>4
<1>6. CASE Die
  <2>1. phase' = "died" /\ ~Compared'
      BY <1>6 DEF Die, Compared
  <2> QED BY <2>1 DEF PlayInv
<1>7. CASE BeforeEnd
  <2>1. /\ phase = "before" /\ phase' = "replay" /\ pos' = AtStart
        /\ UNCHANGED <<trace, warmup, concurrency, held, served, fromCache>>
      BY <1>7 DEF BeforeEnd, runVars, clusterVars
  <2>2. CASE ~(concurrency = 1 /\ warmup = 0)
      BY <2>1, <2>2 DEF PlayInv
  <2>3. CASE concurrency = 1 /\ warmup = 0
    <3>1. pos'[1] = 1 /\ fromCache = 0 /\ Held' = {} /\ ~Compared' /\ Slots' = Slots
        BY <2>1, <2>3 DEF AtStart, Workers, WindowInv, PlayInv, Held, Compared, Slots
    <3> DEFINE P == [i \in 0..0 |-> {}]
               h == [i \in 0..0 |-> 0]
    <3>2. P \in [0..0 -> SUBSET Keys] /\ h \in [0..0 -> Nat] /\ P[0] = {} /\ h[0] = 0
        OBVIOUS
    <3> HIDE DEF P, h
    <3>3. Plays(trace, 0, Slots, P, h)
        BY <3>2 DEF Plays
    <3>4. /\ Plays(trace', pos'[1] - 1, Slots', P, h) /\ h[pos'[1] - 1] = fromCache'
          /\ Held' \subseteq P[pos'[1] - 1]
      <4>1. pos'[1] - 1 = 0 /\ trace' = trace /\ Slots' = Slots /\ fromCache' = fromCache
          BY <2>1, <3>1
      <4> QED BY <3>1, <3>2, <3>3, <4>1
    <3>5. pos'[1] <= Len(trace') + 1 /\ served' = pos'[1] - 1
      <4>1. served = 0
          BY <2>1 DEF WindowInv
      <4> QED BY <2>1, <3>1, <4>1 DEF TypeOK
    <3> QED BY <2>1, <3>1, <3>4, <3>5 DEF PlayInv, Playing, Plays
  <2> QED BY <2>2, <2>3
<1>8. CASE AfterEnd
  <2>1. /\ phase = "after" /\ phase' \in {"died", "done", "report"}
        /\ UNCHANGED <<trace, warmup, concurrency, served, fromCache>>
      BY <1>8 DEF AfterEnd, runVars
  <2>2. phase' \in {"died", "done"} => ~Compared'
    <3>1. phase' \in {"died", "done"} => scored' = scored
        BY <1>8 DEF AfterEnd, MinCall, minVars
    <3>2. scored = <<>>
        BY <2>1 DEF MinInv
    <3> QED BY <3>1, <3>2 DEF Compared
  <2>3. phase' = "report" => scored' = Warmed \o trace /\ from' = Len(Warmed) /\ capacity' = Slots
      BY <1>8 DEF AfterEnd, MinCall, Slots
  <2>4. warmup = 0 => Warmed \o trace = trace /\ Len(Warmed) = 0
    <3>1. warmup = 0 => Warmed = <<>>
        BY ReplayedIs
    <3> QED BY <3>1, ConcatEmptySeq DEF TypeOK
  <2>5. Slots' = Slots
      BY DEF Slots
  <2>6. concurrency = 1 /\ warmup = 0 =>
           /\ served = Len(trace)
           /\ \E P, h : Plays(trace, Len(trace), Slots, P, h) /\ h[Len(trace)] = fromCache
      BY <2>1 DEF PlayInv
  <2>7. CASE phase' = "died"
      BY <2>2, <2>7 DEF PlayInv
  <2>8. CASE phase' # "died"
    <3>1. Compared' => phase' = "report"
        BY <2>1, <2>2, <2>8
    <3>2. concurrency = 1 /\ warmup = 0 /\ phase' = "report" =>
             scored' = trace /\ from' = 0 /\ capacity' = Slots
        BY <2>3, <2>4
    <3>3. phase' \in {"done", "report"} /\ trace' = trace /\ served' = served
            /\ concurrency' = concurrency /\ warmup' = warmup /\ fromCache' = fromCache
        BY <2>1, <2>8
    <3>4. ASSUME concurrency = 1, warmup = 0
          PROVE  /\ served' = Len(trace')
                 /\ \E P, h : Plays(trace', Len(trace'), Slots', P, h) /\ h[Len(trace')] = fromCache'
                 /\ phase' = "report" => scored' = trace' /\ from' = 0 /\ capacity' = Slots'
        BY <2>5, <2>6, <3>2, <3>3, <3>4
    <3> QED BY <3>1, <3>3, <3>4 DEF PlayInv, Plays
  <2> QED BY <2>7, <2>8
<1>9. CASE ReportMin \/ ReportEnd
  <2>1. /\ phase = "report" /\ phase' \in {"report", "done"}
        /\ UNCHANGED <<trace, warmup, concurrency, served, fromCache, scored, from, capacity>>
      BY <1>9 DEF ReportMin, ReportEnd, MinStep, runVars, minVars
  <2>2. Slots' = Slots
      BY DEF Slots
  <2> QED BY <2>1, <2>2 DEF PlayInv, Plays, Compared
<1>10. CASE UNCHANGED vars
  <2>1. Held' = Held
      BY <1>10 DEF vars, clusterVars, Held
  <2>2. UNCHANGED <<runVars, scored, from, capacity, pos, served, fromCache>> /\ phase' = phase
      BY <1>10 DEF vars, minVars
  <2> QED BY <2>1, <2>2, PlayStays
<1> QED BY <1>1, <1>2, <1>3, <1>4, <1>5, <1>6, <1>7, <1>8, <1>9, <1>10 DEF Next, Exited

-----------------------------------------------------------------------------
(* The theorems.                                                            *)

LEMMA InitInv == Init => Inv
BY InitTypes, InitWindow, InitPlay DEF Inv

LEMMA NextInv == Inv /\ [Next]_vars => Inv'
<1> SUFFICES ASSUME Inv, [Next]_vars PROVE Inv'
    OBVIOUS
<1>1. TypeOK /\ HeldInv /\ WindowInv /\ ReportedInv /\ MinInv /\ PlayInv /\ AheadInv
    BY DEF Inv
<1>2. TypeOK' /\ HeldInv'
    BY <1>1, TypesNext
<1>3. WindowInv' /\ ReportedInv'
    BY <1>1, WindowNext
<1>4. MinInv' /\ AheadInv'
    BY <1>1, MinInvNext
<1>5. PlayInv'
    BY <1>1, <1>2, PlayNext
<1> QED BY <1>2, <1>3, <1>4, <1>5 DEF Inv

\* What one run of the load generator (cmd/loadgen/main.go) keeps from the first
\* request of the warmup to the last turn of MIN's loop: the counters of every node,
\* what Stats has summed of them and what the workers have seen add up, and MIN is
\* ahead of whatever the caches did with the same requests.
THEOREM LoadgenInvariant == Spec => []Inv
<1>1. Init => Inv
    BY InitInv
<1>2. Inv /\ [Next]_vars => Inv'
    BY NextInv
<1> QED BY <1>1, <1>2, PTL DEF Spec

\* evictFurthest finds a victim whenever MIN is full, however many stale entries
\* its heap holds, and MIN never holds more than its capacity (belady/min.go).
THEOREM HeapCovers == Spec => []HeapCoversResident
<1>1. Inv => HeapCoversResident
    BY DEF Inv, MinInv
<1> QED BY <1>1, LoadgenInvariant, PTL

\* The hit ratio the report prints is the one the client saw ("If this disagrees
\* with the server's own count, routing or stats aggregation is broken", report.go):
\* for any number of workers and nodes and in any order of their calls, as long as
\* no node restarts between the two reads.
THEOREM WindowIsExact == Spec => []WindowExact
<1>1. Inv => WindowExact
  <2> SUFFICES ASSUME ReportedInv PROVE WindowExact
      BY DEF Inv
  <2> QED BY DEF ReportedInv, Within, WindowExact
<1> QED BY <1>1, LoadgenInvariant, PTL

\* Whatever restarts, a window that delta (stats.go) lets through counts no hit and
\* no miss that did not happen in it.
THEOREM NothingOverstated == Spec => []NeverOverstated
<1>1. Inv => NeverOverstated
  <2> SUFFICES ASSUME ReportedInv PROVE NeverOverstated
      BY DEF Inv
  <2> QED BY DEF ReportedInv, Within, NeverOverstated
<1> QED BY <1>1, LoadgenInvariant, PTL

\* MIN over all the nodes' room together is a ceiling for the hit ratio that is
\* reported ("a real policy scoring above MIN means the conversion is off, not that
\* the policy beat optimal", report.go): no policy that admits every miss, on any
\* split of the keys over the nodes, scores above belady/min.go when the window's
\* counters are whole (no restart after the first Stats call).
THEOREM MinIsTheCeiling == Spec => []MinIsCeiling
<1>1. Inv => MinIsCeiling
  <2> SUFFICES ASSUME Inv, Compared, concurrency = 1, warmup = 0, ~torn, NEW d \in sd
               PROVE  AtMost(d.objectHit, Optimum)
      BY DEF MinIsCeiling
  <2>1. scored = trace /\ from = 0 /\ capacity = Slots /\ phase = "done"
      BY DEF Inv, PlayInv, Compared
  <2>2. at = Len(scored) + 1 /\ Len(scored) \in Nat /\ minHits \in Nat
    <3>1. scored \in Seq(Keys)
        BY DEF Inv, MinInv
    <3> QED BY <2>1, <3>1 DEF Inv, MinInv, Compared
  <2>3. PICK P, h : Plays(scored, Len(scored), capacity, P, h) /\ h[Len(scored)] = fromCache
      BY <2>1 DEF Inv, PlayInv
  <2>4. P \in [0..Len(scored) -> SUBSET Keys] /\ h \in [0..Len(scored) -> Nat]
      BY <2>3 DEF Plays
  <2>5. 0 \in 0..Len(scored) /\ at - 1 = Len(scored)
      BY <2>2
  <2>6. h[at - 1] + Cardinality(Soon(scored, P[at - 1], at, 0))
           <= minHits + Cardinality(Soon(scored, DOMAIN resident, at, 0))
      BY <2>1, <2>3, <2>4, <2>5 DEF Inv, AheadInv
  <2>7. /\ Cardinality(Soon(scored, P[at - 1], at, 0)) = 0
        /\ Cardinality(Soon(scored, DOMAIN resident, at, 0)) = 0
    <3>1. PICK i, t : i = at /\ t = scored
        OBVIOUS
    <3>2. i \in Nat /\ 0 < i
        BY <2>2, <3>1
    <3> QED BY <3>1, <3>2, SoonNone
  <2>8. fromCache <= minHits
      BY <2>2, <2>3, <2>5, <2>6, <2>7 DEF Inv, TypeOK
  <2>9. /\ d.hits \in Nat /\ d.misses \in Nat /\ d.hits = fromCache
        /\ d.misses = served - fromCache /\ d.objectHit = Ratio(d.hits, d.hits + d.misses)
      BY DEF Inv, ReportedInv, Within
  <2>10. d.hits + d.misses = Len(scored) /\ Len(scored) > 0
    <3>1. served = Len(scored)
        BY <2>1 DEF Inv, PlayInv
    <3> QED BY <2>2, <2>9, <3>1 DEF Compared, Inv, TypeOK
  <2>11. /\ d.objectHit = [num |-> d.hits, den |-> Len(scored)]
         /\ Optimum = [num |-> minHits, den |-> Len(scored)]
    <3>1. Len(scored) # 0 /\ Len(scored) - from = Len(scored)
        BY <2>1, <2>2, <2>10
    <3> QED BY <2>9, <2>10, <3>1 DEF Ratio, Optimum
  <2>12. ASSUME NEW x \in Nat, NEW y \in Nat, NEW z \in Nat, x <= y
         PROVE  x * z <= y * z
    <3>1. PICK u \in Nat : y = x + u
      <4>1. y - x \in Nat /\ y = x + (y - x)
          BY <2>12
      <4> QED BY <4>1
    <3>2. u * z \in Nat /\ (x + u) * z = x * z + u * z /\ x * z \in Nat
        OBVIOUS
    <3> QED BY <3>1, <3>2
  <2> QED BY <2>2, <2>8, <2>9, <2>11, <2>12 DEF AtMost
<1> QED BY <1>1, LoadgenInvariant, PTL

=============================================================================
