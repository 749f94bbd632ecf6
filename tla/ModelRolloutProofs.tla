------------------------- MODULE ModelRolloutProofs -------------------------
(***************************************************************************)
(* Proofs about Registry and ModelRollout, for any number of trainers,     *)
(* nodes and versions, any uploads, and any sequence of failures.          *)
(***************************************************************************)
EXTENDS ModelRollout, TLAPS, FiniteSetTheorems, NaturalsInduction, WellFoundedInduction

-----------------------------------------------------------------------------
(* Induction, in the form that the proofs below use.                       *)

\* A set of naturals that holds 0 and is closed under successor is all of them.
LEMMA NatSetInduction ==
    ASSUME NEW S, 0 \in S, \A n \in Nat : n \in S => n + 1 \in S
    PROVE  Nat \subseteq S
<1> DEFINE T == Nat \ S
<1> SUFFICES ASSUME T # {} PROVE FALSE
    OBVIOUS
<1>1. \E x \in T : \A y \in T : ~(y < x)
  <2>1. PICK x \in T : \A y \in T : <<y, x>> \notin OpToRel(<, Nat)
    <3>1. T \subseteq Nat
        OBVIOUS
    <3> HIDE DEF T
    <3> QED BY <3>1, NatLessThanWellFounded, WFMin
  <2>2. \A y \in T : y < x => <<y, x>> \in OpToRel(<, Nat)
      BY DEF OpToRel
  <2> QED BY <2>1, <2>2
<1>2. PICK x \in T : \A y \in T : ~(y < x)
    BY <1>1
<1>3. x # 0 /\ x \in Nat /\ x \notin S
    BY <1>2
<1>4. x - 1 \in Nat /\ x - 1 < x /\ (x - 1) + 1 = x
    BY <1>3
<1>5. x - 1 \in S
    BY <1>2, <1>4
<1> QED BY <1>3, <1>4, <1>5

\* A finite, non-empty set of integers has a largest element.
LEMMA MaxExists ==
    ASSUME NEW S \in SUBSET Int, IsFiniteSet(S), S # {}
    PROVE  Max(S) \in S /\ \A s \in S : Max(S) >= s
<1> DEFINE HasMax(U) == \E m \in U : \A s \in U : m >= s
           T == {U \in SUBSET S : U # {} /\ ~HasMax(U)}
<1>1. HasMax(S)
  <2> SUFFICES ASSUME S \in T PROVE FALSE
      OBVIOUS
  <2>1. IsWellFoundedOn(StrictSubsetOrdering(S), FiniteSubsetsOf(S))
      BY FS_StrictSubsetOrderingWellFounded
  <2>2. T \subseteq FiniteSubsetsOf(S)
      BY FS_Subset DEF FiniteSubsetsOf
  <2>3. PICK U \in T : \A V \in T : <<V, U>> \notin StrictSubsetOrdering(S)
    <3> HIDE DEF T
    <3> QED BY <2>1, <2>2, WFMin
  <2>4. PICK u \in U : TRUE
      BY <2>3
  <2>5. <<U \ {u}, U>> \in StrictSubsetOrdering(S)
      BY <2>3, <2>4 DEF StrictSubsetOrdering
  <2>6. U \ {u} \notin T
      BY <2>3, <2>5
  <2>7. CASE U \ {u} = {}
    <3>1. \A s \in U : u >= s
        BY <2>3, <2>4, <2>7
    <3> QED BY <3>1, <2>3, <2>4
  <2>8. CASE U \ {u} # {}
    <3>1. PICK m \in U \ {u} : \A s \in U \ {u} : m >= s
        BY <2>3, <2>6, <2>8
    <3>2. CASE m >= u
      <4>1. \A s \in U : m >= s
          BY <3>1, <3>2
      <4> QED BY <4>1, <3>1, <2>3
    <3>3. CASE ~(m >= u)
      <4>1. \A s \in U : u >= s
          BY <2>3, <2>4, <3>1, <3>3
      <4> QED BY <4>1, <2>4, <2>3
    <3> QED BY <3>2, <3>3
  <2> QED BY <2>7, <2>8
<1> QED BY <1>1 DEF Max

-----------------------------------------------------------------------------
(* The upload: whatever messages a trainer sends, what the registry accepts *)
(* is a whole model with metadata that describes it.                        *)

\* What receive has after some messages, the body left open.
ReceiveState(x) ==
    /\ x = [st |-> x.st, meta |-> x.meta, body |-> x.body]
    /\ x.st \in {"none", "some", "malformed", "error"}
    /\ x.st = "some" => x.meta \in MetaRecords /\ x.meta.size <= MaxModelBytes

\* One turn of receive's loop keeps it.
LEMMA ReceiveOneTyped ==
    ASSUME NEW x, NEW msg, ReceiveState(x),
           msg.kind \in {"meta", "chunk", "empty", "error"},
           msg.kind = "meta" => msg.meta \in MetaRecords
    PROVE  ReceiveState(ReceiveOne(x, msg))
<1> DEFINE y == ReceiveOne(x, msg)
<1>1. CASE x.st \in {"malformed", "error"}
    BY <1>1 DEF ReceiveOne, ReceiveState
<1>2. CASE x.st = "none"
    BY <1>2, StreamAssumption DEF ReceiveOne, ReceiveState, Failed, MetaRecords
<1>3. CASE x.st = "some" /\ msg.kind # "chunk"
    BY <1>3 DEF ReceiveOne, ReceiveState, Failed
<1>4. CASE x.st = "some" /\ msg.kind = "chunk"
    BY <1>4 DEF ReceiveOne, ReceiveState, Failed
<1> QED BY <1>1, <1>2, <1>3, <1>4 DEF ReceiveState

\* The fold over the messages is a chain of such turns.
LEMMA FoldTyped ==
    ASSUME NEW u \in Uploads
    PROVE  ReceiveState(FoldLeft(ReceiveOne, Start, u))
<1> DEFINE Turn(g, s) ==
               IF s = {} THEN Start ELSE ReceiveOne(g[s \ {Max(s)}], u[Max(s)])
           Solves(g, k) == g = [s \in SUBSET (1..k) |-> Turn(g, s)]
           last == Len(u)
<1>1. last \in Nat /\ DOMAIN u = 1..last
    BY UploadsAssumption
<1>2. \A i \in 1..last : /\ u[i].kind \in {"meta", "chunk", "empty", "error"}
                         /\ u[i].kind = "meta" => u[i].meta \in MetaRecords
    BY UploadsAssumption
<1>3. FoldLeft(ReceiveOne, Start, u) = (CHOOSE g : Solves(g, last))[1..last]
  <2>1. FoldLeft(ReceiveOne, Start, u) =
          (CHOOSE g : g = [s \in SUBSET DOMAIN u |-> Turn(g, s)])[DOMAIN u]
      BY DEF FoldLeft, MapThenFoldSet
  <2> HIDE DEF Turn, last
  <2> QED BY <2>1, <1>1
<1>4. \A k \in Nat : \A s \in SUBSET (1..k) : s # {} => Max(s) \in s /\ \A x \in s : Max(s) >= x
  <2> SUFFICES ASSUME NEW k \in Nat, NEW s \in SUBSET (1..k), s # {}
               PROVE  Max(s) \in s /\ \A x \in s : Max(s) >= x
      OBVIOUS
  <2>1. IsFiniteSet(1..k)
      BY FS_Interval
  <2>2. IsFiniteSet(s)
      BY <2>1, FS_Subset
  <2>3. s \in SUBSET Int
      OBVIOUS
  <2> QED BY <2>2, <2>3, MaxExists
<1> HIDE DEF last
<1>5. \A k \in Nat : \E g : Solves(g, k)
  <2> DEFINE K == {k \in Nat : \E g : Solves(g, k)}
  <2>1. 0 \in K
    <3>1. SUBSET (1..0) = {{}}
        OBVIOUS
    <3>2. Solves([s \in {{}} |-> Start], 0)
        BY <3>1
    <3> QED BY <3>2
  <2>2. \A k \in Nat : k \in K => k + 1 \in K
    <3> HIDE DEF Solves
    <3> SUFFICES ASSUME NEW k \in Nat, NEW g, Solves(g, k)
                 PROVE  \E h : Solves(h, k + 1)
        OBVIOUS
    <3> USE DEF Solves
    <3> DEFINE h == [s \in SUBSET (1..(k + 1)) |->
                        IF k + 1 \in s THEN ReceiveOne(g[s \ {k + 1}], u[k + 1]) ELSE g[s]]
    <3>1. \A s \in SUBSET (1..(k + 1)) : k + 1 \notin s => s \in SUBSET (1..k)
        OBVIOUS
    <3>2. \A s \in SUBSET (1..(k + 1)) : k + 1 \in s =>
             s \ {k + 1} \in SUBSET (1..k) /\ Max(s) = k + 1 /\ s # {}
      <4> SUFFICES ASSUME NEW s \in SUBSET (1..(k + 1)), k + 1 \in s
                   PROVE  s \ {k + 1} \in SUBSET (1..k) /\ Max(s) = k + 1
          OBVIOUS
      <4>1. k + 1 \in Nat /\ s # {}
          OBVIOUS
      <4>2. Max(s) \in s /\ Max(s) >= k + 1
          BY <1>4, <4>1
      <4>3. Max(s) = k + 1
        <5>1. Max(s) \in 1..(k + 1)
            BY <4>2
        <5> QED BY <4>2, <5>1
      <4>4. s \ {k + 1} \in SUBSET (1..k)
          OBVIOUS
      <4> QED BY <4>3, <4>4
    <3>3. ASSUME NEW s \in SUBSET (1..(k + 1)) PROVE h[s] = Turn(h, s)
      <4>1. CASE k + 1 \in s
        <5>1. s \ {k + 1} \in SUBSET (1..k) /\ Max(s) = k + 1 /\ s # {}
            BY <3>2, <4>1
        <5>2. s \ {k + 1} \in SUBSET (1..(k + 1)) /\ k + 1 \notin s \ {k + 1}
            BY <5>1
        <5>3. h[s \ {k + 1}] = g[s \ {k + 1}]
            BY <5>2
        <5>4. h[s] = ReceiveOne(g[s \ {k + 1}], u[k + 1])
            BY <4>1
        <5> HIDE DEF h
        <5> QED BY <5>1, <5>3, <5>4
      <4>2. CASE k + 1 \notin s
        <5>1. s \in SUBSET (1..k)
            BY <3>1, <4>2
        <5>2. h[s] = g[s] /\ g[s] = Turn(g, s)
            BY <4>2, <5>1
        <5>3. CASE s = {}
            BY <5>2, <5>3
        <5>4. CASE s # {}
          <6>1. Max(s) \in s
              BY <1>4, <5>4, <5>1
          <6>2. s \ {Max(s)} \in SUBSET (1..(k + 1)) /\ k + 1 \notin s \ {Max(s)}
              BY <4>2
          <6>3. h[s \ {Max(s)}] = g[s \ {Max(s)}]
              BY <6>2
          <6> HIDE DEF h
          <6> QED BY <5>2, <5>4, <6>3
        <5> QED BY <5>3, <5>4
      <4> QED BY <4>1, <4>2
    <3>4. h = [s \in SUBSET (1..(k + 1)) |-> h[s]]
        OBVIOUS
    <3>5. Solves(h, k + 1)
      <4> HIDE DEF h, Turn
      <4>1. \A s \in SUBSET (1..(k + 1)) : h[s] = Turn(h, s)
          BY <3>3
      <4> QED BY <4>1, <3>4
    <3> HIDE DEF h, Solves
    <3> QED BY <3>5
  <2> HIDE DEF K, Solves
  <2>3. Nat \subseteq K
      BY <2>1, <2>2, NatSetInduction
  <2> QED BY <2>3 DEF K
<1> DEFINE g == CHOOSE g : Solves(g, last)
<1>6. Solves(g, last)
  <2> HIDE DEF Solves
  <2> QED BY <1>1, <1>5
<1>7. FoldLeft(ReceiveOne, Start, u) = g[1..last]
    BY <1>3
<1> HIDE DEF g
<1>8. \A s \in SUBSET (1..last) : g[s] = Turn(g, s)
  <2> HIDE DEF Turn
  <2> QED BY <1>6
<1>9. \A k \in 0..last : ReceiveState(g[1..k])
  <2> DEFINE K == {k \in Nat : k <= last => ReceiveState(g[1..k])}
  <2>1. 0 \in K
    <3>1. g[1..0] = Start
      <4>1. 1..0 = {} /\ {} \in SUBSET (1..last)
          OBVIOUS
      <4> QED BY <1>8, <4>1
    <3>2. ReceiveState(Start)
        BY DEF ReceiveState, Start
    <3> QED BY <3>1, <3>2
  <2>2. \A k \in Nat : k \in K => k + 1 \in K
    <3> SUFFICES ASSUME NEW k \in Nat, k + 1 <= last, ReceiveState(g[1..k])
                 PROVE  ReceiveState(g[1..(k + 1)])
        BY <1>1
    <3> DEFINE s == 1..(k + 1)
    <3>1. s \in SUBSET (1..last) /\ s # {} /\ k + 1 \in 1..last
      <4>1. k + 1 \in 1..last /\ k + 1 \in s
          BY <1>1
      <4>2. \A i \in s : i \in 1..last
          BY <1>1
      <4> QED BY <4>1, <4>2
    <3>2. Max(s) \in s /\ Max(s) >= k + 1
      <4>1. k + 1 \in s
          OBVIOUS
      <4> HIDE DEF s
      <4> QED BY <1>1, <1>4, <3>1, <4>1
    <3>3. Max(s) = k + 1
        BY <3>2
    <3>4. s \ {k + 1} = 1..k
        OBVIOUS
    <3>5. g[s] = ReceiveOne(g[1..k], u[k + 1])
      <4> HIDE DEF s
      <4> QED BY <1>8, <3>1, <3>3, <3>4
    <3>6. ReceiveState(ReceiveOne(g[1..k], u[k + 1]))
        BY <1>2, <3>1, ReceiveOneTyped
    <3> QED BY <3>5, <3>6
  <2> HIDE DEF K
  <2>3. Nat \subseteq K
      BY <2>1, <2>2, NatSetInduction
  <2> QED BY <2>3, <1>1 DEF K
<1>10. last \in 0..last
    BY <1>1
<1> QED BY <1>7, <1>9, <1>10

\* Metadata that describes the body it goes with, as validate lets it through.
Whole(meta, body) ==
    /\ body \in Bodies
    /\ meta \in MetaRecords /\ meta.version \in Versions /\ meta.boundary # 0
    /\ meta = Meta(meta.version, body, meta.boundary)

\* Nothing but whole models with their own metadata gets past receive and
\* validate, whatever was sent.
LEMMA AcceptedWhole ==
    \A rx \in Accepted : Whole(rx.meta, rx.body)
<1> SUFFICES ASSUME NEW u \in Uploads, NEW rx, rx = Receive(u),
                    rx.st = "whole", Validate(rx.meta, rx.body)
             PROVE  Whole(rx.meta, rx.body)
    BY DEF Accepted, Received
<1> DEFINE x == FoldLeft(ReceiveOne, Start, u)
<1>1. ReceiveState(x)
    BY FoldTyped
<1>2. rx = ReceiveEnd(x)
    BY DEF Receive
<1> HIDE DEF x
<1>3. x.st = "some"
    BY <1>1, <1>2 DEF ReceiveEnd, ReceiveState, Failed
<1>4. /\ Len(x.body) = x.meta.size /\ Sum(x.body) = x.meta.sum
      /\ rx = [x EXCEPT !.st = "whole"]
    BY <1>2, <1>3 DEF ReceiveEnd, Failed
<1>5. rx.meta = x.meta /\ rx.body = x.body /\ x.meta \in MetaRecords
    BY <1>1, <1>3, <1>4 DEF ReceiveState
<1>6. rx.body \in Bodies
  <2>1. x.meta.sum \in {<<>>, Sum(<<>>)} \cup {Sum(b) : b \in Bodies}
      BY <1>5 DEF MetaRecords
  <2>2. rx.body # <<>>
      BY DEF Validate
  <2>3. \A b : Sum(b) # <<>> /\ (Sum(rx.body) = Sum(b) => rx.body = b)
      BY DEF Sum
  <2> QED BY <1>4, <1>5, <2>1, <2>2, <2>3
<1>7. rx.meta = Meta(rx.meta.version, rx.body, rx.meta.boundary)
    BY <1>4, <1>5 DEF Meta, MetaRecords, Validate
<1> QED BY <1>5, <1>6, <1>7 DEF Whole, Validate

-----------------------------------------------------------------------------
(* The inductive invariant of the registry's store.                         *)

\* Metadata of a whole model.
GoodMeta(meta) == \E b \in Bodies : Whole(meta, b)

\* What the metadata file of a version may decode to: the metadata of a whole model, or
\* its first fields, among which the boundary is never, and then it is of no use.
Describes(meta, v) ==
    /\ meta \in MetaRecords /\ meta.version \in {0, v}
    /\ (GoodMeta(meta) /\ meta.version = v) \/ meta.boundary = 0

StoreTypeOK ==
    /\ models = [v \in Versions |-> models[v]]
    /\ metas \in [Versions -> MetaRecords \cup {None, Unreadable}]
    /\ lost \subseteq Versions /\ up \in BOOLEAN
    /\ latest \in MetaRecords /\ changed \in Nat
    /\ lock \in Publishers \cup {None}
    /\ pub = [p \in Publishers |->
                 [pc |-> pub[p].pc, meta |-> pub[p].meta, body |-> pub[p].body]]
    /\ \A p \in Publishers : pub[p].pc \in {"idle", "queued", "model", "meta", "visible"}

\* A handler that is past receive carries a whole model.
Carries == \A p \in Publishers : pub[p].pc # "idle" => Whole(pub[p].meta, pub[p].body)

\* The publishing mutex is held from the stat to the answer, and by nobody else.
Exclusive ==
    /\ \A p \in Publishers : pub[p].pc \in {"model", "meta", "visible"} <=> lock = p
    /\ ~up => \A p \in Publishers : pub[p].pc = "idle"

\* How far a publish has come is what lies on disk under its version.
InPlace ==
    \A p \in Publishers : LET v == pub[p].meta.version IN
        /\ pub[p].pc \in {"model", "meta"} => metas[v] = None
        /\ pub[p].pc = "meta" => models[v] = pub[p].body
        /\ pub[p].pc = "visible" => metas[v] = pub[p].meta

\* What is on disk: whole models with their metadata; where power failed, nothing
\* that can be read, or at least no metadata of anything else.
OnDisk ==
    \A v \in Published :
        /\ v \notin lost => Whole(metas[v], models[v]) /\ metas[v].version = v
        /\ metas[v] # Unreadable => Describes(metas[v], v)

\* The versions latest is to account for: all but one that is about to move it.
Known ==
    Published \ {pub[p].meta.version : p \in {q \in Publishers : pub[q].pc = "visible"}}

LatestIsNewest ==
    /\ latest.version \in Versions \cup {0}
    /\ lost = {} /\ up =>
          IF Known = {} THEN latest = Blank
          ELSE \E v \in Known : latest = metas[v] /\ \A w \in Known : w <= v

StoreInv ==
    StoreTypeOK /\ Carries /\ Exclusive /\ InPlace /\ OnDisk /\ LatestIsNewest

-----------------------------------------------------------------------------
(* The inductive invariant of the nodes.                                    *)

StreamType ==
    [st : {"down", "open", "broken"}, seen : Nat, wait : Int, events : Seq(MetaRecords)]

NodesTypeOK ==
    /\ stream \in [Nodes -> StreamType]
    /\ fetching = [n \in Nodes |-> [st |-> fetching[n].st, version |-> fetching[n].version,
                                    rx |-> fetching[n].rx]]
    /\ installed = [n \in Nodes |->
                       [version |-> installed[n].version, body |-> installed[n].body]]
    /\ \A n \in Nodes :
          /\ fetching[n].st \in {"none", "ask", "body", "cut"}
          /\ fetching[n].st # "none" => fetching[n].version \in Versions
          /\ installed[n].version \in Versions \cup {0}

\* The newest version a node has taken from its stream.
Taken(n) ==
    IF fetching[n].st = "none" THEN installed[n].version ELSE fetching[n].version

\* A stream names versions in rising order, all of them newer
\* than what the node has taken, and none newer than what the server has sent.
StreamAhead(n) ==
    LET s == stream[n] IN
        /\ \A i \in 1..Len(s.events) : s.events[i].version \in Versions /\ s.events[i].version > Taken(n)
        /\ \A i, j \in 1..Len(s.events) : i < j => s.events[i].version < s.events[j].version
        /\ s.st = "open" =>
              /\ s.seen >= Taken(n)
              /\ \A i \in 1..Len(s.events) : s.events[i].version <= s.seen
        /\ s.st = "down" => s.events = <<>> /\ fetching[n].st = "none"

\* What a download has received is the metadata on disk, or was until power failed.
Served(rx, v) ==
    /\ ReceiveState(rx)
    /\ rx.st = "some" =>
          /\ Describes(rx.meta, v)
          /\ v \notin lost => metas[v] = rx.meta

Downloading(n) ==
    /\ fetching[n].st = "ask" => fetching[n].rx = Start
    /\ fetching[n].st = "body" => Served(fetching[n].rx, fetching[n].version)

\* What is installed is a whole model that a trainer published for this boundary.
Running(n) ==
    LET i == installed[n] IN
        i.version # 0 =>
            /\ i.body \in Bodies /\ i.version \in Versions \ Unloadable
            /\ i.version \notin lost =>
                  i.version \in Published /\ metas[i.version] = Meta(i.version, i.body, Boundary)

FetchesNewer(n) == fetching[n].st # "none" => fetching[n].version > installed[n].version

NodeInv(n) == StreamAhead(n) /\ Downloading(n) /\ Running(n) /\ FetchesNewer(n)

NodesInv == NodesTypeOK /\ \A n \in Nodes : NodeInv(n)

Inv == StoreInv /\ NodesInv

-----------------------------------------------------------------------------
\* What it means for metadata to describe a whole model.
LEMMA WholeFacts ==
    ASSUME NEW m, NEW b, Whole(m, b)
    PROVE  /\ m \in MetaRecords /\ m # Blank /\ m # None /\ m.complete
           /\ m.version \in Versions /\ m.version \in Nat /\ m.version > 0
           /\ m.sum = Sum(b) /\ b \in Bodies /\ GoodMeta(m)
           /\ m # Unreadable /\ Describes(m, m.version)
<1>1. m.version \in Nat \ {0}
    BY StreamAssumption DEF Whole
<1>2. m # Blank
    BY <1>1 DEF Blank
<1>3. m.complete /\ m.sum = Sum(b)
    BY DEF Whole, Meta
<1> QED BY <1>1, <1>2, <1>3, UploadsAssumption DEF Whole, GoodMeta, Describes

\* An empty metadata file decodes to a record that names no version.
LEMMA BlankFacts ==
    Blank \in MetaRecords /\ Blank # None /\ Blank.version = 0 /\ ~Blank.complete
<1>1. Blank \in MetaRecords
    BY DEF Blank, MetaRecords
<1> QED BY <1>1, UploadsAssumption DEF Blank

\* The empty directory.
LEMMA StoreInitInv == StoreInit => StoreInv
<1> SUFFICES ASSUME StoreInit PROVE StoreInv
    OBVIOUS
<1> USE DEF StoreInit
<1>1. Published = {}
    BY DEF Published
<1>2. StoreTypeOK
    BY BlankFacts DEF StoreTypeOK, Idle
<1>3. Carries /\ Exclusive /\ InPlace
    BY RegistryAssumption DEF Carries, Exclusive, InPlace, Idle
<1>4. OnDisk /\ LatestIsNewest
    BY <1>1, BlankFacts DEF OnDisk, LatestIsNewest, Known
<1> QED BY <1>2, <1>3, <1>4 DEF StoreInv

\* The published versions, and with them what is on disk, are as before.
LEMMA DiskUnchanged ==
    ASSUME OnDisk, UNCHANGED disk
    PROVE  OnDisk' /\ Published' = Published
    BY DEF OnDisk, disk, Published

\* A good upload arrived.
LEMMA ReceivedInv ==
    ASSUME StoreInv, NEW p \in Publishers, NEW rx \in Accepted, PublishReceived(p, rx)
    PROVE  StoreInv'
<1> USE DEF PublishReceived, mem
<1>1. StoreTypeOK'
    BY DEF StoreInv, StoreTypeOK, disk
<1>2. Carries'
    BY AcceptedWhole DEF StoreInv, StoreTypeOK, Carries
<1>3. Exclusive'
    BY DEF StoreInv, StoreTypeOK, Exclusive
<1>4. InPlace'
    BY DEF StoreInv, StoreTypeOK, InPlace, disk
<1>5. OnDisk' /\ Published' = Published
    BY DiskUnchanged DEF StoreInv
<1>6. {q \in Publishers : pub[q].pc = "visible"}' = {q \in Publishers : pub[q].pc = "visible"}
    BY DEF StoreInv, StoreTypeOK
<1>7. Known' = Known
    BY <1>5, <1>6 DEF Known, StoreInv, StoreTypeOK
<1>8. LatestIsNewest'
    BY <1>7 DEF StoreInv, LatestIsNewest, disk
<1> QED BY <1>1, <1>2, <1>3, <1>4, <1>5, <1>8 DEF StoreInv

\* The stat of the metadata file, under the mutex.
LEMMA StatInv ==
    ASSUME StoreInv, NEW p \in Publishers, PublishStat(p)
    PROVE  StoreInv'
<1> USE DEF PublishStat, mem
<1>1. StoreTypeOK'
    BY DEF StoreInv, StoreTypeOK, disk, Idle
<1>2. Carries'
    BY DEF StoreInv, StoreTypeOK, Carries, Idle
<1>3. Exclusive'
    BY RegistryAssumption DEF StoreInv, StoreTypeOK, Exclusive, Idle
<1>4. InPlace'
    BY DEF StoreInv, StoreTypeOK, InPlace, disk, Idle
<1>5. OnDisk' /\ Published' = Published
    BY DiskUnchanged DEF StoreInv
<1>6. {q \in Publishers : pub[q].pc = "visible"}' = {q \in Publishers : pub[q].pc = "visible"}
    BY DEF StoreInv, StoreTypeOK, Idle
<1>7. Known' = Known
  <2>1. \A q \in {q \in Publishers : pub[q].pc = "visible"} : pub'[q] = pub[q]
      BY DEF StoreInv, StoreTypeOK
  <2> QED BY <1>5, <1>6, <2>1 DEF Known
<1>8. LatestIsNewest'
    BY <1>7 DEF StoreInv, LatestIsNewest, disk
<1> QED BY <1>1, <1>2, <1>3, <1>4, <1>5, <1>8 DEF StoreInv

\* The model file is in place, over whatever an orphaned publish left there.
LEMMA ModelFileInv ==
    ASSUME StoreInv, NEW p \in Publishers, PublishModelFile(p)
    PROVE  StoreInv'
<1> USE DEF PublishModelFile, mem
<1>1. StoreTypeOK'
  <2>1. models' = [v \in Versions |-> models'[v]]
      BY DEF StoreInv, StoreTypeOK
  <2> QED BY <2>1 DEF StoreInv, StoreTypeOK
<1>2. Carries'
    BY DEF StoreInv, StoreTypeOK, Carries
<1>3. Exclusive'
    BY DEF StoreInv, StoreTypeOK, Exclusive
<1>4. \A q \in Publishers : q # p => pub[q].pc \in {"idle", "queued"}
    BY DEF StoreInv, StoreTypeOK, Exclusive
<1>5. pub[p].meta.version \in Versions /\ metas[pub[p].meta.version] = None
    BY WholeFacts DEF StoreInv, StoreTypeOK, Carries, InPlace
<1>6. InPlace'
    BY <1>4, <1>5, SMTT(30) DEF StoreInv, StoreTypeOK, InPlace
<1>7. Published' = Published
    BY DEF Published
<1>8. \A v \in Published : models'[v] = models[v]
    BY <1>5 DEF Published, StoreInv, StoreTypeOK
<1>9. OnDisk'
    BY <1>7, <1>8 DEF StoreInv, OnDisk
<1>10. {q \in Publishers : pub[q].pc = "visible"}' = {q \in Publishers : pub[q].pc = "visible"}
    BY DEF StoreInv, StoreTypeOK
<1>11. Known' = Known
    BY <1>7, <1>10 DEF Known, StoreInv, StoreTypeOK
<1>12. LatestIsNewest'
    BY <1>11 DEF StoreInv, LatestIsNewest
<1> QED BY <1>1, <1>2, <1>3, <1>6, <1>9, <1>12 DEF StoreInv

\* The metadata file is in place: the version exists, and latest has yet to move.
LEMMA MetaFileInv ==
    ASSUME StoreInv, NEW p \in Publishers, PublishMetaFile(p)
    PROVE  StoreInv'
<1> USE DEF PublishMetaFile, mem
<1> DEFINE m == pub[p].meta
           v == m.version
<1>1. Whole(m, pub[p].body) /\ metas[v] = None /\ models[v] = pub[p].body
    BY DEF StoreInv, Carries, InPlace
<1>2. /\ m \in MetaRecords /\ m # None /\ v \in Versions /\ v \in Nat /\ v > 0
      /\ GoodMeta(m)
    BY <1>1, WholeFacts
<1>3. StoreTypeOK'
    BY <1>2 DEF StoreInv, StoreTypeOK
<1>4. Carries'
    BY DEF StoreInv, StoreTypeOK, Carries
<1>5. Exclusive'
    BY DEF StoreInv, StoreTypeOK, Exclusive
<1>6. \A q \in Publishers : q # p => pub[q].pc \in {"idle", "queued"}
    BY DEF StoreInv, StoreTypeOK, Exclusive
<1>7. metas'[v] = m /\ \A w \in Versions : w # v => metas'[w] = metas[w]
    BY <1>2 DEF StoreInv, StoreTypeOK
<1>8. Published' = Published \cup {v} /\ v \notin Published
    BY <1>1, <1>2, <1>7 DEF Published
<1>9. InPlace'
  <2> SUFFICES ASSUME NEW q \in Publishers
               PROVE  LET w == pub'[q].meta.version IN
                      /\ pub'[q].pc \in {"model", "meta"} => metas'[w] = None
                      /\ pub'[q].pc = "meta" => models'[w] = pub'[q].body
                      /\ pub'[q].pc = "visible" => metas'[w] = pub'[q].meta
      BY DEF InPlace
  <2>1. CASE q = p
    <3>1. pub'[p].pc = "visible" /\ pub'[p].meta = m
        BY DEF StoreInv, StoreTypeOK
    <3> QED BY <1>7, <2>1, <3>1
  <2>2. CASE q # p
    <3>1. pub'[q].pc \in {"idle", "queued"}
        BY <1>6, <2>2 DEF StoreInv, StoreTypeOK
    <3> QED BY <3>1
  <2> QED BY <2>1, <2>2
<1>10. OnDisk'
  <2> SUFFICES ASSUME NEW w \in Published'
               PROVE  /\ w \notin lost => Whole(metas'[w], models[w]) /\ metas'[w].version = w
                      /\ metas'[w] # Unreadable => Describes(metas'[w], w)
      BY DEF OnDisk
  <2>1. CASE w = v
      BY <2>1, <1>1, <1>2, <1>7, WholeFacts
  <2>2. CASE w # v
      BY <2>2, <1>7, <1>8 DEF StoreInv, OnDisk, Published
  <2> QED BY <2>1, <2>2
<1>11. {q \in Publishers : pub[q].pc = "visible"} = {}
    BY <1>6
<1>12. {q \in Publishers : pub[q].pc = "visible"}' = {p} /\ pub'[p].meta = m
    BY <1>6 DEF StoreInv, StoreTypeOK
<1>13. Known' = Known
    BY <1>8, <1>11, <1>12 DEF Known
<1>14. \A w \in Known : metas'[w] = metas[w]
    BY <1>7, <1>8 DEF Known, Published
<1>15. LatestIsNewest'
    BY <1>13, <1>14 DEF StoreInv, LatestIsNewest
<1> QED BY <1>3, <1>4, <1>5, <1>9, <1>10, <1>15 DEF StoreInv

\* latest moves, or a newer one is there already.
LEMMA VisibleInv ==
    ASSUME StoreInv, NEW p \in Publishers, PublishVisible(p)
    PROVE  StoreInv'
<1> USE DEF PublishVisible, disk
<1> DEFINE m == pub[p].meta
           v == m.version
<1>1. Whole(m, pub[p].body) /\ metas[v] = m
    BY DEF StoreInv, Carries, InPlace
<1>2. /\ m \in MetaRecords /\ m # None /\ v \in Versions /\ v \in Nat /\ v > 0
      /\ GoodMeta(m)
    BY <1>1, WholeFacts
<1>3. StoreTypeOK'
    BY <1>2 DEF StoreInv, StoreTypeOK, Idle
<1>4. Carries'
    BY DEF StoreInv, StoreTypeOK, Carries, Idle
<1>5. \A q \in Publishers : q # p => pub[q].pc \in {"idle", "queued"}
    BY DEF StoreInv, StoreTypeOK, Exclusive
<1>6. \A q \in Publishers : pub'[q].pc \in {"idle", "queued"}
    BY <1>5 DEF StoreInv, StoreTypeOK, Idle
<1>7. Exclusive'
    BY <1>6, RegistryAssumption DEF Exclusive, StoreInv
<1>8. InPlace'
    BY <1>6 DEF InPlace
<1>9. OnDisk' /\ Published' = Published
    BY DiskUnchanged DEF StoreInv
<1>10. Known = Published \ {v}
    BY <1>5 DEF Known
<1>11. Known' = Published
    BY <1>6, <1>9 DEF Known
<1>12. v \in Published
    BY <1>1, <1>2 DEF Published
<1>13. latest'.version \in Versions \cup {0}
    BY <1>2 DEF StoreInv, LatestIsNewest
<1>14. ASSUME lost = {}, up
       PROVE  \E w \in Published : latest' = metas[w] /\ \A x \in Published : x <= w
  <2>1. \A w \in Published : metas[w].version = w /\ w \in Nat
      BY <1>14, StreamAssumption DEF StoreInv, OnDisk, Published
  <2>2. CASE Known = {}
    <3>1. latest = Blank
        BY <1>14, <2>2 DEF StoreInv, LatestIsNewest
    <3>2. latest' = m /\ Published = {v}
        BY <3>1, <1>2, <1>10, <1>12, <2>2, BlankFacts
    <3> QED BY <3>2, <1>1, <1>2
  <2>3. CASE Known # {}
    <3>1. PICK w \in Known : latest = metas[w] /\ \A x \in Known : x <= w
        BY <1>14, <2>3 DEF StoreInv, LatestIsNewest
    <3>2. w \in Published /\ w # v /\ latest.version = w /\ w \in Nat
        BY <3>1, <1>10, <2>1
    <3>3. CASE v > w
      <4>1. latest' = metas[v]
          BY <3>2, <3>3, <1>1
      <4>2. \A x \in Published : x <= v
          BY <3>1, <3>2, <3>3, <1>2, <1>10, <2>1
      <4> QED BY <4>1, <4>2, <1>12
    <3>4. CASE ~(v > w)
      <4>1. latest' = metas[w]
          BY <3>1, <3>2, <3>4
      <4>2. \A x \in Published : x <= w
          BY <3>1, <3>2, <3>4, <1>2, <1>10, <2>1
      <4> QED BY <4>1, <4>2, <3>2
    <3> QED BY <3>3, <3>4
  <2> QED BY <2>2, <2>3
<1>15. LatestIsNewest'
    BY <1>11, <1>12, <1>13, <1>14 DEF LatestIsNewest
<1> QED BY <1>3, <1>4, <1>7, <1>8, <1>9, <1>15 DEF StoreInv

\* A handler gives up: what it has written stays, and its version is not there.
LEMMA IOErrorInv ==
    ASSUME StoreInv, NEW p \in Publishers, PublishIOError(p)
    PROVE  StoreInv'
<1> USE DEF PublishIOError, mem
<1>1. StoreTypeOK'
    BY DEF StoreInv, StoreTypeOK, disk, Idle
<1>2. Carries'
    BY DEF StoreInv, StoreTypeOK, Carries, Idle
<1>3. \A q \in Publishers : q # p => pub[q].pc \in {"idle", "queued"}
    BY RegistryAssumption DEF StoreInv, StoreTypeOK, Exclusive
<1>4. \A q \in Publishers : pub'[q].pc \in {"idle", "queued"}
    BY <1>3 DEF StoreInv, StoreTypeOK, Idle
<1>5. Exclusive'
    BY <1>4, RegistryAssumption DEF Exclusive, StoreInv
<1>6. InPlace'
    BY <1>4 DEF InPlace
<1>7. OnDisk' /\ Published' = Published
    BY DiskUnchanged DEF StoreInv
<1>8. {q \in Publishers : pub[q].pc = "visible"} = {}
    BY <1>3
<1>9. {q \in Publishers : pub[q].pc = "visible"}' = {}
    BY <1>4
<1>10. Known' = Known
    BY <1>7, <1>8, <1>9 DEF Known
<1>11. LatestIsNewest'
    BY <1>10 DEF StoreInv, LatestIsNewest, disk
<1> QED BY <1>1, <1>2, <1>5, <1>6, <1>7, <1>11 DEF StoreInv

\* The parts of the invariant that are about memory, after a death.
LEMMA DeathInv ==
    ASSUME StoreInv, Dies
    PROVE  /\ Carries' /\ Exclusive' /\ InPlace' /\ LatestIsNewest'
           /\ latest' \in MetaRecords /\ changed' \in Nat /\ lock' \in Publishers \cup {None}
           /\ pub' = [p \in Publishers |-> Idle] /\ up' \in BOOLEAN
<1> USE DEF Dies
<1>1. Carries' /\ Exclusive' /\ InPlace'
    BY RegistryAssumption DEF Carries, Exclusive, InPlace, Idle
<1>2. LatestIsNewest'
    BY BlankFacts DEF LatestIsNewest
<1> QED BY <1>1, <1>2, BlankFacts DEF StoreInv, StoreTypeOK

\* The process dies.
LEMMA CrashInv ==
    ASSUME StoreInv, Crash
    PROVE  StoreInv'
<1>1. Dies /\ UNCHANGED disk
    BY DEF Crash
<1>2. OnDisk'
    BY <1>1, DiskUnchanged DEF StoreInv
<1>3. StoreTypeOK'
    BY <1>1, DeathInv DEF StoreInv, StoreTypeOK, disk, Idle
<1> QED BY <1>1, <1>2, <1>3, DeathInv DEF StoreInv

\* The first fields of a whole model's metadata name its version or none.
LEMMA FirstFieldsDescribe ==
    ASSUME NEW m, NEW b, Whole(m, b), NEW i \in 0..4
    PROVE  Describes(FirstFields(m, i), m.version)
<1>1. m \in MetaRecords
    BY DEF Whole
<1> QED BY <1>1 DEF FirstFields, Describes, MetaRecords

\* The machine loses power, and with it a file of one published version.
LEMMA PowerFailureInv ==
    ASSUME StoreInv, NEW v \in Versions, PowerFailure(v)
    PROVE  StoreInv'
<1>1. Dies /\ v \in Published \ lost /\ lost' = lost \cup {v}
    BY DEF PowerFailure
<1>2. Whole(metas[v], models[v]) /\ metas[v].version = v
    BY <1>1 DEF StoreInv, OnDisk
<1>3. ASSUME NEW left \in CutShort(metas[v]), left # Unreadable
      PROVE  Describes(left, v)
    BY <1>2, <1>3, FirstFieldsDescribe DEF CutShort
<1>4. /\ models' = [w \in Versions |-> models'[w]]
      /\ metas' \in [Versions -> MetaRecords \cup {None, Unreadable}]
      /\ metas'[v] # metas[v] => metas'[v] \in {None, Unreadable} \/ Describes(metas'[v], v)
      /\ \A w \in Versions : w # v => models'[w] = models[w] /\ metas'[w] = metas[w]
  <2>1. CASE UNCHANGED metas
      BY <2>1 DEF PowerFailure, StoreInv, StoreTypeOK
  <2>2. CASE \E left \in {None} \cup CutShort(metas[v]) :
                metas' = [metas EXCEPT ![v] = left] /\ UNCHANGED models
    <3>1. PICK left \in {None} \cup CutShort(metas[v]) :
             metas' = [metas EXCEPT ![v] = left] /\ UNCHANGED models
        BY <2>2
    <3>2. left \in {None, Unreadable} \/ Describes(left, v)
        BY <1>3, <3>1
    <3>3. left \in MetaRecords \cup {None, Unreadable}
        BY <3>2 DEF Describes
    <3> QED BY <3>1, <3>2, <3>3 DEF StoreInv, StoreTypeOK
  <2> QED BY <2>1, <2>2 DEF PowerFailure
<1>5. StoreTypeOK'
    BY <1>1, <1>4, DeathInv DEF StoreInv, StoreTypeOK, Idle
<1>6. OnDisk'
    BY <1>1, <1>4 DEF StoreInv, OnDisk, Published
<1> QED BY <1>1, <1>5, <1>6, DeathInv DEF StoreInv

\* newStore adopts the newest version on disk.
LEMMA RestartInv ==
    ASSUME StoreInv, Restart
    PROVE  StoreInv'
<1> USE DEF Restart
<1>1. OnDisk' /\ Published' = Published
    BY DiskUnchanged DEF StoreInv
<1>2. \A p \in Publishers : pub[p].pc = "idle"
    BY DEF StoreInv, Exclusive
<1>3. Known' = Published
    BY <1>1, <1>2 DEF Known
<1>4. Published # {} => /\ Max(Published) \in Published
                        /\ \A w \in Published : w <= Max(Published)
  <2>1. Published \in SUBSET Versions
      BY DEF Published
  <2>2. Published \in SUBSET Int
      BY <2>1, StreamAssumption
  <2>3. IsFiniteSet(Published)
      BY <2>1, StreamAssumption, FS_Subset
  <2>4. \A x \in Published : x \in Int
      BY <2>2
  <2> QED BY <2>2, <2>3, <2>4, MaxExists
<1>5. latest' = Blank \/ Describes(latest', Max(Published))
  <2>1. latest' = Newest /\ Newest # Unreadable
      OBVIOUS
  <2>2. CASE Published = {}
      BY <2>1, <2>2 DEF Newest
  <2>3. CASE Published # {}
    <3>1. Max(Published) \in Published /\ latest' = metas[Max(Published)]
        BY <1>4, <2>1, <2>3 DEF Newest
    <3> QED BY <2>1, <3>1 DEF StoreInv, OnDisk
  <2> QED BY <2>2, <2>3
<1>6. latest' \in MetaRecords /\ latest'.version \in Versions \cup {0}
  <2>1. CASE Published = {}
      BY <2>1, BlankFacts DEF Newest
  <2>2. CASE Published # {}
    <3>1. Max(Published) \in Versions
        BY <1>4, <2>2 DEF Published
    <3> HIDE DEF Restart
    <3> QED BY <1>5, <3>1, BlankFacts DEF Describes
  <2> QED BY <2>1, <2>2
<1>7. LatestIsNewest'
    BY <1>3, <1>4, <1>6 DEF LatestIsNewest, Newest, disk
<1>8. StoreTypeOK'
    BY <1>6 DEF StoreInv, StoreTypeOK, disk
<1>9. Carries' /\ Exclusive' /\ InPlace'
    BY <1>2 DEF StoreInv, Carries, Exclusive, InPlace
<1> QED BY <1>1, <1>7, <1>8, <1>9 DEF StoreInv

-----------------------------------------------------------------------------
(* Steps of the store, and what they leave alone.                           *)

\* No published version changes but by a power failure.
Kept ==
    /\ lost \subseteq lost'
    /\ \A v \in Published \ lost' : models'[v] = models[v] /\ metas'[v] = metas[v]

\* The store does not look at the bound on faults.
LEMMA StoreUnchanged ==
    ASSUME StoreInv, UNCHANGED <<disk, mem, lock, pub>>
    PROVE  StoreInv' /\ Kept
<1> USE DEF disk, mem
<1>1. Published' = Published
    BY DEF Published
<1>2. Known' = Known
    BY <1>1 DEF Known
<1>3. StoreTypeOK'
    BY DEF StoreInv, StoreTypeOK
<1>4. Carries' /\ Exclusive' /\ InPlace'
    BY DEF StoreInv, Carries, Exclusive, InPlace
<1>5. OnDisk' /\ LatestIsNewest'
    BY <1>1, <1>2 DEF StoreInv, OnDisk, LatestIsNewest
<1> QED BY <1>3, <1>4, <1>5 DEF StoreInv, Kept

\* Every step of a publish and every restart.
LEMMA RegistryStepInv ==
    ASSUME StoreInv, RegistryStep
    PROVE  StoreInv' /\ Kept
<1>1. CASE \E p \in Publishers : PublishRefused(p)
    BY <1>1, StoreUnchanged DEF PublishRefused, storeVars
<1>2. CASE \E p \in Publishers : \E rx \in Accepted : PublishReceived(p, rx)
    BY <1>2, ReceivedInv DEF PublishReceived, Kept, disk
<1>3. CASE \E p \in Publishers : PublishStat(p)
    BY <1>3, StatInv DEF PublishStat, Kept, disk
<1>4. CASE \E p \in Publishers : PublishModelFile(p)
  <2>1. PICK p \in Publishers : PublishModelFile(p)
      BY <1>4
  <2>2. metas[pub[p].meta.version] = None
      BY <2>1 DEF PublishModelFile, StoreInv, InPlace
  <2>3. Kept
      BY <2>1, <2>2 DEF PublishModelFile, Kept, Published, StoreInv, StoreTypeOK
  <2> QED BY <2>1, <2>3, ModelFileInv
<1>5. CASE \E p \in Publishers : PublishMetaFile(p)
  <2>1. PICK p \in Publishers : PublishMetaFile(p)
      BY <1>5
  <2>2. metas[pub[p].meta.version] = None
      BY <2>1 DEF PublishMetaFile, StoreInv, InPlace
  <2>3. Kept
      BY <2>1, <2>2 DEF PublishMetaFile, Kept, Published, StoreInv, StoreTypeOK
  <2> QED BY <2>1, <2>3, MetaFileInv
<1>6. CASE \E p \in Publishers : PublishVisible(p)
    BY <1>6, VisibleInv DEF PublishVisible, Kept, disk
<1>7. CASE \E p \in Publishers : PublishIOError(p)
    BY <1>7, IOErrorInv DEF PublishIOError, Kept, disk
<1>8. CASE Restart
    BY <1>8, RestartInv DEF Restart, Kept, disk
<1>9. CASE RestartFails
    BY <1>9, StoreUnchanged DEF RestartFails, storeVars
<1> QED BY <1>1, <1>2, <1>3, <1>4, <1>5, <1>6, <1>7, <1>8, <1>9 DEF RegistryStep

\* Every death of the registry.
LEMMA DiesInv ==
    ASSUME StoreInv, Crash \/ \E v \in Versions : PowerFailure(v)
    PROVE  StoreInv' /\ Kept
<1>1. CASE Crash
    BY <1>1, CrashInv DEF Crash, Kept, disk
<1>2. CASE \E v \in Versions : PowerFailure(v)
  <2>1. PICK v \in Versions : PowerFailure(v)
      BY <1>2
  <2>2. Kept
      BY <2>1 DEF PowerFailure, Kept, Published, StoreInv, StoreTypeOK
  <2> QED BY <2>1, <2>2, PowerFailureInv
<1> QED BY <1>1, <1>2

-----------------------------------------------------------------------------
(* Steps of the nodes.                                                      *)

\* What a node has downloaded and installed stays true of what is kept on disk.
LEMMA KeptForNode ==
    ASSUME StoreInv, StoreInv', Kept, NodesTypeOK, NEW n \in Nodes,
           fetching'[n] = fetching[n], installed'[n] = installed[n]
    PROVE  /\ Downloading(n) => Downloading(n)'
           /\ Running(n) => Running(n)'
<1>1. \A v \in Versions : v \notin lost' /\ metas[v] # None => v \notin lost /\ metas'[v] = metas[v]
    BY DEF Kept, Published
<1>2. Downloading(n) => Downloading(n)'
  <2>1. fetching[n].rx.meta \in MetaRecords => fetching[n].rx.meta # None
      BY UploadsAssumption
  <2> QED BY <1>1, <2>1 DEF Downloading, Served, Describes, Kept, Published, NodesTypeOK
<1>3. Running(n) => Running(n)'
    BY <1>1 DEF Running, Kept, Published
<1> QED BY <1>2, <1>3

\* A step of one node leaves the others alone.
LEMMA OneNode ==
    ASSUME NodesInv, NEW n \in Nodes, UNCHANGED disk, NodesTypeOK', NodeInv(n)',
           \A m \in Nodes \ {n} : /\ stream'[m] = stream[m] /\ fetching'[m] = fetching[m]
                                  /\ installed'[m] = installed[m]
    PROVE  NodesInv'
<1> SUFFICES ASSUME NEW m \in Nodes, m # n
             PROVE  NodeInv(m)'
    BY DEF NodesInv
<1>1. NodeInv(m)
    BY DEF NodesInv
<1>2. stream'[m] = stream[m] /\ fetching'[m] = fetching[m] /\ installed'[m] = installed[m]
    OBVIOUS
<1>3. StreamAhead(m)'
    BY <1>1, <1>2 DEF NodeInv, StreamAhead, Taken
<1>4. Downloading(m)' /\ Running(m)' /\ FetchesNewer(m)'
    BY <1>1, <1>2 DEF NodeInv, Downloading, Served, Running, FetchesNewer, disk, Published
<1> QED BY <1>3, <1>4 DEF NodeInv

\* The state of every variable about the nodes at the start.
LEMMA NodesInitInv == Init => NodesInv
<1> SUFFICES ASSUME Init PROVE NodesInv
    OBVIOUS
<1>1. NodesTypeOK
    BY DEF Init, NodesTypeOK, StreamType, Down, NoFetch, NoModel
<1>2. ASSUME NEW n \in Nodes PROVE NodeInv(n)
    BY <1>2 DEF Init, NodeInv, StreamAhead, Downloading, Served, Running, FetchesNewer, Taken,
                Down, NoFetch, NoModel
<1> QED BY <1>1, <1>2 DEF NodesInv

\* A step that moves only a node's stream.
LEMMA StreamTyped ==
    ASSUME NodesTypeOK, NEW n \in Nodes, NEW x \in StreamType,
           stream' = [stream EXCEPT ![n] = x], UNCHANGED <<fetching, installed>>
    PROVE  /\ NodesTypeOK' /\ stream'[n] = x
           /\ \A m \in Nodes \ {n} : /\ stream'[m] = stream[m] /\ fetching'[m] = fetching[m]
                                     /\ installed'[m] = installed[m]
    BY DEF NodesTypeOK

\* A node opens a stream, since the version it runs.
LEMMA ConnectInv ==
    ASSUME StoreInv, NodesInv, NEW n \in Nodes, Connect(n)
    PROVE  NodesInv'
<1> USE DEF Connect, storeVars
<1>1. NodeInv(n) /\ NodesTypeOK
    BY DEF NodesInv
<1>2. installed[n].version \in Nat
    BY <1>1, StreamAssumption DEF NodesTypeOK
<1> DEFINE x == [st |-> "open", seen |-> installed[n].version, wait |-> -1, events |-> <<>>]
<1>3. x \in StreamType /\ stream' = [stream EXCEPT ![n] = x]
    BY <1>2 DEF StreamType
<1>4. stream'[n] = x /\ fetching[n].st = "none"
    BY <1>1, <1>3, StreamTyped DEF NodeInv, StreamAhead
<1>5. StreamAhead(n)'
    BY <1>1, <1>2, <1>4 DEF StreamAhead, Taken
<1>6. Downloading(n)' /\ Running(n)' /\ FetchesNewer(n)'
    BY <1>1 DEF NodeInv, Downloading, Served, Running, FetchesNewer, disk, Published
<1>7. NodeInv(n)'
    BY <1>5, <1>6 DEF NodeInv
<1> HIDE DEF x
<1> QED BY <1>1, <1>3, <1>7, StreamTyped, OneNode

\* The server sends a newer latest, or waits for one.
LEMMA ServerPollInv ==
    ASSUME StoreInv, NodesInv, NEW n \in Nodes, ServerPoll(n)
    PROVE  NodesInv'
<1> USE DEF ServerPoll, storeVars
<1> DEFINE s == stream[n]
<1>1. NodeInv(n) /\ NodesTypeOK
    BY DEF NodesInv
<1>2. /\ s \in StreamType /\ s.seen \in Nat /\ s.events \in Seq(MetaRecords) /\ s.st = "open"
      /\ latest \in MetaRecords /\ latest.version \in Nat /\ changed \in Int
  <2>1. s \in StreamType /\ latest \in MetaRecords /\ changed \in Int
      BY <1>1 DEF NodesTypeOK, StoreInv, StoreTypeOK
  <2>2. latest.version \in Nat
      BY <2>1 DEF MetaRecords
  <2> QED BY <2>1, <2>2 DEF StreamType
<1>3. Downloading(n)' /\ Running(n)' /\ FetchesNewer(n)'
    BY <1>1 DEF NodeInv, Downloading, Served, Running, FetchesNewer, disk, Published
<1>4. CASE latest.version > s.seen
  <2> DEFINE x == [st |-> "open", seen |-> latest.version, wait |-> -1,
                   events |-> Append(s.events, latest)]
  <2>1. stream' = [stream EXCEPT ![n] = x]
      BY <1>4
  <2>2. x \in StreamType
    <3>1. Append(s.events, latest) \in Seq(MetaRecords)
        BY <1>2
    <3> QED BY <1>2, <3>1 DEF StreamType
  <2>3. /\ stream'[n].st = "open" /\ stream'[n].seen = latest.version
        /\ stream'[n].events = Append(s.events, latest)
    <3>1. stream'[n] = x
        BY <1>1, <2>1, <2>2, StreamTyped
    <3> QED BY <1>2, <3>1 DEF StreamType
  <2>4. latest.version \in Versions
      BY <1>2, <1>4 DEF StoreInv, LatestIsNewest
  <2>5. s.seen >= Taken(n) /\ Taken(n) \in Nat
      BY <1>1, <1>2, StreamAssumption DEF NodeInv, StreamAhead, NodesTypeOK, Taken
  <2>6. Taken(n)' = Taken(n)
      BY DEF Taken
  <2>7. \A i \in 1..Len(s.events) : /\ s.events[i].version \in Versions
                                    /\ s.events[i].version > Taken(n)
                                    /\ s.events[i].version <= s.seen
                                    /\ s.events[i].version \in Nat
    <3>1. \A i \in 1..Len(s.events) : s.events[i] \in MetaRecords
        BY <1>2
    <3>2. \A m \in MetaRecords : m.version \in Nat
        BY DEF MetaRecords
    <3> QED BY <1>1, <1>2, <3>1, <3>2 DEF NodeInv, StreamAhead
  <2>8. \A i, j \in 1..Len(s.events) : i < j => s.events[i].version < s.events[j].version
      BY <1>1 DEF NodeInv, StreamAhead
  <2>9. StreamAhead(n)'
    <3> DEFINE e == Append(s.events, latest)
    <3>1. Len(e) = Len(s.events) + 1 /\ e[Len(e)] = latest
        BY <1>2
    <3>2. \A i \in 1..Len(s.events) : e[i] = s.events[i]
        BY <1>2
    <3>3. Len(s.events) \in Nat
        BY <1>2
    <3> HIDE DEF e, s
    <3>4. \A i \in 1..Len(e) : i = Len(e) \/ i \in 1..Len(s.events)
        BY <3>1, <3>3
    <3>5. \A i \in 1..Len(e) : e[i].version \in Versions /\ e[i].version > Taken(n)
        BY <3>1, <3>2, <3>4, <2>4, <2>5, <2>7, <1>2, <1>4
    <3>6. \A i \in 1..Len(e) : e[i].version <= latest.version
        BY <3>1, <3>2, <3>4, <2>7, <1>2, <1>4, SMTT(30)
    <3>7. \A i, j \in 1..Len(e) : i < j => e[i].version < e[j].version
      <4> SUFFICES ASSUME NEW i \in 1..Len(e), NEW j \in 1..Len(e), i < j
                   PROVE  e[i].version < e[j].version
          OBVIOUS
      <4>1. i \in 1..Len(s.events)
          BY <3>1, <3>3
      <4>2. CASE j = Len(e)
        <5>1. s.events[i].version <= s.seen /\ s.events[i].version \in Nat
            BY <4>1, <2>7
        <5>2. e[i] = s.events[i] /\ e[j] = latest
            BY <4>1, <4>2, <3>1, <3>2
        <5> QED BY <5>1, <5>2, <1>2, <1>4
      <4>3. CASE j # Len(e)
          BY <4>1, <4>3, <3>2, <3>4, <2>8
      <4> QED BY <4>2, <4>3
    <3>8. latest.version >= Taken(n)
        BY <1>2, <1>4, <2>5
    <3>9. stream'[n].events = e
        BY <2>3 DEF e, s
    <3> QED BY <2>3, <2>6, <3>5, <3>6, <3>7, <3>8, <3>9 DEF StreamAhead
  <2>10. NodeInv(n)'
      BY <1>3, <2>9 DEF NodeInv
  <2> HIDE DEF x
  <2> QED BY <1>1, <2>1, <2>2, <2>10, StreamTyped, OneNode
<1>5. CASE ~(latest.version > s.seen)
  <2> DEFINE x == [s EXCEPT !.wait = changed]
  <2>1. stream' = [stream EXCEPT ![n] = x]
      BY <1>5
  <2>2. x \in StreamType /\ x.st = s.st /\ x.seen = s.seen /\ x.events = s.events
      BY <1>2 DEF StreamType
  <2> HIDE DEF x
  <2>3. stream'[n] = x
      BY <1>1, <2>1, <2>2, StreamTyped
  <2>4. StreamAhead(n)'
      BY <1>1, <2>2, <2>3 DEF NodeInv, StreamAhead, Taken
  <2>5. NodeInv(n)'
      BY <1>3, <2>4 DEF NodeInv
  <2> QED BY <1>1, <2>1, <2>2, <2>5, StreamTyped, OneNode
<1> QED BY <1>4, <1>5

\* The goroutine's channel was closed.
LEMMA ServerWakeInv ==
    ASSUME StoreInv, NodesInv, NEW n \in Nodes, ServerWake(n)
    PROVE  NodesInv'
<1> USE DEF ServerWake, storeVars
<1>1. NodeInv(n) /\ NodesTypeOK
    BY DEF NodesInv
<1> DEFINE x == [stream[n] EXCEPT !.wait = -1]
<1>2. /\ stream' = [stream EXCEPT ![n] = x] /\ x \in StreamType
      /\ x.st = stream[n].st /\ x.seen = stream[n].seen /\ x.events = stream[n].events
  <2>1. stream[n] \in StreamType
      BY <1>1 DEF NodesTypeOK
  <2> QED BY <2>1 DEF StreamType
<1> HIDE DEF x
<1>3. Downloading(n)' /\ Running(n)' /\ FetchesNewer(n)'
    BY <1>1 DEF NodeInv, Downloading, Served, Running, FetchesNewer, disk, Published
<1>4. stream'[n] = x
    BY <1>1, <1>2, StreamTyped
<1>5. StreamAhead(n)'
    BY <1>1, <1>2, <1>4 DEF NodeInv, StreamAhead, Taken
<1>6. NodeInv(n)'
    BY <1>3, <1>5 DEF NodeInv
<1> QED BY <1>1, <1>2, <1>6, StreamTyped, OneNode

\* A prefix of the events is still ahead of the node.
LEMMA BrokenAhead ==
    ASSUME NEW s, NEW t, NEW k \in 0..Len(s.events), s.events \in Seq(MetaRecords),
           t = Broken(s, k)
    PROVE  /\ t \in StreamType /\ t.st = "broken"
           /\ \A i \in 1..Len(t.events) : t.events[i] = s.events[i] /\ i \in 1..Len(s.events)
    BY DEF Broken, StreamType

\* The stream breaks.
LEMMA StreamBreakInv ==
    ASSUME StoreInv, NodesInv, NEW n \in Nodes, StreamBreak(n)
    PROVE  NodesInv'
<1> USE DEF StreamBreak, storeVars
<1> DEFINE s == stream[n]
<1>1. NodeInv(n) /\ NodesTypeOK
    BY DEF NodesInv
<1>2. PICK k \in 0..Len(s.events) : stream' = [stream EXCEPT ![n] = Broken(s, k)]
    OBVIOUS
<1> DEFINE x == Broken(s, k)
<1>3. s.events \in Seq(MetaRecords)
    BY <1>1 DEF NodesTypeOK, StreamType
<1>4. /\ x \in StreamType /\ x.st = "broken"
      /\ \A i \in 1..Len(x.events) : x.events[i] = s.events[i] /\ i \in 1..Len(s.events)
    BY <1>3, BrokenAhead
<1> HIDE DEF x
<1>5. stream' = [stream EXCEPT ![n] = x]
    BY <1>2 DEF x
<1>6. stream'[n] = x
    BY <1>1, <1>4, <1>5, StreamTyped
<1>9. Downloading(n)' /\ Running(n)' /\ FetchesNewer(n)'
    BY <1>1 DEF NodeInv, Downloading, Served, Running, FetchesNewer, disk, Published
<1>10. StreamAhead(n)'
    BY <1>1, <1>4, <1>6 DEF NodeInv, StreamAhead, Taken
<1>11. NodeInv(n)'
    BY <1>9, <1>10 DEF NodeInv
<1> QED BY <1>1, <1>4, <1>5, <1>11, StreamTyped, OneNode

\* A registry that dies leaves its nodes prefixes of their streams.
LEMMA RegistryCrashInv ==
    ASSUME StoreInv, NodesInv, RegistryCrash
    PROVE  NodesInv'
<1>1. StoreInv' /\ Kept
    BY DiesInv DEF RegistryCrash
<1>2. PICK kept \in [Nodes -> 0..Cardinality(Versions)] :
         /\ \A n \in Nodes : kept[n] <= Len(stream[n].events)
         /\ stream' = [n \in Nodes |->
               IF stream[n].st = "open" THEN Broken(stream[n], kept[n]) ELSE stream[n]]
    BY DEF RegistryCrash
<1>3. /\ fetching' = [n \in Nodes |->
             IF fetching[n].st = "body" THEN [fetching[n] EXCEPT !.st = "cut"] ELSE fetching[n]]
      /\ UNCHANGED installed
    BY DEF RegistryCrash
<1>4. NodesTypeOK
    BY DEF NodesInv
<1>5. ASSUME NEW n \in Nodes
      PROVE  /\ stream'[n] \in StreamType
             /\ \/ stream'[n] = stream[n] /\ stream[n].st # "open"
                \/ /\ stream'[n].st = "broken"
                   /\ \A i \in 1..Len(stream'[n].events) :
                        /\ stream'[n].events[i] = stream[n].events[i]
                        /\ i \in 1..Len(stream[n].events)
  <2>1. stream[n] \in StreamType /\ stream[n].events \in Seq(MetaRecords)
      BY <1>4 DEF NodesTypeOK, StreamType
  <2>2. kept[n] \in 0..Len(stream[n].events)
    <3>1. kept[n] \in Nat /\ kept[n] <= Len(stream[n].events) /\ Len(stream[n].events) \in Nat
      <4>1. Cardinality(Versions) \in Nat
          BY StreamAssumption, FS_CardinalityType
      <4> QED BY <1>2, <2>1, <4>1
    <3> QED BY <3>1
  <2>3. CASE stream[n].st = "open"
    <3>1. stream'[n] = Broken(stream[n], kept[n])
        BY <1>2, <2>3
    <3> QED BY <2>1, <2>2, <3>1, BrokenAhead
  <2>4. CASE stream[n].st # "open"
      BY <1>2, <2>1, <2>4
  <2> QED BY <2>3, <2>4
<1>6. ASSUME NEW n \in Nodes
      PROVE  /\ fetching'[n].version = fetching[n].version /\ fetching'[n].rx = fetching[n].rx
             /\ fetching'[n].st = IF fetching[n].st = "body" THEN "cut" ELSE fetching[n].st
             /\ fetching'[n] = [st |-> fetching'[n].st, version |-> fetching'[n].version,
                                rx |-> fetching'[n].rx]
  <2>1. fetching[n] = [st |-> fetching[n].st, version |-> fetching[n].version,
                       rx |-> fetching[n].rx]
      BY <1>4 DEF NodesTypeOK
  <2> QED BY <1>3, <2>1
<1>7. NodesTypeOK'
  <2>1. stream' \in [Nodes -> StreamType]
      BY <1>2, <1>5
  <2>2. fetching' = [n \in Nodes |-> fetching'[n]]
      BY <1>3
  <2>3. fetching' = [n \in Nodes |-> [st |-> fetching'[n].st, version |-> fetching'[n].version,
                                      rx |-> fetching'[n].rx]]
      BY <1>6, <2>2
  <2> QED BY <1>3, <1>4, <1>6, <2>1, <2>3 DEF NodesTypeOK
<1>8. ASSUME NEW n \in Nodes PROVE NodeInv(n)'
  <2>1. NodeInv(n)
      BY DEF NodesInv
  <2>2. Taken(n)' = Taken(n)
      BY <1>3, <1>6 DEF Taken
  <2>3. StreamAhead(n)'
    <3>1. CASE stream'[n] = stream[n] /\ stream[n].st # "open"
        BY <1>6, <2>1, <2>2, <3>1 DEF NodeInv, StreamAhead
    <3>2. CASE /\ stream'[n].st = "broken"
               /\ \A i \in 1..Len(stream'[n].events) :
                    /\ stream'[n].events[i] = stream[n].events[i]
                    /\ i \in 1..Len(stream[n].events)
        BY <2>1, <2>2, <3>2 DEF NodeInv, StreamAhead
    <3> QED BY <1>5, <3>1, <3>2
  <2>4. Downloading(n)'
      BY <1>6, <1>4, <2>1 DEF Downloading, Served, NodesTypeOK, NodeInv
  <2>5. Running(n)'
    <3>1. \A v \in Published \ lost' : v \notin lost /\ metas'[v] = metas[v] /\ metas[v] # None
        BY <1>1 DEF Kept, Published
    <3> QED BY <1>1, <1>3, <2>1, <3>1 DEF NodeInv, Running, Kept, Published
  <2>6. FetchesNewer(n)'
      BY <1>3, <1>6, <2>1 DEF NodeInv, FetchesNewer
  <2> QED BY <2>3, <2>4, <2>5, <2>6 DEF NodeInv
<1> QED BY <1>7, <1>8 DEF NodesInv

\* A step that moves a node's download, and perhaps what it runs.
LEMMA FetchTyped ==
    ASSUME NodesTypeOK, NEW n \in Nodes, NEW x, NEW y,
           x = [st |-> x.st, version |-> x.version, rx |-> x.rx],
           x.st \in {"none", "ask", "body", "cut"}, x.st # "none" => x.version \in Versions,
           y = [version |-> y.version, body |-> y.body], y.version \in Versions \cup {0},
           fetching' = [fetching EXCEPT ![n] = x],
           installed' = [installed EXCEPT ![n] = y] \/ (UNCHANGED installed /\ y = installed[n]),
           stream' \in [Nodes -> StreamType]
    PROVE  /\ NodesTypeOK' /\ fetching'[n] = x /\ installed'[n] = y
           /\ \A m \in Nodes \ {n} : fetching'[m] = fetching[m] /\ installed'[m] = installed[m]
<1>1. fetching'[n] = x /\ \A m \in Nodes \ {n} : fetching'[m] = fetching[m]
    BY DEF NodesTypeOK
<1>2. installed'[n] = y /\ \A m \in Nodes \ {n} : installed'[m] = installed[m]
    BY DEF NodesTypeOK
<1>3. fetching' = [m \in Nodes |-> fetching'[m]] /\ installed' = [m \in Nodes |-> installed'[m]]
    BY DEF NodesTypeOK
<1>4. fetching' = [m \in Nodes |-> [st |-> fetching'[m].st, version |-> fetching'[m].version,
                                    rx |-> fetching'[m].rx]]
  <2>1. \A m \in Nodes : fetching'[m] = [st |-> fetching'[m].st,
                                         version |-> fetching'[m].version,
                                         rx |-> fetching'[m].rx]
      BY <1>1 DEF NodesTypeOK
  <2> QED BY <1>3, <2>1
<1>5. installed' = [m \in Nodes |-> [version |-> installed'[m].version,
                                     body |-> installed'[m].body]]
  <2>1. \A m \in Nodes : installed'[m] = [version |-> installed'[m].version,
                                          body |-> installed'[m].body]
      BY <1>2 DEF NodesTypeOK
  <2> QED BY <1>3, <2>1
<1>6. \A m \in Nodes : /\ fetching'[m].st \in {"none", "ask", "body", "cut"}
                       /\ fetching'[m].st # "none" => fetching'[m].version \in Versions
                       /\ installed'[m].version \in Versions \cup {0}
    BY <1>1, <1>2 DEF NodesTypeOK
<1> QED BY <1>1, <1>2, <1>4, <1>5, <1>6 DEF NodesTypeOK

\* The node gives up on a download, whatever the reason.
LEMMA RefusesInv ==
    ASSUME NodesInv, NEW n \in Nodes, NEW v, Refuses(n, v), fetching[n].st # "none",
           UNCHANGED <<disk, stream>>
    PROVE  NodesInv'
<1>1. NodeInv(n) /\ NodesTypeOK
    BY DEF NodesInv
<1>2. fetching' = [fetching EXCEPT ![n] = NoFetch] /\ UNCHANGED installed
    BY DEF Refuses
<1>3. NodesTypeOK' /\ fetching'[n].st = "none"
    BY <1>1, <1>2 DEF NodesTypeOK, NoFetch
<1>4. \A m \in Nodes \ {n} : fetching'[m] = fetching[m]
    BY <1>1, <1>2 DEF NodesTypeOK
<1>5. fetching[n].version > installed[n].version
    BY <1>1 DEF NodeInv, FetchesNewer
<1>6. Taken(n) = fetching[n].version /\ Taken(n)' = installed[n].version
    BY <1>2, <1>3 DEF Taken
<1>7. fetching[n].version \in Nat /\ installed[n].version \in Nat
    BY <1>1, StreamAssumption DEF NodesTypeOK
<1>8. stream[n].seen \in Nat /\ \A i \in 1..Len(stream[n].events) : stream[n].events[i].version \in Nat
  <2>1. stream[n].seen \in Nat /\ stream[n].events \in Seq(MetaRecords)
      BY <1>1 DEF NodesTypeOK, StreamType
  <2>2. \A i \in 1..Len(stream[n].events) : stream[n].events[i] \in MetaRecords
      BY <2>1
  <2> QED BY <2>1, <2>2 DEF MetaRecords
<1>9. StreamAhead(n)'
    BY <1>1, <1>3, <1>5, <1>6, <1>7, <1>8 DEF NodeInv, StreamAhead
<1>10. Downloading(n)' /\ Running(n)' /\ FetchesNewer(n)'
    BY <1>1, <1>2, <1>3 DEF NodeInv, Downloading, Served, Running, FetchesNewer, disk, Published
<1>11. NodeInv(n)'
    BY <1>9, <1>10 DEF NodeInv
<1> QED BY <1>2, <1>3, <1>4, <1>11, OneNode

\* The next event is newer than anything the node has taken, and older than the rest.
LEMMA EventFacts ==
    ASSUME NodesInv, NEW n \in Nodes, stream[n].events # <<>>
    PROVE  LET e == Head(stream[n].events)
               t == Tail(stream[n].events)
           IN  /\ e.version \in Versions /\ e.version > Taken(n)
               /\ t \in Seq(MetaRecords)
               /\ \A i \in 1..Len(t) : t[i] = stream[n].events[i + 1]
                                       /\ i + 1 \in 1..Len(stream[n].events)
               /\ \A i \in 1..Len(t) : t[i].version > e.version
               /\ stream[n].st = "open" => stream[n].seen >= e.version
<1> DEFINE q == stream[n].events
<1>1. q \in Seq(MetaRecords)
    BY DEF NodesInv, NodesTypeOK, StreamType
<1>2. 1 \in 1..Len(q) /\ Head(q) = q[1] /\ Tail(q) \in Seq(MetaRecords)
    BY <1>1
<1>3. \A i \in 1..Len(Tail(q)) : Tail(q)[i] = q[i + 1] /\ i + 1 \in 1..Len(q) /\ 1 < i + 1
    BY <1>1
<1>4. StreamAhead(n)
    BY DEF NodesInv, NodeInv
<1>5. /\ q[1].version \in Versions /\ q[1].version > Taken(n)
      /\ stream[n].st = "open" => q[1].version <= stream[n].seen
    BY <1>2, <1>4 DEF StreamAhead
<1>6. q[1].version \in Nat
    BY <1>5, StreamAssumption
<1>7. \A i \in 1..Len(q) : i > 1 => q[i].version > q[1].version
  <2>1. \A i \in 1..Len(q) : q[i].version \in Nat
    <3>1. \A i \in 1..Len(q) : q[i] \in MetaRecords
        BY <1>1
    <3> QED BY <3>1 DEF MetaRecords
  <2> QED BY <1>2, <1>4, <1>6, <2>1 DEF StreamAhead
<1>8. stream[n].seen \in Nat
    BY DEF NodesInv, NodesTypeOK, StreamType
<1> QED BY <1>2, <1>3, <1>5, <1>6, <1>7, <1>8

\* An event arrives, and is refused or asked for.
LEMMA RecvEventInv ==
    ASSUME StoreInv, NodesInv, NEW n \in Nodes, RecvEvent(n)
    PROVE  NodesInv'
<1> DEFINE e == Head(stream[n].events)
           s == [stream[n] EXCEPT !.events = Tail(stream[n].events)]
<1>1. NodeInv(n) /\ NodesTypeOK
    BY DEF NodesInv
<1>2. /\ fetching[n].st = "none" /\ stream[n].st # "down" /\ stream[n].events # <<>>
      /\ stream' = [stream EXCEPT ![n] = s] /\ UNCHANGED <<storeVars, installed>>
    BY DEF RecvEvent, Receiving, Refuses
<1>3. PICK x : /\ fetching' = [fetching EXCEPT ![n] = x]
               /\ x = NoFetch \/ x = [st |-> "ask", version |-> e.version, rx |-> Start]
    BY DEF RecvEvent, Refuses
<1>4. /\ e.version \in Versions /\ e.version > Taken(n)
      /\ Tail(stream[n].events) \in Seq(MetaRecords)
      /\ \A i \in 1..Len(Tail(stream[n].events)) :
            /\ Tail(stream[n].events)[i] = stream[n].events[i + 1]
            /\ i + 1 \in 1..Len(stream[n].events)
            /\ Tail(stream[n].events)[i].version > e.version
      /\ stream[n].st = "open" => stream[n].seen >= e.version
    BY <1>2, EventFacts
<1>5. /\ s \in StreamType /\ s.st = stream[n].st /\ s.seen = stream[n].seen
      /\ s.events = Tail(stream[n].events)
  <2>1. stream[n] \in StreamType
      BY <1>1 DEF NodesTypeOK
  <2> QED BY <1>4, <2>1 DEF StreamType
<1> HIDE DEF s, e
<1>6. stream'[n] = s /\ stream' \in [Nodes -> StreamType]
      /\ \A m \in Nodes \ {n} : stream'[m] = stream[m]
    BY <1>1, <1>2, <1>5 DEF NodesTypeOK
<1>7. /\ x = [st |-> x.st, version |-> x.version, rx |-> x.rx]
      /\ x.st \in {"none", "ask", "body", "cut"} /\ x.st # "body"
      /\ (x.st # "none" => x.version = e.version /\ x.rx = Start)
    BY <1>3 DEF NoFetch
<1>8. /\ NodesTypeOK' /\ fetching'[n] = x
      /\ \A m \in Nodes \ {n} : fetching'[m] = fetching[m] /\ installed'[m] = installed[m]
  <2> DEFINE y == installed[n]
  <2>1. y = [version |-> y.version, body |-> y.body] /\ y.version \in Versions \cup {0}
      BY <1>1 DEF NodesTypeOK
  <2>2. UNCHANGED installed /\ y = installed[n]
      BY <1>2
  <2>3. x.st # "none" => x.version \in Versions
      BY <1>4, <1>7
  <2> HIDE DEF y
  <2> QED BY <1>1, <1>3, <1>6, <1>7, <2>1, <2>2, <2>3, FetchTyped
<1>10. Taken(n) = installed[n].version /\ installed[n].version \in Nat /\ e.version \in Nat
    BY <1>1, <1>2, <1>4, StreamAssumption DEF Taken, NodesTypeOK
<1>11. Taken(n)' \in {installed[n].version, e.version}
    BY <1>2, <1>7, <1>8 DEF Taken
<1>12. FetchesNewer(n)' /\ Downloading(n)' /\ Running(n)'
    BY <1>1, <1>2, <1>4, <1>7, <1>8, <1>10
    DEF NodeInv, FetchesNewer, Downloading, Served, Running, storeVars, disk, Published
<1>13. StreamAhead(n)'
  <2> DEFINE q == stream[n].events
             t == s.events
  <2>1. \A i \in 1..Len(t) : t[i] = q[i + 1] /\ i + 1 \in 1..Len(q) /\ t[i].version > e.version
      BY <1>4, <1>5
  <2>2. \A i \in 1..Len(t) : t[i].version \in Nat
    <3>1. \A i \in 1..Len(t) : t[i] \in MetaRecords
        BY <1>4, <1>5
    <3> QED BY <3>1 DEF MetaRecords
  <2>3. stream[n].seen \in Nat
      BY <1>1 DEF NodesTypeOK, StreamType
  <2>4. \A i \in 1..Len(t) : t[i].version \in Versions /\ t[i].version > Taken(n)'
      BY <2>1, <2>2, <1>1, <1>4, <1>10, <1>11 DEF NodeInv, StreamAhead
  <2>5. \A i, j \in 1..Len(t) : i < j => t[i].version < t[j].version
    <3> SUFFICES ASSUME NEW i \in 1..Len(t), NEW j \in 1..Len(t), i < j
                 PROVE  t[i].version < t[j].version
        OBVIOUS
    <3>1. i + 1 < j + 1
        OBVIOUS
    <3> QED BY <2>1, <3>1, <1>1 DEF NodeInv, StreamAhead
  <2>6. s.st = "open" => /\ s.seen >= Taken(n)'
                         /\ \A i \in 1..Len(t) : t[i].version <= s.seen
      BY <2>1, <2>3, <1>1, <1>4, <1>5, <1>10, <1>11 DEF NodeInv, StreamAhead
  <2> QED BY <2>4, <2>5, <2>6, <1>2, <1>5, <1>6 DEF StreamAhead
<1>14. NodeInv(n)'
    BY <1>12, <1>13 DEF NodeInv
<1> QED BY <1>2, <1>6, <1>8, <1>14, OneNode DEF storeVars

\* The node learns that the stream broke.
LEMMA RecvErrorInv ==
    ASSUME StoreInv, NodesInv, NEW n \in Nodes, RecvError(n)
    PROVE  NodesInv'
<1> USE DEF RecvError, storeVars
<1>1. NodeInv(n) /\ NodesTypeOK
    BY DEF NodesInv
<1>2. Down \in StreamType /\ Down.st = "down" /\ Down.events = <<>>
    BY DEF Down, StreamType
<1>3. stream'[n] = Down
    BY <1>1, <1>2, StreamTyped
<1>4. Downloading(n)' /\ Running(n)' /\ FetchesNewer(n)'
    BY <1>1 DEF NodeInv, Downloading, Served, Running, FetchesNewer, disk, Published
<1>5. StreamAhead(n)'
    BY <1>2, <1>3 DEF Receiving, StreamAhead
<1>6. NodeInv(n)'
    BY <1>4, <1>5 DEF NodeInv
<1> QED BY <1>1, <1>2, <1>6, StreamTyped, OneNode

\* A step of a download that goes on: only its state moves.
LEMMA FetchOn ==
    ASSUME NodesInv, NEW n \in Nodes, fetching[n].st \in {"ask", "body"},
           NodesTypeOK', UNCHANGED <<disk, stream, installed>>,
           fetching'[n].st = "body", fetching'[n].version = fetching[n].version,
           Served(fetching[n].rx, fetching[n].version)',
           \A m \in Nodes \ {n} : fetching'[m] = fetching[m] /\ installed'[m] = installed[m]
    PROVE  NodesInv'
<1>1. NodeInv(n)
    BY DEF NodesInv
<1>2. Taken(n)' = Taken(n)
    BY DEF Taken
<1>3. StreamAhead(n)'
    BY <1>1, <1>2 DEF NodeInv, StreamAhead
<1>4. Downloading(n)'
    BY DEF Downloading
<1>5. Running(n)' /\ FetchesNewer(n)'
    BY <1>1 DEF NodeInv, Running, FetchesNewer, disk, Published
<1>6. NodeInv(n)'
    BY <1>3, <1>4, <1>5 DEF NodeInv
<1> QED BY <1>6, OneNode

\* GetModel sends the metadata that is on disk, or there is none.
LEMMA FetchMetaInv ==
    ASSUME StoreInv, NodesInv, NEW n \in Nodes, FetchMeta(n)
    PROVE  NodesInv'
<1> DEFINE v == fetching[n].version
           rx == ReceiveOne(fetching[n].rx, MetaMsg(metas[v]))
<1>1. fetching[n].st = "ask" /\ UNCHANGED <<storeVars, stream>>
    BY DEF FetchMeta
<1>2. v \in Versions
    BY <1>1 DEF NodesInv, NodesTypeOK
<1>3. CASE metas[v] \in {None, Unreadable}
  <2>1. Refuses(n, v)
      BY <1>3 DEF FetchMeta
  <2> QED BY <1>1, <2>1, RefusesInv DEF storeVars
<1>4. CASE metas[v] \notin {None, Unreadable}
  <2>1. /\ fetching' = [fetching EXCEPT ![n] = [st |-> "body", version |-> v, rx |-> rx]]
        /\ UNCHANGED installed
      BY <1>4 DEF FetchMeta
  <2>2. metas[v] \in MetaRecords
      BY <1>2, <1>4 DEF StoreInv, StoreTypeOK
  <2>3. Describes(metas[v], v)
      BY <1>2, <1>4 DEF StoreInv, OnDisk, Published
  <2>4. fetching[n].rx = Start /\ Start.st = "none" /\ ReceiveState(Start)
      BY <1>1 DEF NodesInv, NodeInv, Downloading, Served, Start, ReceiveState
  <2>5. ReceiveState(rx)
      BY <2>2, <2>4, ReceiveOneTyped DEF MetaMsg
  <2>6. rx.st = "some" => rx.meta = metas[v]
      BY <2>4 DEF ReceiveOne, MetaMsg, Failed
  <2>7. Served(rx, v)
      BY <2>3, <2>5, <2>6 DEF Served
  <2>8. UNCHANGED <<disk, stream, installed>> /\ NodesTypeOK
      BY <1>1, <2>1 DEF storeVars, NodesInv
  <2> DEFINE x == [st |-> "body", version |-> v, rx |-> rx]
             y == installed[n]
  <2>9. /\ x = [st |-> x.st, version |-> x.version, rx |-> x.rx]
        /\ x.st = "body" /\ x.version = v /\ x.rx = rx
        /\ fetching' = [fetching EXCEPT ![n] = x]
      BY <2>1
  <2>10. y = [version |-> y.version, body |-> y.body] /\ y.version \in Versions \cup {0}
      BY <2>8 DEF NodesTypeOK
  <2>11. UNCHANGED installed /\ y = installed[n] /\ stream' \in [Nodes -> StreamType]
      BY <2>8 DEF NodesTypeOK
  <2> HIDE DEF rx, x, y
  <2>12. /\ NodesTypeOK' /\ fetching'[n] = x
         /\ \A m \in Nodes \ {n} : fetching'[m] = fetching[m] /\ installed'[m] = installed[m]
      BY <1>2, <2>8, <2>9, <2>10, <2>11, FetchTyped
  <2>13. fetching'[n].st = "body" /\ fetching'[n].version = v /\ fetching'[n].rx = rx
      BY <2>9, <2>12
  <2>14. Served(fetching[n].rx, fetching[n].version)'
      BY <2>7, <2>8, <2>13 DEF Served, disk
  <2> QED BY <1>1, <2>8, <2>12, <2>13, <2>14, FetchOn
<1> QED BY <1>3, <1>4

\* GetModel sends the next block of the model file.
LEMMA FetchChunkInv ==
    ASSUME StoreInv, NodesInv, NEW n \in Nodes, FetchChunk(n)
    PROVE  NodesInv'
<1> DEFINE old == fetching[n].rx
           file == models[fetching[n].version]
           msg == ChunkMsg(<<file[Len(old.body) + 1]>>)
           rx == ReceiveOne(old, msg)
<1>1. /\ fetching[n].st = "body" /\ old.st = "some"
      /\ fetching' = [fetching EXCEPT ![n].rx = rx]
      /\ UNCHANGED <<disk, stream, installed>>
    BY DEF FetchChunk, storeVars
<1>2. Downloading(n) /\ NodesTypeOK
    BY DEF NodesInv, NodeInv
<1>3. msg.kind = "chunk"
    BY DEF ChunkMsg
<1> HIDE DEF msg
<1>4. ReceiveState(old)
    BY <1>1, <1>2 DEF Downloading, Served
<1>5. ReceiveState(rx)
    BY <1>3, <1>4, ReceiveOneTyped
<1>6. rx.st = "some" => rx.meta = old.meta
    BY <1>1, <1>3, <1>4 DEF ReceiveOne, Failed, ReceiveState
<1> HIDE DEF rx
<1>7. Served(rx, fetching[n].version)
    BY <1>1, <1>2, <1>5, <1>6 DEF Downloading, Served
<1> DEFINE x == [st |-> "body", version |-> fetching[n].version, rx |-> rx]
<1>8. /\ x = [st |-> x.st, version |-> x.version, rx |-> x.rx]
      /\ x.st = "body" /\ x.version = fetching[n].version /\ x.rx = rx
      /\ fetching' = [fetching EXCEPT ![n] = x]
  <2>1. fetching[n] = [st |-> "body", version |-> fetching[n].version, rx |-> old]
      BY <1>1, <1>2 DEF NodesTypeOK
  <2>2. [fetching[n] EXCEPT !.rx = rx] = [st |-> "body", version |-> fetching[n].version, rx |-> rx]
      BY <2>1
  <2> QED BY <1>1, <2>2
<1> DEFINE y == installed[n]
<1>9. y = [version |-> y.version, body |-> y.body] /\ y.version \in Versions \cup {0}
    BY <1>2 DEF NodesTypeOK
<1>10. UNCHANGED installed /\ y = installed[n] /\ stream' \in [Nodes -> StreamType]
    BY <1>1, <1>2 DEF NodesTypeOK
<1>11. fetching[n].version \in Versions
    BY <1>1, <1>2 DEF NodesTypeOK
<1> HIDE DEF x, y
<1>12. /\ NodesTypeOK' /\ fetching'[n] = x
       /\ \A m \in Nodes \ {n} : fetching'[m] = fetching[m] /\ installed'[m] = installed[m]
    BY <1>2, <1>8, <1>9, <1>10, <1>11, FetchTyped
<1>13. fetching'[n].st = "body" /\ fetching'[n].version = fetching[n].version /\ fetching'[n].rx = rx
    BY <1>8, <1>12
<1>14. Served(fetching[n].rx, fetching[n].version)'
    BY <1>1, <1>7, <1>13 DEF Served, disk
<1> QED BY <1>1, <1>12, <1>13, <1>14, FetchOn

\* The download is complete: what is installed is a whole model, the one that
\* the metadata on disk describes, and newer than what the node ran.
LEMMA FetchEndInv ==
    ASSUME StoreInv, NodesInv, NEW n \in Nodes, FetchEnd(n)
    PROVE  NodesInv'
<1> DEFINE file == models[fetching[n].version]
           rx == fetching[n].rx
           last == IF file = None THEN ReceiveOne(rx, ErrorMsg) ELSE rx
           end == ReceiveEnd(last)
<1>1. NodeInv(n) /\ NodesTypeOK
    BY DEF NodesInv
<1>2. fetching[n].st = "body" /\ UNCHANGED <<disk, stream>>
    BY DEF FetchEnd, storeVars
<1>3. ReceiveState(rx)
    BY <1>1, <1>2 DEF NodeInv, Downloading, Served
<1>4. CASE ~(end.st = "whole" /\ Compatible(end.meta) /\ end.meta.version \notin Unloadable)
  <2>1. Refuses(n, fetching[n].version)
      BY <1>4 DEF FetchEnd
  <2> QED BY <1>2, <2>1, RefusesInv
<1>5. CASE end.st = "whole" /\ Compatible(end.meta) /\ end.meta.version \notin Unloadable
  <2> DEFINE x == NoFetch
             y == [version |-> end.meta.version, body |-> end.body]
  <2>1. installed' = [installed EXCEPT ![n] = y] /\ fetching' = [fetching EXCEPT ![n] = x]
      BY <1>5 DEF FetchEnd
  <2>2. ReceiveState(last) /\ (last.st = "some" => rx.st = "some" /\ last = rx)
    <3>1. ErrorMsg.kind = "error"
        BY DEF ErrorMsg
    <3>2. CASE file = None
      <4>1. last = ReceiveOne(rx, ErrorMsg)
          BY <3>2
      <4>2. ReceiveState(ReceiveOne(rx, ErrorMsg))
          BY <1>3, <3>1, ReceiveOneTyped
      <4>3. ReceiveOne(rx, ErrorMsg).st # "some"
          BY <1>3, <3>1 DEF ReceiveOne, Failed, ReceiveState
      <4> HIDE DEF last
      <4> QED BY <4>1, <4>2, <4>3
    <3>3. CASE file # None
        BY <1>3, <3>3
    <3> QED BY <3>2, <3>3
  <2> HIDE DEF last
  <2>3. last.st = "some"
      BY <1>5, <2>2 DEF ReceiveEnd, ReceiveState, Failed
  <2>4. last = rx /\ rx.st = "some"
      BY <2>2, <2>3
  <2>5. end = [rx EXCEPT !.st = "whole"] /\ Sum(rx.body) = rx.meta.sum
      BY <1>5, <2>3, <2>4 DEF ReceiveEnd, Failed
  <2>6. end.meta = rx.meta /\ end.body = rx.body
      BY <1>3, <2>5 DEF ReceiveState
  <2> HIDE DEF end
  <2>7. rx.meta.complete /\ rx.meta.boundary = Boundary /\ rx.meta.version \notin Unloadable
      BY <1>5, <2>6 DEF Compatible
  <2>8. rx.meta.boundary # 0
      BY <2>7, RolloutAssumption
  <2>9. /\ GoodMeta(rx.meta) /\ rx.meta.version = fetching[n].version
        /\ fetching[n].version \notin lost => metas[fetching[n].version] = rx.meta
      BY <1>1, <1>2, <2>4, <2>8 DEF NodeInv, Downloading, Served, Describes
  <2>10. PICK b \in Bodies : Whole(rx.meta, b)
      BY <2>9 DEF GoodMeta
  <2>11. rx.body = b
    <3>1. Sum(rx.body) = Sum(b)
        BY <2>5, <2>10, WholeFacts
    <3> QED BY <3>1 DEF Sum
  <2>12. /\ rx.meta = Meta(fetching[n].version, rx.body, Boundary)
         /\ fetching[n].version \in Versions /\ rx.meta # None
      BY <2>7, <2>9, <2>10, <2>11, WholeFacts DEF Whole
  <2>13. y = [version |-> y.version, body |-> y.body] /\ y.version = fetching[n].version
         /\ y.body = rx.body
      BY <2>6, <2>9
  <2>14. /\ x = [st |-> x.st, version |-> x.version, rx |-> x.rx]
         /\ x.st = "none"
      BY DEF NoFetch
  <2>15. stream' \in [Nodes -> StreamType]
      BY <1>1, <1>2 DEF NodesTypeOK
  <2> HIDE DEF x, y
  <2>16. /\ NodesTypeOK' /\ fetching'[n] = x /\ installed'[n] = y
         /\ \A m \in Nodes \ {n} : fetching'[m] = fetching[m] /\ installed'[m] = installed[m]
      BY <1>1, <2>1, <2>12, <2>13, <2>14, <2>15, FetchTyped
  <2>17. Taken(n)' = Taken(n)
      BY <1>2, <2>13, <2>14, <2>16 DEF Taken
  <2>18. StreamAhead(n)'
      BY <1>1, <1>2, <2>14, <2>16, <2>17 DEF NodeInv, StreamAhead
  <2>19. Downloading(n)' /\ FetchesNewer(n)'
      BY <2>14, <2>16 DEF Downloading, Served, FetchesNewer
  <2>20. fetching[n].version \notin lost => fetching[n].version \in Published
      BY <2>9, <2>12 DEF Published
  <2>21. Running(n)'
      BY <1>2, <2>7, <2>9, <2>10, <2>11, <2>12, <2>13, <2>16, <2>20
      DEF Running, disk, Published
  <2>22. NodeInv(n)'
      BY <2>18, <2>19, <2>21 DEF NodeInv
  <2> QED BY <1>2, <2>16, <2>22, OneNode
<1> QED BY <1>4, <1>5

\* A node restarts without a model.
LEMMA NodeRestartInv ==
    ASSUME StoreInv, NodesInv, NEW n \in Nodes, NodeRestart(n)
    PROVE  NodesInv'
<1> USE DEF NodeRestart
<1>1. NodesTypeOK
    BY DEF NodesInv
<1>2. stream' \in [Nodes -> StreamType] /\ stream'[n] = Down
      /\ \A m \in Nodes \ {n} : stream'[m] = stream[m]
    BY <1>1 DEF NodesTypeOK, StreamType, Down
<1>3. /\ NoFetch = [st |-> NoFetch.st, version |-> NoFetch.version, rx |-> NoFetch.rx]
      /\ NoModel = [version |-> NoModel.version, body |-> NoModel.body]
      /\ NoFetch.st = "none" /\ NoModel.version = 0 /\ Down.st = "down" /\ Down.events = <<>>
    BY DEF NoFetch, NoModel, Down
<1>4. /\ NodesTypeOK' /\ fetching'[n] = NoFetch /\ installed'[n] = NoModel
      /\ \A m \in Nodes \ {n} : fetching'[m] = fetching[m] /\ installed'[m] = installed[m]
    BY <1>1, <1>2, <1>3, FetchTyped
<1>5. NodeInv(n)'
    BY <1>2, <1>3, <1>4 DEF NodeInv, StreamAhead, Downloading, Served, Running, FetchesNewer
<1> QED BY <1>2, <1>4, <1>5, OneNode

-----------------------------------------------------------------------------
(* The theorems.                                                            *)

\* Every step keeps the store's invariant, and what is published.
LEMMA StoreNext == StoreInv /\ [Next]_vars => StoreInv' /\ Kept
<1> SUFFICES ASSUME StoreInv, [Next]_vars PROVE StoreInv' /\ Kept
    OBVIOUS
<1>1. CASE RegistryStep
    BY <1>1, RegistryStepInv
<1>2. CASE RegistryCrash
    BY <1>2, DiesInv DEF RegistryCrash
<1>3. CASE \E n \in Nodes : NodeStep(n)
  <2>1. UNCHANGED <<disk, mem, lock, pub>>
      BY <1>3 DEF NodeStep, ServerLoop, WatchLoop, ServerPoll, ServerWake, Connect, RecvEvent,
                  RecvError, FetchMeta, FetchChunk, FetchEnd, FetchFail, FetchTimeout,
                  StreamBreak, NodeRestart, storeVars
  <2> QED BY <2>1, StoreUnchanged
<1>4. CASE UNCHANGED vars
    BY <1>4, StoreUnchanged DEF vars, storeVars
<1> QED BY <1>1, <1>2, <1>3, <1>4 DEF Next

\* Every step keeps the nodes' invariant.
LEMMA NodesNext == StoreInv /\ NodesInv /\ [Next]_vars => NodesInv'
<1> SUFFICES ASSUME StoreInv, NodesInv, [Next]_vars PROVE NodesInv'
    OBVIOUS
<1>1. ASSUME UNCHANGED nodeVars PROVE NodesInv'
  <2>1. StoreInv' /\ Kept
      BY StoreNext
  <2>2. NodesTypeOK'
      BY <1>1 DEF NodesInv, NodesTypeOK, nodeVars
  <2>3. ASSUME NEW n \in Nodes PROVE NodeInv(n)'
    <3>1. NodeInv(n) /\ NodesTypeOK /\ UNCHANGED <<stream, fetching, installed>>
        BY <1>1 DEF NodesInv, nodeVars
    <3>2. StreamAhead(n)' /\ FetchesNewer(n)'
        BY <3>1 DEF NodeInv, StreamAhead, FetchesNewer, Taken
    <3>3. Downloading(n)' /\ Running(n)'
        BY <2>1, <3>1, KeptForNode DEF NodeInv
    <3> QED BY <3>2, <3>3 DEF NodeInv
  <2> QED BY <2>2, <2>3 DEF NodesInv
<1>2. CASE RegistryStep
    BY <1>1, <1>2 DEF RegistryStep
<1>3. CASE RegistryCrash
    BY <1>3, RegistryCrashInv
<1>4. ASSUME NEW n \in Nodes, NodeStep(n) PROVE NodesInv'
  <2>1. CASE ServerLoop(n)
      BY <2>1, ServerPollInv, ServerWakeInv DEF ServerLoop
  <2>2. CASE Connect(n) \/ RecvEvent(n) \/ RecvError(n)
      BY <2>2, ConnectInv, RecvEventInv, RecvErrorInv
  <2>3. CASE FetchMeta(n) \/ FetchChunk(n) \/ FetchEnd(n)
      BY <2>3, FetchMetaInv, FetchChunkInv, FetchEndInv
  <2>4. CASE FetchFail(n)
      BY <2>4, RefusesInv DEF FetchFail, storeVars
  <2>5. CASE FetchTimeout(n)
      BY <2>5, RefusesInv DEF FetchTimeout
  <2>6. CASE StreamBreak(n) \/ NodeRestart(n)
      BY <2>6, StreamBreakInv, NodeRestartInv
  <2> QED BY <1>4, <2>1, <2>2, <2>3, <2>4, <2>5, <2>6 DEF NodeStep, WatchLoop
<1>5. CASE UNCHANGED vars
    BY <1>1, <1>5 DEF vars
<1> QED BY <1>2, <1>3, <1>4, <1>5 DEF Next

\* The strengthened invariant holds in every reachable state.
THEOREM RolloutInvariant == Spec => []Inv
<1>1. Init => Inv
    BY StoreInitInv, NodesInitInv DEF Init, Inv
<1>2. Inv /\ [Next]_vars => Inv'
    BY StoreNext, NodesNext DEF Inv
<1> QED BY <1>1, <1>2, PTL DEF Spec

\* A reader never finds metadata without the whole model it describes beside it,
\* whatever trainers send, and wherever a publish is cut off (PublishModel and
\* writeAtomic in registry.go).
THEOREM ModelComesFirst == Spec => []ModelBeforeMeta
<1>1. Inv => ModelBeforeMeta
  <2> SUFFICES ASSUME Inv, NEW v \in Published \ lost
               PROVE  models[v] \in Bodies /\ metas[v] = Meta(v, models[v], metas[v].boundary)
      BY DEF ModelBeforeMeta
  <2>1. Whole(metas[v], models[v]) /\ metas[v].version = v
      BY DEF Inv, StoreInv, OnDisk
  <2> QED BY <2>1 DEF Whole
<1> QED BY <1>1, RolloutInvariant, PTL

\* While power holds, latest is what ListModels names first, except between a
\* publish's metadata file and its move of latest (newStore and PublishModel).
THEOREM LatestNeverRollsBack == Spec => []NoRollback
<1>1. Inv => NoRollback
  <2> SUFFICES ASSUME Inv, lost = {}, up, \A p \in Publishers : pub[p].pc # "visible"
               PROVE  <<latest>> = IF Published = {} THEN <<Blank>> ELSE ListModels(1)
      BY DEF NoRollback
  <2>1. Known = Published
      BY DEF Known
  <2>2. CASE Published = {}
      BY <2>1, <2>2 DEF Inv, StoreInv, LatestIsNewest
  <2>3. CASE Published # {}
    <3>1. PICK v \in Published : latest = metas[v] /\ \A w \in Published : w <= v
        BY <2>1, <2>3 DEF Inv, StoreInv, LatestIsNewest
    <3>2. Published \in SUBSET Versions /\ IsFiniteSet(Published)
        BY StreamAssumption, FS_Subset DEF Published
    <3>3. \A w \in Published : w \in Nat
        BY <3>2, StreamAssumption
    <3>4. Cardinality(Published) \in Nat /\ Cardinality(Published) # 0
        BY <2>3, <3>2, FS_CardinalityType, FS_EmptySet
    <3>5. v \in Nat /\ \A w \in Published : w \in Nat /\ metas[w] # Unreadable
        BY <3>3, WholeFacts DEF Inv, StoreInv, OnDisk
    <3> DEFINE above(u) == {w \in Published : w > u}
               shown == {u \in Published : NewerThan(Published, u) < 1 /\ metas[u] # Unreadable}
    <3>6. \A u \in Published : Cardinality(above(u)) \in Nat
                               /\ (Cardinality(above(u)) = 0 <=> above(u) = {})
        BY <3>2, FS_Subset, FS_CardinalityType, FS_EmptySet
    <3>7. \A u \in Published : above(u) = {} <=> u = v
      <4>1. above(v) = {}
        <5>1. ASSUME NEW w \in Published, w > v PROVE FALSE
          <6>1. w <= v /\ w \in Nat /\ v \in Nat
              BY <3>1, <3>5
          <6> QED BY <5>1, <6>1
        <5> QED BY <5>1
      <4>2. ASSUME NEW u \in Published, above(u) = {} PROVE u = v
        <5>1. ~(v > u) /\ v >= u
            BY <3>1, <4>2
        <5> QED BY <3>5, <5>1
      <4> QED BY <4>1, <4>2
    <3>8. shown = {v}
      <4>1. \A u \in Published : NewerThan(Published, u) = Cardinality(above(u))
          BY DEF NewerThan
      <4> DEFINE c(u) == Cardinality(above(u))
      <4>2. \A u \in Published : c(u) < 1 <=> u = v
        <5> HIDE DEF above
        <5>1. \A u \in Published : c(u) \in Nat /\ (c(u) = 0 <=> u = v)
            BY <3>6, <3>7
        <5> HIDE DEF c
        <5> QED BY <5>1
      <4>3. shown = {u \in Published : c(u) < 1}
          BY <3>5, <4>1
      <4> HIDE DEF c, above, shown
      <4> QED BY <4>2, <4>3
    <3>9. Cardinality(shown) = 1 /\ NewerThan(shown, v) = 0
      <4>1. {w \in {v} : w > v} = {}
          BY <3>5
      <4>2. Cardinality({v}) = 1 /\ Cardinality({}) = 0
          BY FS_Singleton, FS_EmptySet
      <4> HIDE DEF shown
      <4> QED BY <3>8, <4>1, <4>2 DEF NewerThan
    <3>10. ListModels(1) = [i \in 1..Cardinality(shown) |->
                              metas[CHOOSE u \in shown : NewerThan(shown, u) = i - 1]]
      <4> DEFINE first(n) == LET s == {u \in Published : NewerThan(Published, u) < n
                                                       /\ metas[u] # Unreadable}
                            IN  [i \in 1..Cardinality(s) |->
                                   metas[CHOOSE u \in s : NewerThan(s, u) = i - 1]]
                 all == Cardinality(Published)
                 n == IF 1 = 0 \/ 1 > all THEN all ELSE 1
      <4>1. n = 1
          BY <3>4
      <4>2. ListModels(1) = first(n)
          BY Zenon DEF ListModels
      <4>3. first(1) = [i \in 1..Cardinality(shown) |->
                          metas[CHOOSE u \in shown : NewerThan(shown, u) = i - 1]]
          OBVIOUS
      <4> HIDE DEF first, n, shown
      <4> QED BY <4>1, <4>2, <4>3
    <3> HIDE DEF shown
    <3>11. (CHOOSE u \in shown : NewerThan(shown, u) = 1 - 1) = v
        BY <3>8, <3>9
    <3>12. ListModels(1) = <<metas[v]>>
      <4> DEFINE pick(i) == CHOOSE u \in shown : NewerThan(shown, u) = i - 1
      <4>1. pick(1) = v
          BY <3>11
      <4>2. ListModels(1) = [i \in 1..1 |-> metas[pick(i)]]
          BY <3>9, <3>10
      <4> HIDE DEF pick
      <4>3. [i \in 1..1 |-> metas[pick(i)]] = <<metas[v]>>
          BY <4>1
      <4> QED BY <4>2, <4>3
    <3> QED BY <2>3, <3>1, <3>12
  <2> QED BY <2>2, <2>3
<1> QED BY <1>1, RolloutInvariant, PTL

\* No step but a power failure changes a published version's files.
THEOREM PublishedStays == Spec => PublishedImmutable
<1>1. Inv /\ [Next]_vars =>
         [\A v \in Published \ lost' : models'[v] = models[v] /\ metas'[v] = metas[v]]_storeVars
    BY StoreNext DEF Inv, Kept
<1> QED BY <1>1, RolloutInvariant, PTL DEF Spec, PublishedImmutable

\* A node runs only whole models that a trainer published for its boundary, also
\* when power failures of the registry cut the file it is downloading short
\* (receive, Watcher.install and ModelHolder.Store).
THEOREM OnlyUsableModelsRun == Spec => []InstalledUsable
<1>1. Inv => InstalledUsable
    BY DEF Inv, NodesInv, NodeInv, Running, InstalledUsable
<1> QED BY <1>1, RolloutInvariant, PTL

\* A node downloads only models newer than the one it runs, through reconnects,
\* registry restarts and rollbacks (WatchModels and Watcher.watch).
THEOREM DownloadsOnlyNewer == Spec => []OnlyNewerFetched
<1>1. Inv => OnlyNewerFetched
    BY DEF Inv, NodesInv, NodeInv, FetchesNewer, OnlyNewerFetched
<1> QED BY <1>1, RolloutInvariant, PTL
=============================================================================
