--------------------------- MODULE TreeModelProofs ---------------------------
(***************************************************************************)
(* Proofs about TreeModel, for any set of trees a file may contain, any    *)
(* number of them in a file, and any modulus of the parent counters.       *)
(***************************************************************************)
EXTENDS TreeModel, FiniteSetTheorems, TLAPS

-----------------------------------------------------------------------------
(* The inductive invariant.                                                 *)

\* Where a walk of tree t may stand: one of its nodes, or one of its leaves.
Inside(t, v) ==
    /\ v \in Int
    /\ IF v >= 0 THEN v < NodesOf(t) ELSE Leaf(v) < t.values

\* Tree t, the k-th of the file, stands in the flat nodes ns and leaves ls from nb
\* and lb on, child by child, and its root is where the walk starts.
Placed(ns, ls, nf, t, k, root, nb, lb) ==
    /\ Inside(t, IF t.numLeaves <= 1 THEN -1 ELSE 0)
    /\ root = child(IF t.numLeaves <= 1 THEN -1 ELSE 0, nb, lb)
    /\ \A x \in 0..(NodesOf(t) - 1) :
          /\ nb + x \in DOMAIN ns
          /\ ns[nb + x].left = child(t.left[x], nb, lb)
          /\ ns[nb + x].right = child(t.right[x], nb, lb)
          /\ ns[nb + x].feature \in 0..(nf - 1)
          /\ Inside(t, t.left[x]) /\ Inside(t, t.right[x])
    /\ \A y \in 0..(t.values - 1) : lb + y \in DOMAIN ls /\ ls[lb + y] = <<k, y>>

TypeOK ==
    /\ pc \in {"trees", "loaded", "refused", "stored", "walk", "panicked"}
    /\ numFeatures \in Int /\ widest \in Nat
    /\ Count(nodes) \in Nat /\ DOMAIN nodes = 0..(Count(nodes) - 1)
    /\ Count(leaves) \in Nat /\ DOMAIN leaves = 0..(Count(leaves) - 1)
    /\ roots \in Seq(Int) /\ file \in Seq(Trees) /\ Len(file) = Len(roots)
    /\ sum \in Seq(Nat \X Nat)
    /\ pc \in {"loaded", "stored", "walk"} => Len(roots) > 0
    /\ pc \in {"stored", "walk"} => numFeatures = FeatureCount

\* Every tree of the file is in the flat arrays.
FlatInv ==
    \A k \in 1..Len(roots) : \E nb, lb \in Nat :
        Placed(nodes, leaves, widest, file[k], k, roots[k], nb, lb)

\* The walk stands where a walk of the tree itself would, moved to where the tree is,
\* and has added one leaf of each tree before.
WalkInv ==
    /\ \A k \in 1..Len(sum) : sum[k][1] = k
    /\ pc = "walk" =>
         /\ tree \in 1..Len(roots) /\ Len(sum) = tree - 1
         /\ Inside(file[tree], local)
         /\ \E nb, lb \in Nat :
              /\ Placed(nodes, leaves, widest, file[tree], tree, roots[tree], nb, lb)
              /\ i = child(local, nb, lb)

Inv == TypeOK /\ FlatInv /\ WalkInv

-----------------------------------------------------------------------------
(* The trees that flush accepts.                                            *)

LEMMA CountInterval ==
    ASSUME NEW n \in Nat, NEW f, DOMAIN f = 0..(n - 1)
    PROVE  Count(f) = n
BY FS_Interval DEF Count

LEMMA TreeFacts ==
    ASSUME NEW t \in Trees
    PROVE  /\ t.numLeaves \in Int /\ t.values \in Nat /\ NodesOf(t) \in Nat
           /\ NodesOf(t) = IF t.numLeaves <= 1 THEN 0 ELSE t.numLeaves - 1
<1>1. t.numLeaves \in Int /\ t.values \in Nat
    BY TreeModelAssumption
<1>2. NodesOf(t) = IF t.numLeaves <= 1 THEN 0 ELSE t.numLeaves - 1
    BY DEF NodesOf, Internal
<1> QED BY <1>1, <1>2

\* What flush's comparison of lengths is for: every node has its entry in each array.
LEMMA ArrayFacts ==
    ASSUME NEW t \in Trees, SameLengths(t), t.numLeaves > 1, NEW x \in 0..(NodesOf(t) - 1)
    PROVE  /\ x \in DOMAIN t.left /\ t.left[x] \in Int
           /\ x \in DOMAIN t.right /\ t.right[x] \in Int
           /\ x \in DOMAIN t.feature /\ t.feature[x] \in Int
<1>1. IsArray(t.left) /\ IsArray(t.right) /\ IsArray(t.feature)
    BY TreeModelAssumption
<1>2. NodesOf(t) = t.numLeaves - 1 /\ t.numLeaves \in Int
    BY TreeFacts
<1>3. /\ Count(t.left) = NodesOf(t) /\ Count(t.right) = NodesOf(t)
      /\ Count(t.feature) = NodesOf(t)
    BY <1>2 DEF SameLengths, Internal
<1> QED BY <1>1, <1>3 DEF IsArray

\* A child of an accepted tree is one of its nodes or leaves.
LEMMA AcceptedInside ==
    ASSUME NEW t \in Trees, Accepts(t), numFeatures \in Int
    PROVE  /\ Inside(t, IF t.numLeaves <= 1 THEN -1 ELSE 0)
           /\ \A x \in 0..(NodesOf(t) - 1) :
                /\ Inside(t, t.left[x]) /\ Inside(t, t.right[x])
                /\ t.feature[x] \in 0..(numFeatures - 1)
<1>1. CASE t.numLeaves <= 1
  <2>1. t.values = 1 /\ NodesOf(t) = 0
      BY <1>1, TreeFacts DEF Accepts
  <2> QED BY <1>1, <2>1 DEF Inside, Leaf
<1>2. CASE ~(t.numLeaves <= 1)
  <2>1. /\ SameLengths(t) /\ checkShape(t)
        /\ \A x \in DOMAIN t.feature : t.feature[x] >= 0 /\ t.feature[x] < numFeatures
      BY <1>2 DEF Accepts
  <2>2. /\ t.values = t.numLeaves /\ NodesOf(t) = t.numLeaves - 1
        /\ t.numLeaves \in Int /\ t.numLeaves > 1
      BY <1>2, <2>1, TreeFacts DEF SameLengths
  <2>3. \A v \in Children(t) : inRange(t, v)
      BY <2>1 DEF checkShape
  <2>4. ASSUME NEW x \in 0..(NodesOf(t) - 1)
        PROVE  /\ Inside(t, t.left[x]) /\ Inside(t, t.right[x])
               /\ t.feature[x] \in 0..(numFeatures - 1)
    <3>1. /\ x \in DOMAIN t.left /\ t.left[x] \in Int
          /\ x \in DOMAIN t.right /\ t.right[x] \in Int
          /\ x \in DOMAIN t.feature /\ t.feature[x] \in Int
        BY <2>1, <2>2, ArrayFacts
    <3>2. t.left[x] \in Children(t) /\ t.right[x] \in Children(t)
        BY <3>1 DEF Children
    <3>3. inRange(t, t.left[x]) /\ inRange(t, t.right[x])
        BY <2>3, <3>2
    <3>4. Inside(t, t.left[x]) /\ Inside(t, t.right[x])
        BY <2>2, <3>1, <3>3 DEF inRange, Inside, Internal
    <3>5. t.feature[x] \in 0..(numFeatures - 1)
        BY <2>1, <3>1
    <3> QED BY <3>4, <3>5
  <2>5. Inside(t, 0)
      BY <2>2 DEF Inside
  <2> QED BY <1>2, <2>4, <2>5
<1> QED BY <1>1, <1>2

\* What was placed stays placed when the arrays only grow.
LEMMA PlacedStays ==
    ASSUME NEW ns, NEW ls, NEW ns2, NEW ls2, NEW nf \in Int, NEW nf2 \in Int, nf <= nf2,
           NEW t, NEW k, NEW root, NEW nb, NEW lb,
           \A x \in DOMAIN ns : x \in DOMAIN ns2 /\ ns2[x] = ns[x],
           \A x \in DOMAIN ls : x \in DOMAIN ls2 /\ ls2[x] = ls[x],
           Placed(ns, ls, nf, t, k, root, nb, lb)
    PROVE  Placed(ns2, ls2, nf2, t, k, root, nb, lb)
<1>1. \A f \in 0..(nf - 1) : f \in 0..(nf2 - 1)
    OBVIOUS
<1> QED BY <1>1 DEF Placed

\* The step of flush that accepts a tree.
LEMMA FlushInv ==
    ASSUME Inv, NEW t \in Trees, Flush(t)
    PROVE  Inv'
<1> DEFINE nb == Count(nodes)
           lb == Count(leaves)
           m == Len(roots) + 1
<1>1. /\ pc = "trees" /\ Accepts(t)
      /\ leaves' = [x \in 0..(lb + t.values - 1) |->
            IF x < lb THEN leaves[x] ELSE <<m, x - lb>>]
      /\ nodes' = [x \in 0..(nb + NodesOf(t) - 1) |->
            IF x < nb THEN nodes[x]
            ELSE [left |-> child(t.left[x - nb], nb, lb), right |-> child(t.right[x - nb], nb, lb),
                  feature |-> t.feature[x - nb]]]
      /\ roots' = Append(roots, IF t.numLeaves <= 1 THEN -lb - 1 ELSE nb)
      /\ file' = Append(file, t)
      /\ widest' = IF numFeatures > widest THEN numFeatures ELSE widest
      /\ UNCHANGED <<pc, numFeatures, i, tree, local, sum>>
    BY DEF Flush, walking
<1>2. /\ nb \in Nat /\ DOMAIN nodes = 0..(nb - 1)
      /\ lb \in Nat /\ DOMAIN leaves = 0..(lb - 1)
      /\ m \in Nat /\ roots \in Seq(Int) /\ file \in Seq(Trees) /\ Len(file) = m - 1 /\ Len(roots) = m - 1
    BY DEF Inv, TypeOK
<1>3. NodesOf(t) \in Nat /\ t.values \in Nat
    BY TreeFacts
<1>11. widest \in Nat /\ numFeatures \in Int /\ widest' \in Nat /\ widest <= widest' /\ numFeatures <= widest'
    BY <1>1 DEF Inv, TypeOK
<1> HIDE DEF nb, lb, m
<1>4. TypeOK'
  <2>1. DOMAIN nodes' = 0..((nb + NodesOf(t)) - 1) /\ nb + NodesOf(t) \in Nat
    <3>1. DOMAIN nodes' = 0..(nb + NodesOf(t) - 1)
        BY <1>1
    <3> QED BY <1>2, <1>3, <3>1
  <2>2. DOMAIN leaves' = 0..((lb + t.values) - 1) /\ lb + t.values \in Nat
    <3>1. leaves' = [x \in 0..(lb + t.values - 1) |->
                        IF x < lb THEN leaves[x] ELSE <<m, x - lb>>]
        BY <1>1
    <3>2. DOMAIN leaves' = 0..(lb + t.values - 1)
        BY <3>1
    <3> QED BY <1>2, <1>3, <3>2
  <2>3. Count(nodes') = nb + NodesOf(t) /\ Count(leaves') = lb + t.values
      BY <2>1, <2>2, CountInterval
  <2>4. Count(nodes)' = Count(nodes') /\ Count(leaves)' = Count(leaves')
      BY DEF Count
  <2>5. roots' \in Seq(Int) /\ file' \in Seq(Trees) /\ Len(file') = Len(roots')
    <3>1. (IF t.numLeaves <= 1 THEN -lb - 1 ELSE nb) \in Int
        BY <1>2
    <3> QED BY <1>1, <1>2, <3>1
  <2> QED BY <1>1, <1>11, <2>1, <2>2, <2>3, <2>4, <2>5 DEF Inv, TypeOK
<1>5. \A x \in DOMAIN nodes : x \in DOMAIN nodes' /\ nodes'[x] = nodes[x]
  <2>1. /\ DOMAIN nodes' = 0..(nb + NodesOf(t) - 1)
        /\ \A x \in 0..(nb + NodesOf(t) - 1) : x < nb => nodes'[x] = nodes[x]
      BY <1>1
  <2> QED BY <1>2, <1>3, <2>1
<1>6. \A x \in DOMAIN leaves : x \in DOMAIN leaves' /\ leaves'[x] = leaves[x]
  <2>1. /\ DOMAIN leaves' = 0..(lb + t.values - 1)
        /\ \A x \in 0..(lb + t.values - 1) : x < lb => leaves'[x] = leaves[x]
      BY <1>1
  <2> QED BY <1>2, <1>3, <2>1, SMTT(30)
<1>7. /\ Len(roots') = m
      /\ \A k \in 1..(m - 1) : roots'[k] = roots[k] /\ file'[k] = file[k]
      /\ roots'[m] = IF t.numLeaves <= 1 THEN -lb - 1 ELSE nb
      /\ file'[m] = t
    BY <1>1, <1>2
<1>8. Placed(nodes', leaves', widest', t, m, roots'[m], nb, lb)
  <2>1. /\ Inside(t, IF t.numLeaves <= 1 THEN -1 ELSE 0)
        /\ \A x \in 0..(NodesOf(t) - 1) :
             /\ Inside(t, t.left[x]) /\ Inside(t, t.right[x])
             /\ t.feature[x] \in 0..(widest' - 1)
    <3>1. /\ Inside(t, IF t.numLeaves <= 1 THEN -1 ELSE 0)
          /\ \A x \in 0..(NodesOf(t) - 1) :
               /\ Inside(t, t.left[x]) /\ Inside(t, t.right[x])
               /\ t.feature[x] \in 0..(numFeatures - 1)
        BY <1>1, <1>11, AcceptedInside
    <3>2. \A f \in 0..(numFeatures - 1) : f \in 0..(widest' - 1)
      <4>1. PICK n, w : n = numFeatures /\ w = widest'
          OBVIOUS
      <4>2. n \in Int /\ w \in Nat /\ n <= w
          BY <1>11, <4>1
      <4>3. \A f \in 0..(n - 1) : f \in 0..(w - 1)
          BY <4>2
      <4> QED BY <4>1, <4>3
    <3> QED BY <3>1, <3>2
  <2>2. roots'[m] = child(IF t.numLeaves <= 1 THEN -1 ELSE 0, nb, lb)
      BY <1>2, <1>7, TreeFacts DEF child, Leaf
  <2>3. ASSUME NEW x \in 0..(NodesOf(t) - 1)
        PROVE  /\ nb + x \in DOMAIN nodes'
               /\ nodes'[nb + x].left = child(t.left[x], nb, lb)
               /\ nodes'[nb + x].right = child(t.right[x], nb, lb)
               /\ nodes'[nb + x].feature = t.feature[x]
    <3>1. nb + x \in 0..(nb + NodesOf(t) - 1) /\ ~(nb + x < nb) /\ (nb + x) - nb = x
        BY <1>2, <1>3
    <3> QED BY <1>1, <3>1
  <2>4. ASSUME NEW y \in 0..(t.values - 1)
        PROVE  lb + y \in DOMAIN leaves' /\ leaves'[lb + y] = <<m, y>>
    <3>1. lb + y \in 0..(lb + t.values - 1) /\ ~(lb + y < lb) /\ (lb + y) - lb = y
        BY <1>2, <1>3
    <3> QED BY <1>1, <3>1
  <2> QED BY <2>1, <2>2, <2>3, <2>4 DEF Placed
<1>9. FlatInv'
  <2> SUFFICES ASSUME NEW k \in 1..m
               PROVE  \E b, c \in Nat :
                        Placed(nodes', leaves', widest', file'[k], k, roots'[k], b, c)
      BY <1>1, <1>7 DEF FlatInv
  <2>1. CASE k = m
      BY <1>2, <1>7, <1>8, <2>1
  <2>2. CASE k # m
    <3>1. k \in 1..(m - 1) /\ k \in 1..Len(roots)
        BY <1>2, <2>2
    <3>2. PICK b \in Nat, c \in Nat :
              Placed(nodes, leaves, widest, file[k], k, roots[k], b, c)
        BY <3>1 DEF Inv, FlatInv
    <3>3. Placed(nodes', leaves', widest', file[k], k, roots[k], b, c)
      <4>1. PICK v, w, ns, ls : v = widest /\ w = widest' /\ ns = nodes' /\ ls = leaves'
          OBVIOUS
      <4>2. v \in Int /\ w \in Int /\ v <= w /\ Placed(nodes, leaves, v, file[k], k, roots[k], b, c)
          BY <1>11, <3>2, <4>1
      <4>3. /\ \A x \in DOMAIN nodes : x \in DOMAIN ns /\ ns[x] = nodes[x]
            /\ \A x \in DOMAIN leaves : x \in DOMAIN ls /\ ls[x] = leaves[x]
          BY <1>5, <1>6, <4>1
      <4>4. Placed(ns, ls, w, file[k], k, roots[k], b, c)
          BY <4>2, <4>3, PlacedStays
      <4> QED BY <4>1, <4>4
    <3> QED BY <1>7, <3>1, <3>3
  <2> QED BY <2>1, <2>2
<1>10. WalkInv'
    BY <1>1 DEF Inv, WalkInv
<1> QED BY <1>4, <1>9, <1>10 DEF Inv

\* What Raw's own steps leave alone.
LEMMA ModelKept ==
    ASSUME TypeOK, FlatInv, UNCHANGED <<numFeatures, nodes, leaves, roots, file, widest>>,
           pc' \in {"trees", "loaded", "refused", "stored", "walk", "panicked"},
           pc' \in {"loaded", "stored", "walk"} => Len(roots) > 0,
           pc' \in {"stored", "walk"} => numFeatures = FeatureCount,
           sum' \in Seq(Nat \X Nat)
    PROVE  TypeOK' /\ FlatInv'
<1>1. Count(nodes)' = Count(nodes) /\ Count(leaves)' = Count(leaves)
    BY DEF Count
<1>2. TypeOK'
    BY <1>1 DEF TypeOK
<1>3. FlatInv'
    BY DEF FlatInv
<1> QED BY <1>2, <1>3

\* The walk of tree k starts at its root.
LEMMA StartInv ==
    ASSUME FlatInv, NEW k \in 1..Len(roots), Start(k)
    PROVE  /\ tree' = k /\ Inside(file[k], local')
           /\ \E nb, lb \in Nat :
                /\ Placed(nodes, leaves, widest, file[k], k, roots[k], nb, lb)
                /\ i' = child(local', nb, lb)
<1>1. PICK nb \in Nat, lb \in Nat :
          Placed(nodes, leaves, widest, file[k], k, roots[k], nb, lb)
    BY DEF FlatInv
<1>2. /\ tree' = k /\ i' = roots[k]
      /\ local' = IF file[k].numLeaves <= 1 THEN -1 ELSE 0
    BY DEF Start
<1>3. Inside(file[k], local') /\ i' = child(local', nb, lb)
    BY <1>1, <1>2 DEF Placed
<1> QED BY <1>1, <1>2, <1>3

LEMMA RawBeginInv ==
    ASSUME Inv, RawBegin
    PROVE  Inv'
<1>1. /\ pc = "stored" /\ pc' = "walk" /\ sum' = <<>> /\ Start(1)
      /\ UNCHANGED <<numFeatures, nodes, leaves, roots, file, widest>>
    BY DEF RawBegin
<1>2. 1 \in 1..Len(roots) /\ Len(roots) > 0 /\ numFeatures = FeatureCount
    BY <1>1 DEF Inv, TypeOK
<1>3. TypeOK' /\ FlatInv'
    BY <1>1, <1>2, ModelKept DEF Inv
<1>4. /\ tree' = 1 /\ Inside(file[1], local')
      /\ \E nb, lb \in Nat :
           /\ Placed(nodes, leaves, widest, file[1], 1, roots[1], nb, lb)
           /\ i' = child(local', nb, lb)
    BY <1>1, <1>2, StartInv DEF Inv
<1>5. WalkInv'
    BY <1>1, <1>2, <1>4 DEF WalkInv
<1> QED BY <1>3, <1>5 DEF Inv

LEMMA RawNodeInv ==
    ASSUME Inv, RawNode
    PROVE  Inv'
<1> DEFINE t == file[tree]
<1>1. /\ pc = "walk" /\ i >= 0
      /\ \/ i' = nodes[i].left /\ local' = t.left[local]
         \/ i' = nodes[i].right /\ local' = t.right[local]
      /\ UNCHANGED <<pc, numFeatures, nodes, leaves, roots, file, widest, tree, sum>>
    BY DEF RawNode
<1>2. TypeOK' /\ FlatInv'
    BY <1>1, ModelKept DEF Inv, TypeOK
<1>3. /\ tree \in 1..Len(roots) /\ Len(sum) = tree - 1 /\ Inside(t, local)
      /\ t \in Trees
    BY <1>1 DEF Inv, WalkInv, TypeOK
<1>4. PICK nb \in Nat, lb \in Nat :
          /\ Placed(nodes, leaves, widest, t, tree, roots[tree], nb, lb)
          /\ i = child(local, nb, lb)
    BY <1>1 DEF Inv, WalkInv
<1> HIDE DEF t
<1>5. local \in 0..(NodesOf(t) - 1) /\ i = nb + local
  <2>1. local \in Int /\ t.values \in Nat /\ NodesOf(t) \in Nat
      BY <1>3, TreeFacts DEF Inside
  <2>2. local >= 0
    <3> SUFFICES ASSUME local < 0 PROVE FALSE
        BY <2>1
    <3>1. i = -(lb + (-local - 1)) - 1
        BY <1>4, <2>1 DEF child, Leaf
    <3> QED BY <1>1, <1>4, <2>1, <3>1
  <2> QED BY <1>3, <1>4, <2>1, <2>2 DEF Inside, child
<1>6. /\ nodes[i].left = child(t.left[local], nb, lb) /\ Inside(t, t.left[local])
      /\ nodes[i].right = child(t.right[local], nb, lb) /\ Inside(t, t.right[local])
    BY <1>4, <1>5 DEF Placed
<1>7. Inside(t, local') /\ i' = child(local', nb, lb)
    BY <1>1, <1>6
<1>8. WalkInv'
    BY <1>1, <1>3, <1>4, <1>7 DEF Inv, WalkInv, t
<1> QED BY <1>2, <1>8 DEF Inv

\* Where the walk stands at a leaf, the leaf is the tree's own.
LEMMA AtLeaf ==
    ASSUME Inv, pc = "walk", i < 0
    PROVE  /\ i \in Int /\ local \in Int
           /\ local < 0 /\ Leaf(i) \in DOMAIN leaves /\ Leaf(local) \in Nat
           /\ leaves[Leaf(i)] = <<tree, Leaf(local)>>
           /\ tree \in 1..Len(roots) /\ Len(sum) = tree - 1
<1> DEFINE t == file[tree]
<1>1. /\ tree \in 1..Len(roots) /\ Len(sum) = tree - 1 /\ Inside(t, local)
      /\ t \in Trees
    BY DEF Inv, WalkInv, TypeOK
<1>2. PICK nb \in Nat, lb \in Nat :
          /\ Placed(nodes, leaves, widest, t, tree, roots[tree], nb, lb)
          /\ i = child(local, nb, lb)
    BY DEF Inv, WalkInv
<1> HIDE DEF t
<1>3. local \in Int /\ t.values \in Nat
    BY <1>1, TreeFacts DEF Inside
<1>4. local < 0
    BY <1>2, <1>3 DEF child
<1>5. Leaf(local) \in 0..(t.values - 1)
    BY <1>1, <1>3, <1>4 DEF Inside, Leaf
<1>6. Leaf(i) = lb + Leaf(local)
  <2>1. i = -(lb + Leaf(local)) - 1 /\ Leaf(local) \in Int
      BY <1>2, <1>3, <1>4, <1>5 DEF child
  <2>2. i \in Int
      BY <1>2, <2>1
  <2> QED BY <1>2, <2>1, <2>2 DEF Leaf
<1>7. lb + Leaf(local) \in DOMAIN leaves /\ leaves[lb + Leaf(local)] = <<tree, Leaf(local)>>
    BY <1>2, <1>5 DEF Placed
<1>8. i \in Int
    BY <1>2, <1>3 DEF child, Leaf
<1> QED BY <1>1, <1>3, <1>4, <1>5, <1>6, <1>7, <1>8

\* At a node, it is one of the tree's own, and its feature is one that a header
\* declared when a tree was checked.
LEMMA AtNode ==
    ASSUME Inv, pc = "walk", ~(i < 0)
    PROVE  local \in Int /\ local >= 0 /\ i >= 0 /\ i \in DOMAIN nodes /\ nodes[i].feature \in 0..(widest - 1)
<1> DEFINE t == file[tree]
<1>1. tree \in 1..Len(roots) /\ Inside(t, local) /\ t \in Trees
    BY DEF Inv, WalkInv, TypeOK
<1>2. PICK nb \in Nat, lb \in Nat :
          /\ Placed(nodes, leaves, widest, t, tree, roots[tree], nb, lb)
          /\ i = child(local, nb, lb)
    BY DEF Inv, WalkInv
<1> HIDE DEF t
<1>3. local \in Int /\ t.values \in Nat /\ NodesOf(t) \in Nat
    BY <1>1, TreeFacts DEF Inside
<1>4. local >= 0
  <2> SUFFICES ASSUME local < 0 PROVE FALSE
      BY <1>3
  <2>1. i = -(lb + (-local - 1)) - 1
      BY <1>2, <1>3 DEF child, Leaf
  <2> QED BY <1>3, <2>1
<1>5. local \in 0..(NodesOf(t) - 1) /\ i = nb + local
    BY <1>1, <1>2, <1>3, <1>4 DEF Inside, child
<1>6. i \in DOMAIN nodes /\ nodes[i].feature \in 0..(widest - 1)
    BY <1>2, <1>5 DEF Placed
<1>7. i >= 0
    BY <1>2, <1>5
<1> QED BY <1>3, <1>4, <1>6, <1>7

LEMMA RawLeafInv ==
    ASSUME Inv, RawLeaf
    PROVE  Inv'
<1>1. /\ pc = "walk" /\ i < 0
      /\ sum' = Append(sum, leaves[Leaf(i)])
      /\ UNCHANGED <<numFeatures, nodes, leaves, roots, file, widest>>
    BY DEF RawLeaf
<1>2. /\ Leaf(local) \in Nat /\ leaves[Leaf(i)] = <<tree, Leaf(local)>>
      /\ tree \in 1..Len(roots) /\ Len(sum) = tree - 1
    BY <1>1, AtLeaf
<1>3. /\ sum' \in Seq(Nat \X Nat) /\ Len(sum') = tree
      /\ \A k \in 1..Len(sum') : sum'[k][1] = k
  <2>1. <<tree, Leaf(local)>> \in Nat \X Nat /\ sum \in Seq(Nat \X Nat)
      BY <1>2 DEF Inv, TypeOK
  <2>2. sum' = Append(sum, <<tree, Leaf(local)>>)
      BY <1>1, <1>2
  <2>3. sum' \in Seq(Nat \X Nat) /\ Len(sum') = tree /\ sum'[tree] = <<tree, Leaf(local)>>
      BY <1>2, <2>1, <2>2
  <2>4. ASSUME NEW k \in 1..Len(sum') PROVE sum'[k][1] = k
    <3>1. CASE k = tree
        BY <2>3, <3>1
    <3>2. CASE k # tree
      <4>1. k \in 1..Len(sum) /\ sum'[k] = sum[k]
          BY <1>2, <2>1, <2>2, <2>3, <3>2
      <4> QED BY <4>1 DEF Inv, WalkInv
    <3> QED BY <3>1, <3>2
  <2> QED BY <2>3, <2>4
<1>4. CASE tree < Len(roots)
  <2>1. Start(tree + 1) /\ pc' = pc
      BY <1>4 DEF RawLeaf
  <2>2. TypeOK' /\ FlatInv'
      BY <1>1, <1>3, <2>1, ModelKept DEF Inv, TypeOK
  <2>3. PICK k : k = tree + 1
      OBVIOUS
  <2>4. k \in 1..Len(roots) /\ Len(sum') = k - 1
    <3>1. Len(roots) \in Nat
        BY DEF Inv, TypeOK
    <3> QED BY <1>2, <1>3, <1>4, <2>3, <3>1
  <2>5. Start(k)
      BY <2>1, <2>3
  <2>6. /\ tree' = k /\ Inside(file[k], local')
        /\ \E nb, lb \in Nat :
             /\ Placed(nodes, leaves, widest, file[k], k, roots[k], nb, lb)
             /\ i' = child(local', nb, lb)
      BY <2>4, <2>5, StartInv DEF Inv
  <2>7. WalkInv'
      BY <1>1, <1>3, <2>4, <2>6 DEF WalkInv
  <2> QED BY <2>2, <2>7 DEF Inv
<1>5. CASE ~(tree < Len(roots))
  <2>1. pc' = "stored"
      BY <1>5 DEF RawLeaf
  <2>2. TypeOK' /\ FlatInv'
      BY <1>1, <1>3, <2>1, ModelKept DEF Inv, TypeOK
  <2>3. WalkInv'
      BY <1>3, <2>1 DEF WalkInv
  <2> QED BY <2>2, <2>3 DEF Inv
<1> QED BY <1>4, <1>5

LEMMA InitInv == Init => Inv
<1> SUFFICES ASSUME Init PROVE Inv
    OBVIOUS
<1>1. Count(<<>>) = 0 /\ DOMAIN <<>> = 0..(0 - 1)
    BY FS_EmptySet DEF Count
<1>2. TypeOK
    BY <1>1 DEF Init, TypeOK
<1>3. FlatInv /\ WalkInv
    BY DEF Init, FlatInv, WalkInv
<1> QED BY <1>2, <1>3 DEF Inv

-----------------------------------------------------------------------------
(* Theorems.                                                                *)

\* The flat arrays hold every tree of the file, and a walk stands in them where a
\* walk of the tree itself would (Load, child, Raw).
THEOREM TreeModelInvariant == Spec => []Inv
<1>1. Inv /\ [Next]_vars => Inv'
  <2> SUFFICES ASSUME Inv, [Next]_vars PROVE Inv'
      OBVIOUS
  <2>1. CASE UNCHANGED vars \/ Ended
    <3>1. UNCHANGED vars
        BY <2>1 DEF Ended
    <3>2. Count(nodes)' = Count(nodes) /\ Count(leaves)' = Count(leaves)
        BY <3>1 DEF vars, Count
    <3>3. TypeOK'
        BY <3>1, <3>2 DEF vars, Inv, TypeOK
    <3>4. FlatInv' /\ WalkInv'
        BY <3>1 DEF vars, Inv, FlatInv, WalkInv
    <3> QED BY <3>3, <3>4 DEF Inv
  <2>2. ASSUME NEW n \in Headers, Header(n) PROVE Inv'
    <3>1. /\ pc = "trees" /\ pc' = pc /\ numFeatures' \in Int
          /\ UNCHANGED <<nodes, leaves, roots, file, widest, i, tree, local, sum>>
        BY <2>2, TreeModelAssumption DEF Header, walking
    <3>2. Count(nodes)' = Count(nodes) /\ Count(leaves)' = Count(leaves)
        BY <3>1 DEF Count
    <3>3. TypeOK'
        BY <3>1, <3>2 DEF Inv, TypeOK
    <3>4. FlatInv' /\ WalkInv'
        BY <3>1 DEF Inv, FlatInv, WalkInv
    <3> QED BY <3>3, <3>4 DEF Inv
  <2>3. ASSUME NEW t \in Trees, Flush(t) PROVE Inv'
      BY <2>3, FlushInv
  <2>5. CASE EndOfTrees \/ Store \/ BadLine \/ RawPanics \/ \E t \in Trees : Refuse(t)
    <3>1. /\ pc' \in {"loaded", "refused", "stored", "panicked"}
          /\ UNCHANGED <<numFeatures, nodes, leaves, roots, file, widest, sum>>
          /\ pc' = "loaded" => roots # <<>>
          /\ pc' = "stored" => pc = "loaded" /\ numFeatures = FeatureCount
        BY <2>5 DEF EndOfTrees, Store, BadLine, RawPanics, Refuse, walking
    <3>2. pc' \in {"loaded", "stored", "walk"} => Len(roots) > 0
        BY <3>1 DEF Inv, TypeOK
    <3>3. TypeOK' /\ FlatInv'
        BY <3>1, <3>2, ModelKept DEF Inv, TypeOK
    <3>4. WalkInv'
        BY <3>1 DEF Inv, WalkInv
    <3> QED BY <3>3, <3>4 DEF Inv
  <2>6. CASE RawBegin \/ RawNode \/ RawLeaf
      BY <2>6, RawBeginInv, RawNodeInv, RawLeafInv
  <2> QED BY <2>1, <2>2, <2>3, <2>5, <2>6 DEF Next
<1> QED BY InitInv, <1>1, PTL DEF Spec

\* "A walk from the root can then neither index out of range" (model.go:251): of
\* every file that Load and Store take, with its headers in any place and any trees,
\* Raw finds its nodes and leaves, and the features too when no header lowered the
\* count that a tree was checked against.
THEOREM WalkStaysInRange == Spec => []WalkInRange
<1>1. Inv => WalkInRange
  <2> SUFFICES ASSUME Inv, pc = "walk"
               PROVE  IF i >= 0
                      THEN /\ i \in DOMAIN nodes
                           /\ widest <= numFeatures => nodes[i].feature \in 0..(FeatureCount - 1)
                      ELSE Leaf(i) \in DOMAIN leaves
      BY DEF WalkInRange
  <2>1. CASE i < 0
      BY <2>1, AtLeaf
  <2>2. CASE ~(i < 0)
    <3>1. i >= 0 /\ i \in DOMAIN nodes /\ nodes[i].feature \in 0..(widest - 1)
        BY <2>2, AtNode
    <3>2. numFeatures = FeatureCount /\ numFeatures \in Int /\ widest \in Nat
        BY DEF Inv, TypeOK
    <3>3. widest <= numFeatures => \A f \in 0..(widest - 1) : f \in 0..(FeatureCount - 1)
        BY <3>2
    <3> QED BY <3>1, <3>3
  <2> QED BY <2>1, <2>2
<1> QED BY TreeModelInvariant, <1>1, PTL

\* "Rejecting it here, once, lets Model.Raw skip bounds validation per candidate"
\* (lrb.go:35) is so for every file whose header is not lowered after a tree: the
\* process never stops at an index out of range.
THEOREM OrderedHeadersNeverPanic == Spec => [](pc = "panicked" => widest > numFeatures)
<1> DEFINE Q == pc = "panicked" => widest > numFeatures
<1>1. Init => Q
    BY DEF Init
<1>2. Inv /\ Q /\ [Next]_vars => Q'
  <2> SUFFICES ASSUME Inv, Q, [Next]_vars, pc' = "panicked" PROVE widest' > numFeatures'
      OBVIOUS
  <2>1. CASE pc = "panicked"
    <3>1. UNCHANGED <<widest, numFeatures>>
        BY <2>1 DEF Next, vars, Header, Flush, Refuse, BadLine, EndOfTrees, Store, RawBegin,
                    RawNode, RawLeaf, RawPanics, Ended
    <3> QED BY <2>1, <3>1
  <2>2. CASE pc # "panicked"
    <3>1. RawPanics
        BY <2>2 DEF Next, vars, Header, Flush, Refuse, BadLine, EndOfTrees, Store, RawBegin,
                    RawNode, RawLeaf, RawPanics, Ended
    <3>2. pc = "walk" /\ ~InBounds /\ UNCHANGED <<widest, numFeatures>>
        BY <3>1 DEF RawPanics
    <3>3. WalkInRange
      <4>1. CASE i < 0
          BY <3>2, <4>1, AtLeaf DEF WalkInRange
      <4>2. CASE ~(i < 0)
        <5>1. i >= 0 /\ i \in DOMAIN nodes /\ nodes[i].feature \in 0..(widest - 1)
            BY <3>2, <4>2, AtNode
        <5>2. numFeatures = FeatureCount /\ numFeatures \in Int /\ widest \in Nat
            BY <3>2 DEF Inv, TypeOK
        <5>3. widest <= numFeatures => \A f \in 0..(widest - 1) : f \in 0..(FeatureCount - 1)
            BY <5>2
        <5> QED BY <3>2, <5>1, <5>3 DEF WalkInRange
      <4> QED BY <4>1, <4>2
    <3>4. ~(widest <= numFeatures)
      <4>1. \/ i < 0 /\ i \in Int
            \/ i >= 0
          BY <3>2, AtLeaf, AtNode
      <4> QED BY <3>2, <3>3, <4>1 DEF WalkInRange, InBounds
    <3> QED BY <3>2, <3>4 DEF Inv, TypeOK
  <2> QED BY <2>1, <2>2
<1> QED BY TreeModelInvariant, <1>1, <1>2, PTL DEF Spec

\* The values that Raw adds are one leaf of each tree, in order, and each is the leaf
\* that a walk of the tree in the file reaches by the same turns.
THEOREM WalksTheFile == Spec => []SameAsTheFile
<1>1. Inv => SameAsTheFile
  <2> SUFFICES ASSUME Inv PROVE SameAsTheFile
      OBVIOUS
  <2>1. \A k \in 1..Len(sum) : sum[k][1] = k
      BY DEF Inv, WalkInv
  <2>2. CASE pc = "walk" /\ i < 0
    <3>1. /\ i \in Int /\ local \in Int /\ local < 0
          /\ leaves[Leaf(i)] = <<tree, Leaf(local)>>
        BY <2>2, AtLeaf
    <3>2. (i >= 0) = (local >= 0)
        BY <2>2, <3>1
    <3> QED BY <2>1, <3>1, <3>2 DEF SameAsTheFile
  <2>3. CASE pc = "walk" /\ ~(i < 0)
      BY <2>1, <2>3, AtNode DEF SameAsTheFile
  <2>4. CASE pc # "walk"
      BY <2>1, <2>4 DEF SameAsTheFile
  <2> QED BY <2>2, <2>3, <2>4
<1> QED BY TreeModelInvariant, <1>1, PTL
=============================================================================
