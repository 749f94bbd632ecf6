------------------------------ MODULE TreeModel ------------------------------
(***************************************************************************)
(* internal/model: a LightGBM text model is parsed tree by tree into flat  *)
(* arrays shared by all trees, and Raw walks those arrays without checks;  *)
(* ModelHolder.Store (internal/cache/lrb.go) compares the feature count    *)
(* once, when the model is installed.                                      *)
(*                                                                         *)
(* A tree of the file is what the parser has read when flush is called:    *)
(* the declared number of leaves, the child and feature arrays, how long   *)
(* the other three arrays are, and whether its splits are plain numerical  *)
(* ones. A child is an internal node v >= 0 or the leaf ^v. Thresholds are *)
(* abstracted: at a node the walk may go either way. A leaf's value is the *)
(* tree and the leaf.                                                      *)
(***************************************************************************)
EXTENDS Integers, Sequences, FiniteSets

CONSTANTS
    Trees,         \* the trees a file may contain, well formed or not
    Headers,       \* max_feature_idx + 1, of the lines a file may contain
    FeatureCount,  \* features.Count, the columns of the scratch row
    MaxTrees,      \* bound on the trees of a file
    ParentMod      \* parents are counted in a uint8, modulo 256

Count(f) == Cardinality(DOMAIN f)     \* the length of a 0-based array
IsArray(f) == DOMAIN f = 0..(Count(f) - 1) /\ Count(f) \in Nat /\ \A x \in DOMAIN f : f[x] \in Int

ASSUME TreeModelAssumption ==
    /\ Headers \subseteq Int /\ FeatureCount \in Nat \ {0}
    /\ MaxTrees \in Nat /\ ParentMod \in Nat \ {0, 1}
    /\ \A t \in Trees :
         /\ DOMAIN t = {"numLeaves", "left", "right", "feature", "thresholds", "decisions",
                        "values", "plain"}
         /\ t.numLeaves \in Int /\ t.plain \in BOOLEAN
         /\ IsArray(t.left) /\ IsArray(t.right) /\ IsArray(t.feature)
         /\ t.thresholds \in Nat /\ t.decisions \in Nat /\ t.values \in Nat

VARIABLES
    pc,           \* "trees", "loaded", "refused", "stored", "walk", "panicked"
    numFeatures,
    nodes,        \* flat nodes, 0-based as in the code: [0..n-1 -> children]
    leaves,       \* flat leaves, 0-based
    roots,        \* one per tree, 1-based
    file,         \* history: the trees accepted so far
    widest,       \* history: the highest numFeatures one of them was checked against
    i,            \* Raw's position: a node, or the leaf ^i
    tree,         \* Raw's tree: an index of roots
    local,        \* history: the same position in the file's own tree
    sum           \* the leaf values added up, in order

vars == <<pc, numFeatures, nodes, leaves, roots, file, widest, i, tree, local, sum>>
walking == <<i, tree, local, sum>>

Leaf(v) == -v - 1                     \* Go's ^v

-----------------------------------------------------------------------------
Internal(t) == t.numLeaves - 1
NodesOf(t) == IF t.numLeaves <= 1 THEN 0 ELSE Internal(t)

Children(t) ==
    {t.left[x] : x \in DOMAIN t.left} \cup {t.right[x] : x \in DOMAIN t.right}

\* How often node or leaf slot s is somebody's child.
Parents(t, s) ==
    LET Slot(v) == IF v < 0 THEN Internal(t) + Leaf(v) ELSE v
    IN  Cardinality({x \in DOMAIN t.left : Slot(t.left[x]) = s})
      + Cardinality({x \in DOMAIN t.right : Slot(t.right[x]) = s})

\* Mutant: one node past the end passes, and counts as the first leaf.
inRangeOffByOne(t, v) == IF v >= 0 THEN v <= Internal(t) ELSE Leaf(v) < t.numLeaves

inRange(t, v) == IF v >= 0 THEN v < Internal(t) ELSE Leaf(v) < t.numLeaves

\* Mutant: the root may be a child, in the place of the last leaf.
checkShapeLoose(t) ==
    /\ \A v \in Children(t) : inRange(t, v)
    /\ \A s \in 1..(Internal(t) + t.numLeaves - 2) : Parents(t, s) = 1

\* checkShape: indices in range, the root nobody's child, every other node and
\* every leaf somebody's child exactly once, as far as a uint8 can count.
checkShape(t) ==
    /\ \A v \in Children(t) : inRange(t, v) /\ v # 0
    /\ \A s \in 1..(Internal(t) + t.numLeaves - 1) : Parents(t, s) % ParentMod = 1

\* The lengths that flush compares with num_leaves.
SameLengths(t) ==
    /\ Count(t.feature) = Internal(t) /\ t.thresholds = Internal(t)
    /\ Count(t.left) = Internal(t) /\ Count(t.right) = Internal(t)
    /\ t.decisions = Internal(t) /\ t.values = t.numLeaves

\* flush refuses a tree whose arrays disagree, whose shape is not a tree's, or
\* with a split Raw cannot express or a feature that the header, as far as it has
\* been read, does not declare. A tree that never split has one leaf value, and
\* its other arrays are not looked at.
Accepts(t) ==
    IF t.numLeaves <= 1
    THEN t.values = 1
    ELSE /\ SameLengths(t)
         /\ checkShape(t)
         /\ t.plain
         /\ \A x \in DOMAIN t.feature : t.feature[x] >= 0 /\ t.feature[x] < numFeatures

\* Mutant: a leaf keeps its index of its own tree.
childOwnLeaf(v, nodeBase, leafBase) ==
    IF v >= 0 THEN nodeBase + v ELSE v

\* child: the file's indices moved to where the tree is in the flat arrays.
child(v, nodeBase, leafBase) ==
    IF v >= 0 THEN nodeBase + v ELSE -(leafBase + Leaf(v)) - 1

Init ==
    /\ pc = "trees" /\ numFeatures = 0
    /\ nodes = <<>> /\ leaves = <<>> /\ roots = <<>> /\ file = <<>> /\ widest = 0
    /\ i = 0 /\ tree = 0 /\ local = 0 /\ sum = <<>>

\* A max_feature_idx line: run takes it wherever it stands, before the trees,
\* between them or after them, and the last one counts.
Header(n) ==
    /\ pc = "trees"
    /\ numFeatures' = n
    /\ UNCHANGED <<pc, nodes, leaves, roots, file, widest, walking>>

\* A line that run refuses: a number that does not parse, or several classes,
\* categorical splits or linear trees.
BadLine ==
    /\ pc = "trees"
    /\ pc' = "refused"
    /\ UNCHANGED <<numFeatures, nodes, leaves, roots, file, widest, walking>>

\* flush of an acceptable tree: its leaves, then its nodes, then its root.
Flush(t) ==
    LET nodeBase == Count(nodes)
        leafBase == Count(leaves)
        flat(v) == child(v, nodeBase, leafBase)
    IN  /\ pc = "trees" /\ Len(roots) < MaxTrees /\ Accepts(t)
        /\ leaves' = [x \in 0..(leafBase + t.values - 1) |->
              IF x < leafBase THEN leaves[x] ELSE <<Len(roots) + 1, x - leafBase>>]
        /\ nodes' = [x \in 0..(nodeBase + NodesOf(t) - 1) |->
              IF x < nodeBase THEN nodes[x]
              ELSE [left |-> flat(t.left[x - nodeBase]), right |-> flat(t.right[x - nodeBase]),
                    feature |-> t.feature[x - nodeBase]]]
        /\ roots' = Append(roots, IF t.numLeaves <= 1 THEN -leafBase - 1 ELSE nodeBase)
        /\ file' = Append(file, t)
        /\ widest' = IF numFeatures > widest THEN numFeatures ELSE widest
        /\ UNCHANGED <<pc, numFeatures, walking>>

\* flush of any other tree: Load fails.
Refuse(t) ==
    /\ pc = "trees" /\ Len(roots) < MaxTrees /\ ~Accepts(t)
    /\ pc' = "refused"
    /\ UNCHANGED <<numFeatures, nodes, leaves, roots, file, widest, walking>>

\* The end of the file, and Load's own two checks.
EndOfTrees ==
    /\ pc = "trees"
    /\ pc' = IF roots = <<>> \/ numFeatures = 0 THEN "refused" ELSE "loaded"
    /\ UNCHANGED <<numFeatures, nodes, leaves, roots, file, widest, walking>>

\* ModelHolder.Store: the model must expect the columns this build has.
Store ==
    /\ pc = "loaded"
    /\ pc' = IF numFeatures # FeatureCount THEN "refused" ELSE "stored"
    /\ UNCHANGED <<numFeatures, nodes, leaves, roots, file, widest, walking>>

-----------------------------------------------------------------------------
(* Raw, for one candidate after the other.                                 *)

Start(k) ==
    /\ tree' = k /\ i' = roots[k]
    /\ local' = IF file[k].numLeaves <= 1 THEN -1 ELSE 0

RawBegin ==
    /\ pc = "stored"
    /\ pc' = "walk" /\ sum' = <<>>
    /\ Start(1)
    /\ UNCHANGED <<numFeatures, nodes, leaves, roots, file, widest>>

\* Go's own bounds checks, on nodes, on the row of features and on leaves.
InBounds ==
    IF i >= 0 THEN i \in DOMAIN nodes /\ nodes[i].feature \in 0..(FeatureCount - 1)
              ELSE Leaf(i) \in DOMAIN leaves

\* One node: the feature is at most the threshold, or not.
RawNode ==
    /\ pc = "walk" /\ i >= 0 /\ InBounds
    /\ \/ i' = nodes[i].left /\ local' = file[tree].left[local]
       \/ i' = nodes[i].right /\ local' = file[tree].right[local]
    /\ UNCHANGED <<pc, numFeatures, nodes, leaves, roots, file, widest, tree, sum>>

\* A leaf: add its value and go on with the next tree, or return.
RawLeaf ==
    /\ pc = "walk" /\ i < 0 /\ InBounds
    /\ sum' = Append(sum, leaves[Leaf(i)])
    /\ IF tree < Len(roots)
       THEN Start(tree + 1) /\ UNCHANGED pc
       ELSE pc' = "stored" /\ UNCHANGED <<tree, i, local>>
    /\ UNCHANGED <<numFeatures, nodes, leaves, roots, file, widest>>

\* An index out of range stops the process.
RawPanics ==
    /\ pc = "walk" /\ ~InBounds
    /\ pc' = "panicked"
    /\ UNCHANGED <<numFeatures, nodes, leaves, roots, file, widest, walking>>

\* A refused file is the end: the Watcher logs it and keeps the old model.
Ended ==
    /\ pc \in {"refused", "panicked"}
    /\ UNCHANGED vars

Next ==
    \/ \E n \in Headers : Header(n)
    \/ \E t \in Trees : Flush(t) \/ Refuse(t)
    \/ BadLine \/ EndOfTrees \/ Store
    \/ RawBegin \/ RawNode \/ RawLeaf \/ RawPanics
    \/ Ended

Spec == Init /\ [][Next]_vars

\* An evaluation that began goes on: it is a loop without a wait.
FairSpec == Spec /\ WF_vars(RawNode \/ RawLeaf \/ RawPanics)

-----------------------------------------------------------------------------
(* Properties.                                                             *)

\* "A walk from the root can then neither index out of range" (model.go:251): what
\* Raw reads of nodes and leaves is there, whatever trees the file has and wherever
\* its headers stand; and so is the feature, provided no header after a tree
\* lowered the feature count that the tree was checked against.
WalkInRange ==
    pc = "walk" =>
        IF i >= 0
        THEN /\ i \in DOMAIN nodes
             /\ widest <= numFeatures => nodes[i].feature \in 0..(FeatureCount - 1)
        ELSE Leaf(i) \in DOMAIN leaves

\* "A walk from the root can then neither index out of range nor loop, so Raw needs
\* no checks of its own" (model.go:251), and of the feature count: "Rejecting it
\* here, once, lets Model.Raw skip bounds validation per candidate" (lrb.go:35).
NeverPanics == pc # "panicked"

\* The flat arrays are the file's trees: after the same turns the walk of a tree
\* that was moved behind others is where a walk of the tree itself would be, so
\* the values summed are one leaf of each tree, in order.
SameAsTheFile ==
    /\ pc = "walk" => (i >= 0) = (local >= 0)
    /\ (pc = "walk" /\ i < 0) => leaves[Leaf(i)] = <<tree, Leaf(local)>>
    /\ \A k \in 1..Len(sum) : sum[k][1] = k

\* "... nor loop" (model.go:252): every evaluation ends, so an eviction that
\* scores a candidate always returns, although checkShape does accept nodes that
\* form a cycle the root does not reach.
EveryWalkEnds == pc = "walk" ~> pc \in {"stored", "panicked"}
=============================================================================
