---------------------------- MODULE MCTreeModel ----------------------------
(* Every tree of two and of three leaves, with child indices that reach one  *)
(* past either end, and trees that are wrong in one other way.               *)
EXTENDS TreeModel

Array(n, v) == [x \in 0..(n - 1) |-> v]

\* A tree that never split, of n declared leaves and k leaf values.
Stump(n, k) == [numLeaves |-> n, left |-> <<>>, right |-> <<>>, feature |-> <<>>,
                thresholds |-> 0, decisions |-> 0, values |-> k, plain |-> TRUE]

Shapes(n) == [numLeaves : {n}, values : {n}, feature : {Array(n - 1, 0)}, plain : {TRUE},
              thresholds : {n - 1}, decisions : {n - 1},
              left : [0..(n - 2) -> (-n - 1)..(n - 1)],
              right : [0..(n - 2) -> (-n - 1)..(n - 1)]]

\* A split of two leaves, and what may be wrong with it.
Split == [numLeaves |-> 2, values |-> 2, feature |-> Array(1, 0), plain |-> TRUE,
          thresholds |-> 1, decisions |-> 1, left |-> Array(1, -1), right |-> Array(1, -2)]
Wrong == {[Split EXCEPT !.left = Array(2, -1)], [Split EXCEPT !.right = <<>>],
          [Split EXCEPT !.feature = <<>>], [Split EXCEPT !.thresholds = 0],
          [Split EXCEPT !.decisions = 2], [Split EXCEPT !.values = 1],
          [Split EXCEPT !.plain = FALSE],
          [Split EXCEPT !.feature = Array(1, -1)], [Split EXCEPT !.feature = Array(1, 2)]}

\* Four leaves: a chain, and two nodes that are each other's child.
Four(l, r) == [numLeaves |-> 4, values |-> 4, plain |-> TRUE, thresholds |-> 3, decisions |-> 3,
               feature |-> [x \in 0..2 |-> IF x = 2 THEN 1 ELSE 0],
               left |-> [x \in 0..2 |-> l[x + 1]], right |-> [x \in 0..2 |-> r[x + 1]]]
Fours == {Four(<<1, 2, -1>>, <<-2, -3, -4>>), Four(<<-1, 2, 1>>, <<-2, -3, -4>>)}

SmallTrees == {Stump(0, 1), Stump(1, 1), Stump(1, 2)}
              \cup Shapes(2) \cup Shapes(3) \cup Fours \cup Wrong

\* max_feature_idx=-1, 0 and 1.
SmallHeaders == {0, 1, 2}
=============================================================================
