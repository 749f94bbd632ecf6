--------------------------- MODULE MCLearnedShard ---------------------------
(* A small instance of LearnedShard. Keys are interchangeable.              *)
EXTENDS LearnedShard, TLC

\* LRB that is told to look at none, LRU that really does, and LFU at random.
SmallSetups ==
    {[policy |-> "lrb", sample |-> 0], [policy |-> "lru", sample |-> 0],
     [policy |-> "lfu", sample |-> 1]}

KeySymmetry == Permutations(Keys)
=============================================================================
