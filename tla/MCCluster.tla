------------------------------ MODULE MCCluster ------------------------------
(* Small instances of Cluster for TLC. Nodes are interchangeable, and so   *)
(* are requests of one kind.                                               *)
EXTENDS Cluster, TLC

Interchangeable ==
    Permutations(Nodes) \cup Permutations(Gets) \cup Permutations(Puts) \cup Permutations(Deletes)
=============================================================================
