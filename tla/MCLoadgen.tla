------------------------------ MODULE MCLoadgen ------------------------------
(* Small instances of Loadgen for TLC. Keys and nodes are interchangeable. *)
EXTENDS Loadgen, TLC

CONSTANT MaxLength   \* length of the longest trace

ShortTraces == UNION {[1..n -> Keys] : n \in 0..MaxLength}
Interchangeable == Permutations(Keys) \cup Permutations(Nodes)
=============================================================================
