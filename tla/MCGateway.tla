------------------------------ MODULE MCGateway ------------------------------
(* A small instance of Gateway for TLC.                                    *)
EXTENDS Gateway, TLC

CONSTANTS n1, n2

TwoNodeRing == <<n1, n2, n1>>
RequestSymmetry == Permutations(Requests)
=============================================================================
