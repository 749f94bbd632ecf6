----------------------------- MODULE LossyQueue -----------------------------
(***************************************************************************)
(* What internal/trace/ring.go promises its two ends: a bounded FIFO that  *)
(* drops a record, and counts the drop, only when it is full, and delivers *)
(* what it accepted in order, once, in batches.                            *)
(***************************************************************************)
EXTENDS Naturals, Sequences

CONSTANTS Records, Capacity, Batch

VARIABLES accepted, delivered, drops

vars == <<accepted, delivered, drops>>

Queued == Len(accepted) - Len(delivered)

Init == accepted = <<>> /\ delivered = <<>> /\ drops = 0

Accept(r) ==
    /\ Queued < Capacity
    /\ accepted' = Append(accepted, r)
    /\ UNCHANGED <<delivered, drops>>

Drop ==
    /\ Queued = Capacity
    /\ drops' = drops + 1
    /\ UNCHANGED <<accepted, delivered>>

Deliver(n) ==
    /\ n <= Queued
    /\ delivered' = SubSeq(accepted, 1, Len(delivered) + n)
    /\ UNCHANGED <<accepted, drops>>

Next ==
    \/ \E r \in Records : Accept(r)
    \/ Drop
    \/ \E n \in 1..Batch : Deliver(n)

Spec == Init /\ [][Next]_vars
=============================================================================
